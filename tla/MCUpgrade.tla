----------------------------- MODULE MCUpgrade -----------------------------
(* A small instance of HostUpgrade for TLC.                                *)
EXTENDS HostUpgrade

CONSTANT spud              \* a model of OpenRouter's

\* Two builds of the worker, of which one has no model of OpenRouter's.
Builds ==
    {[p \in Provider |-> IF p = "openai-codex" THEN {CodexModel} ELSE {spud}],
     [p \in Provider |-> IF p = "openai-codex" THEN {CodexModel} ELSE {}]}
=============================================================================
