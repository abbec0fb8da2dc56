------------------------- MODULE ConversationLedger -------------------------
(***************************************************************************)
(* What the assistant worker promises about a conversation, with no        *)
(* database, files or process: a conversation is created once, holds a     *)
(* history of turns of which at most the last is running, a finished turn  *)
(* keeps its outcome, a restart turns every running turn into an           *)
(* interrupted one, and only an idle conversation can be removed, for      *)
(* good.  ConversationStore and AssistantWorker are shown to implement it. *)
(***************************************************************************)
EXTENDS Naturals, Sequences

CONSTANT Conversation      \* conversation ids (random UUIDs, never reused)

VARIABLES
    presence,              \* presence[c]: not created yet, open, or removed
    history                \* history[c]: the statuses of c's turns, oldest first

ledgerVars == <<presence, history>>

Outcome == {"complete", "interrupted", "failure"}
TurnStatus == Outcome \cup {"running"}

IsIdle(h) == \A i \in DOMAIN h : h[i] # "running"

Interrupted(h) ==
    [i \in DOMAIN h |-> IF h[i] = "running" THEN "interrupted" ELSE h[i]]

LedgerInit ==
    /\ presence = [c \in Conversation |-> "unborn"]
    /\ history = [c \in Conversation |-> <<>>]

Create(c) ==
    /\ presence[c] = "unborn"
    /\ presence' = [presence EXCEPT ![c] = "present"]
    /\ UNCHANGED history

Start(c) ==
    /\ presence[c] = "present"
    /\ IsIdle(history[c])
    /\ history' = [history EXCEPT ![c] = Append(@, "running")]
    /\ UNCHANGED presence

(* Any set of running turns finishes at once: one when a turn is settled,  *)
(* all of them when the worker stops.                                      *)
Finish ==
    /\ \E outcome \in [Conversation -> Outcome] : \E ended \in SUBSET Conversation :
          history' = [c \in Conversation |->
              IF c \in ended
                 THEN [i \in DOMAIN history[c] |->
                         IF history[c][i] = "running" THEN outcome[c] ELSE history[c][i]]
                 ELSE history[c]]
    /\ UNCHANGED presence

Restart ==
    /\ history' = [c \in Conversation |-> Interrupted(history[c])]
    /\ UNCHANGED presence

Remove(c) ==
    /\ presence[c] = "present"
    /\ IsIdle(history[c])
    /\ presence' = [presence EXCEPT ![c] = "deleted"]
    /\ history' = [history EXCEPT ![c] = <<>>]

LedgerNext ==
    \/ \E c \in Conversation : Create(c) \/ Start(c) \/ Remove(c)
    \/ Finish
    \/ Restart

LedgerSpec == LedgerInit /\ [][LedgerNext]_ledgerVars
=============================================================================
