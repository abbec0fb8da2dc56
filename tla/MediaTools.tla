----------------------------- MODULE MediaTools -----------------------------
(***************************************************************************)
(* The Assistant's media tools (worker/src/media.ts).  A tool call runs    *)
(* one restricted Python process after another: one for find, details and  *)
(* search, two for configure, whose first only reads what the second needs *)
(* to be checked against.  A call settles once, whichever comes first: the *)
(* process's close, its output limit, the timeout or the owner's cancel.   *)
(* Its process is sent SIGTERM, and SIGKILL half a second later.           *)
(***************************************************************************)
EXTENDS Integers

CONSTANT Call       \* the tool calls

(* A "look" is a call of media_find or media_details.                      *)
Tool == {"look", "search", "configure"}
Code == {"none", "value", "cancelled", "timed_out", "invalid_response",
         "service_unavailable", "configuration", "invalid_request"}

VARIABLES
    tool,       \* the tool of each call
    stage,      \* where its execute function is
    step,       \* which of its processes it has come to
    cancelled,  \* its signal has been aborted
    listening,  \* the abort of its signal still reaches runPython
    child,      \* its process
    exit,       \* how that process ended
    changed,    \* the library has been changed, or a search started, for it
    result      \* what it reported

mediaVars == <<tool, stage, step, cancelled, listening, child, exit, changed, result>>

Steps(c) == IF tool[c] = "configure" THEN 2 ELSE 1

(* A call's last process is the one that changes something, if any does.   *)
Changes(c) == tool[c] # "look" /\ step[c] = Steps(c)

MediaTypeOK ==
    /\ tool \in [Call -> Tool]
    /\ stage \in [Call -> {"idle", "config", "key", "running", "done"}]
    /\ step \in [Call -> 1..2]
    /\ cancelled \in [Call -> BOOLEAN]
    /\ listening \in [Call -> BOOLEAN]
    /\ child \in [Call -> {"none", "running", "stopping", "exited", "gone"}]
    /\ exit \in [Call -> {"none", "answered", "unreadable", "failed"}]
    /\ changed \in [Call -> BOOLEAN]
    /\ result \in [Call -> Code]

MediaInit ==
    /\ tool \in [Call -> Tool]
    /\ stage = [c \in Call |-> "idle"]
    /\ step = [c \in Call |-> 1]
    /\ cancelled = [c \in Call |-> FALSE]
    /\ listening = [c \in Call |-> FALSE]
    /\ child = [c \in Call |-> "none"]
    /\ exit = [c \in Call |-> "none"]
    /\ changed = [c \in Call |-> FALSE]
    /\ result = [c \in Call |-> "none"]

-----------------------------------------------------------------------------
(* Helpers of runPython.                                                   *)

Finish(c, code) ==
    /\ stage' = [stage EXCEPT ![c] = "done"]
    /\ listening' = [listening EXCEPT ![c] = FALSE]
    /\ result' = [result EXCEPT ![c] = code]

(* A process that has exited already is left alone.                        *)
KillChild(c) ==
    child' = [child EXCEPT ![c] = IF @ = "running" THEN "stopping" ELSE @]

(* Faulty variant: the call settles and its process runs on.               *)
FinishAlone(c, code) ==
    /\ Finish(c, code)
    /\ UNCHANGED <<tool, step, child, exit, changed>>

KillAndFinish(c, code) ==
    /\ KillChild(c)
    /\ Finish(c, code)
    /\ UNCHANGED <<tool, step, exit, changed>>

(* runPython's first lines: the signal is looked at before the key is read. *)
RunPython(c) ==
    IF cancelled[c]
    THEN Finish(c, "cancelled")
    ELSE stage' = [stage EXCEPT ![c] = "key"] /\ UNCHANGED <<listening, result>>

-----------------------------------------------------------------------------
(* The tool call.                                                          *)

Execute(c) ==
    /\ stage[c] = "idle"
    /\ \/ stage' = [stage EXCEPT ![c] = "config"] /\ UNCHANGED <<listening, result>>
       \/ Finish(c, "invalid_request")
    /\ UNCHANGED <<tool, step, cancelled, child, exit, changed>>

ConfigRead(c) ==
    /\ stage[c] = "config"
    /\ \/ RunPython(c)
       \/ Finish(c, "configuration")
       \/ tool[c] = "configure" /\ Finish(c, "invalid_request")
    /\ UNCHANGED <<tool, step, cancelled, child, exit, changed>>

(* The listener is added after the key's await: an abort in between is not *)
(* heard by it.                                                            *)
KeyRead(c) ==
    /\ stage[c] = "key"
    /\ \/ /\ stage' = [stage EXCEPT ![c] = "running"]
          /\ listening' = [listening EXCEPT ![c] = ~cancelled[c]]
          /\ child' = [child EXCEPT ![c] = "running"]
          /\ exit' = [exit EXCEPT ![c] = "none"]
          /\ UNCHANGED result
       \/ \E code \in {"configuration", "service_unavailable"} :
             Finish(c, code) /\ UNCHANGED <<child, exit>>
    /\ UNCHANGED <<tool, step, cancelled, changed>>

Cancel(c) ==
    /\ stage[c] \in {"config", "key", "running"}
    /\ ~cancelled[c]
    /\ cancelled' = [cancelled EXCEPT ![c] = TRUE]
    /\ IF listening[c]
       THEN KillAndFinish(c, "cancelled")
       ELSE UNCHANGED <<tool, stage, step, listening, child, exit, changed, result>>

ProcessTimesOut(c) ==
    /\ stage[c] = "running"
    /\ KillAndFinish(c, "timed_out")
    /\ UNCHANGED cancelled

OutputTooLarge(c) ==
    /\ stage[c] = "running"
    /\ child[c] = "running"
    /\ KillAndFinish(c, "invalid_response")
    /\ UNCHANGED cancelled

-----------------------------------------------------------------------------
(* The process: the restricted adapter and the media service behind it.    *)

ChangesLibrary(c) ==
    /\ child[c] \in {"running", "stopping"}
    /\ Changes(c)
    /\ changed' = [changed EXCEPT ![c] = TRUE]
    /\ UNCHANGED <<tool, stage, step, cancelled, listening, child, exit, result>>

Exits(c) ==
    /\ child[c] \in {"running", "stopping"}
    /\ child' = [child EXCEPT ![c] = "exited"]
    /\ \E how \in {"answered", "unreadable", "failed"} :
          /\ how = "answered" /\ Changes(c) => changed[c]
          /\ exit' = [exit EXCEPT ![c] = how]
    /\ UNCHANGED <<tool, stage, step, cancelled, listening, changed, result>>

SigKill(c) ==
    /\ child[c] = "stopping"
    /\ child' = [child EXCEPT ![c] = "gone"]
    /\ UNCHANGED <<tool, stage, step, cancelled, listening, exit, changed, result>>

(* The answer of a settled call is ignored; of the others, an exit code is *)
(* looked at before the output, and the output before the next process.    *)
Close(c) ==
    /\ child[c] = "exited"
    /\ child' = [child EXCEPT ![c] = "gone"]
    /\ \/ /\ stage[c] # "running"
          /\ UNCHANGED <<stage, step, listening, result>>
       \/ /\ stage[c] = "running"
          /\ exit[c] = "failed"
          /\ Finish(c, "service_unavailable")
          /\ UNCHANGED step
       \/ /\ stage[c] = "running"
          /\ exit[c] = "unreadable"
          /\ Finish(c, "invalid_response")
          /\ UNCHANGED step
       \/ /\ stage[c] = "running"
          /\ exit[c] = "answered"
          /\ step[c] = Steps(c)
          /\ Finish(c, "value")
          /\ UNCHANGED step
       \/ /\ stage[c] = "running"
          /\ exit[c] = "answered"
          /\ step[c] < Steps(c)
          /\ \/ Finish(c, "configuration") /\ UNCHANGED step
             \/ /\ step' = [step EXCEPT ![c] = @ + 1]
                /\ IF cancelled[c]
                   THEN Finish(c, "cancelled")
                   ELSE /\ stage' = [stage EXCEPT ![c] = "key"]
                        /\ listening' = [listening EXCEPT ![c] = FALSE]
                        /\ UNCHANGED result
    /\ UNCHANGED <<tool, cancelled, exit, changed>>

MediaStep(c) == ConfigRead(c) \/ KeyRead(c) \/ ProcessTimesOut(c) \/ SigKill(c)

MediaNext ==
    \E c \in Call :
        \/ Execute(c)
        \/ MediaStep(c)
        \/ Cancel(c)
        \/ OutputTooLarge(c)
        \/ ChangesLibrary(c)
        \/ Exits(c)
        \/ Close(c)

MediaSpec == MediaInit /\ [][MediaNext]_mediaVars

-----------------------------------------------------------------------------
(* A settled call leaves no process running unattended: every way to       *)
(* settle either comes after its exit or has sent it a signal.             *)
NoProcessOutlivesItsCall ==
    \A c \in Call : child[c] = "running" => stage[c] = "running"

(* A reported result is the last process's own answer, so that what it     *)
(* says was changed has been changed.                                      *)
ResultsAreAnswers ==
    \A c \in Call : result[c] = "value" =>
        /\ step[c] = Steps(c)
        /\ exit[c] = "answered"
        /\ tool[c] # "look" => changed[c]

(* A request reported as refused, or as not configured, changed nothing    *)
(* and never will: it is safe to repeat.                                   *)
RefusalsChangeNothing ==
    \A c \in Call : result[c] \in {"invalid_request", "configuration"} =>
        /\ ~changed[c]
        /\ child[c] \in {"none", "gone"}

MediaInv ==
    /\ MediaTypeOK
    /\ NoProcessOutlivesItsCall
    /\ ResultsAreAnswers
    /\ RefusalsChangeNothing

(* Every call is answered and its process gone, whatever the process does. *)
CallsSettle ==
    \A c \in Call : (stage[c] = "config") ~> (stage[c] = "done" /\ child[c] # "stopping")
=============================================================================
