-------------------------- MODULE ConversationStore --------------------------
(***************************************************************************)
(* worker/src/store.ts: the SQLite rows and transcript files behind the    *)
(* assistant's conversations.                                              *)
(*                                                                         *)
(* A database call is synchronous, so nothing else of the process runs     *)
(* between two statements of one method, but the process can die there.    *)
(* deleteConversation and the recovery in the constructor are therefore    *)
(* one action per transaction or file operation (`step' is the program     *)
(* counter, `target' the conversation being deleted); a method that is one *)
(* transaction is one action.  Deleting is a protocol over two stores: a   *)
(* row of `deletions' is committed before the transcript is moved, and the *)
(* constructor replays every row it finds.                                 *)
(***************************************************************************)
EXTENDS Naturals, Sequences

CONSTANTS
    Conversation,          \* conversation ids (random UUIDs, never reused)
    NoConversation,        \* "no deletion in progress"
    MaxTurns,              \* bound: turns per conversation
    MaxFaults              \* bound: process crashes plus failed I/O calls

ASSUME NoConversationAssumption == NoConversation \notin Conversation
ASSUME BoundsAssumption == MaxTurns \in Nat /\ MaxFaults \in Nat

VARIABLES
    rows,                  \* the conversations table
    turns,                 \* the turns table: statuses of c's turns, oldest first
    deletions,             \* the deletions table
    transcript,            \* c's file under transcripts/
    trash,                 \* conversations with a file under .deleting/
    mode,                  \* the process: down, in the constructor, or serving
    step,                  \* where the deletion in progress stands
    target,                \* the conversation being deleted
    faults                 \* faults so far

storeVars == <<rows, turns, deletions, transcript, trash, mode, step, target, faults>>
tables == <<rows, turns, deletions>>
files == <<transcript, trash>>
process == <<mode, step, target>>

Outcome == {"complete", "interrupted", "failure"}
TurnStatus == Outcome \cup {"running"}
Step == {"none", "rename", "abandon", "row", "trash", "transcript", "forget"}

StoreTypeOK ==
    /\ rows \in [Conversation -> {"unborn", "present", "deleted"}]
    /\ turns \in [Conversation -> Seq(TurnStatus)]
    /\ deletions \subseteq Conversation
    /\ transcript \in [Conversation -> {"unwritten", "present", "gone"}]
    /\ trash \subseteq Conversation
    /\ mode \in {"down", "recovering", "serving"}
    /\ step \in Step
    /\ target \in Conversation \cup {NoConversation}
    /\ faults \in 0..MaxFaults

IsIdle(h) == \A i \in DOMAIN h : h[i] # "running"

Interrupted(h) ==
    [i \in DOMAIN h |-> IF h[i] = "running" THEN "interrupted" ELSE h[i]]

\* The event loop is free: the store is open and no method is executing.
Quiet == mode = "serving" /\ step = "none"

StoreInit ==
    /\ rows = [c \in Conversation |-> "unborn"]
    /\ turns = [c \in Conversation |-> <<>>]
    /\ deletions = {}
    /\ transcript = [c \in Conversation |-> "unwritten"]
    /\ trash = {}
    /\ mode = "down"
    /\ step = "none"
    /\ target = NoConversation
    /\ faults = 0

-----------------------------------------------------------------------------
(* The constructor: finish every pending deletion, then interrupt the      *)
(* turns the previous process left running.                                *)

Open ==
    /\ mode = "down"
    /\ mode' = "recovering"
    /\ UNCHANGED <<tables, files, step, target, faults>>

RecoverDeletion(c) ==
    /\ mode = "recovering"
    /\ step = "none"
    /\ c \in deletions
    /\ step' = "row"
    /\ target' = c
    /\ UNCHANGED <<tables, files, mode, faults>>

\* Faulty variant: the store opens without waiting for the pending deletions.
InterruptBeforeRecovery ==
    /\ mode = "recovering"
    /\ step = "none"
    /\ turns' = [c \in Conversation |-> Interrupted(turns[c])]
    /\ mode' = "serving"
    /\ UNCHANGED <<rows, deletions, files, step, target, faults>>

\* Faulty variant: the turns of the previous process stay running.
KeepRunningTurns ==
    /\ mode = "recovering"
    /\ step = "none"
    /\ deletions = {}
    /\ mode' = "serving"
    /\ UNCHANGED <<tables, files, step, target, faults>>

InterruptRunningTurns ==
    /\ mode = "recovering"
    /\ step = "none"
    /\ deletions = {}
    /\ turns' = [c \in Conversation |-> Interrupted(turns[c])]
    /\ mode' = "serving"
    /\ UNCHANGED <<rows, deletions, files, step, target, faults>>

-----------------------------------------------------------------------------
(* Methods that are one transaction.                                       *)

CreateConversation(c) ==
    /\ Quiet
    /\ rows[c] = "unborn"
    /\ rows' = [rows EXCEPT ![c] = "present"]
    /\ UNCHANGED <<turns, deletions, files, process, faults>>

(* The row must exist and no deletion may be pending; the unique index     *)
(* one_running_turn_per_conversation refuses a second running turn.        *)
CanStartTurn(c) ==
    /\ rows[c] = "present"
    /\ c \notin deletions
    /\ IsIdle(turns[c])
    /\ Len(turns[c]) < MaxTurns

StartTurn(c) ==
    /\ Quiet
    /\ CanStartTurn(c)
    /\ turns' = [turns EXCEPT ![c] = Append(@, "running")]
    /\ UNCHANGED <<rows, deletions, files, process, faults>>

\* Faulty variant: the update matches whatever the turn's status is.
FinishAnyTurn(c, i, outcome) ==
    /\ Quiet
    /\ i \in DOMAIN turns[c]
    /\ turns' = [turns EXCEPT ![c][i] = outcome]
    /\ UNCHANGED <<rows, deletions, files, process, faults>>

\* The update names the turn but only matches it while it is running.
FinishTurn(c, i, outcome) ==
    /\ Quiet
    /\ i \in DOMAIN turns[c]
    /\ turns[c][i] = "running"
    /\ turns' = [turns EXCEPT ![c][i] = outcome]
    /\ UNCHANGED <<rows, deletions, files, process, faults>>

-----------------------------------------------------------------------------
(* deleteConversation, one action per transaction or file operation.  The  *)
(* recovery enters the same sequence at "row".                             *)

\* Faulty variant: no look at the conversation's running turn.
BeginDeleteAnyway(c) ==
    /\ Quiet
    /\ rows[c] = "present"
    /\ c \notin deletions
    /\ deletions' = deletions \cup {c}
    /\ step' = "rename"
    /\ target' = c
    /\ UNCHANGED <<rows, turns, files, mode, faults>>

BeginDelete(c) ==
    /\ Quiet
    /\ rows[c] = "present"
    /\ IsIdle(turns[c])
    /\ c \notin deletions          \* the INSERT's primary key: a stuck deletion throws
    /\ deletions' = deletions \cup {c}
    /\ step' = "rename"
    /\ target' = c
    /\ UNCHANGED <<rows, turns, files, mode, faults>>

\* ENOENT (Pi has written nothing yet) is not an error.
MoveTranscript ==
    /\ step = "rename"
    /\ IF transcript[target] = "present"
          THEN /\ transcript' = [transcript EXCEPT ![target] = "gone"]
               /\ trash' = trash \cup {target}
          ELSE UNCHANGED files
    /\ step' = "row"
    /\ UNCHANGED <<tables, mode, target, faults>>

\* Any other error withdraws the deletion and is rethrown.
AbandonDelete ==
    /\ step = "abandon"
    /\ deletions' = deletions \ {target}
    /\ step' = "none"
    /\ target' = NoConversation
    /\ UNCHANGED <<rows, turns, files, mode, faults>>

\* Faulty variant: without PRAGMA foreign_keys nothing cascades.
DeleteRowOnly ==
    /\ step = "row"
    /\ rows' = [rows EXCEPT ![target] = "deleted"]
    /\ step' = "trash"
    /\ UNCHANGED <<turns, deletions, files, mode, target, faults>>

\* Deleting the row cascades to the conversation's turns.
DeleteRow ==
    /\ step = "row"
    /\ rows' = [rows EXCEPT ![target] = "deleted"]
    /\ turns' = [turns EXCEPT ![target] = <<>>]
    /\ step' = "trash"
    /\ UNCHANGED <<deletions, files, mode, target, faults>>

\* Faulty variant: trusting the rename, only the trash is removed.
RemoveTrashOnly ==
    /\ step = "trash"
    /\ trash' = trash \ {target}
    /\ step' = "forget"
    /\ UNCHANGED <<tables, transcript, mode, target, faults>>

RemoveTrash ==
    /\ step = "trash"
    /\ trash' = trash \ {target}
    /\ step' = "transcript"
    /\ UNCHANGED <<tables, transcript, mode, target, faults>>

RemoveTranscript ==
    /\ step = "transcript"
    /\ transcript' = [transcript EXCEPT ![target] = IF @ = "present" THEN "gone" ELSE @]
    /\ step' = "forget"
    /\ UNCHANGED <<tables, trash, mode, target, faults>>

ForgetDeletion ==
    /\ step = "forget"
    /\ deletions' = deletions \ {target}
    /\ step' = "none"
    /\ target' = NoConversation
    /\ UNCHANGED <<rows, turns, files, mode, faults>>

DeleteStep ==
    \/ MoveTranscript \/ AbandonDelete \/ DeleteRow
    \/ RemoveTrash \/ RemoveTranscript \/ ForgetDeletion

-----------------------------------------------------------------------------
(* Failure.  A statement or file operation that throws ends the method; in *)
(* the constructor it ends the process.  Nothing is undone except by the   *)
(* rename's handler, which does not cover making the paths for it.         *)

\* The method (or the process, in the constructor) ends where it stands.
GiveUp ==
    /\ step' = "none"
    /\ target' = NoConversation
    /\ mode' = IF mode = "recovering" THEN "down" ELSE mode

\* Faulty variant: a failing transaction withdraws the deletion, too.
WithdrawOnFailure ==
    /\ step # "none"
    /\ faults < MaxFaults
    /\ faults' = faults + 1
    /\ IF step \in {"rename", "row"}
          THEN step' = "abandon" /\ UNCHANGED <<mode, target>>
          ELSE GiveUp
    /\ UNCHANGED <<tables, files>>

StepFails ==
    /\ step # "none"
    /\ faults < MaxFaults
    /\ faults' = faults + 1
    /\ \/ step = "rename" /\ step' = "abandon" /\ UNCHANGED <<mode, target>>
       \/ GiveUp
    /\ UNCHANGED <<tables, files>>

\* The process dies; committed rows and files stay as they are.
Exit ==
    /\ mode' = "down"
    /\ step' = "none"
    /\ target' = NoConversation
    /\ UNCHANGED <<tables, files>>

Crash ==
    /\ mode # "down"
    /\ faults < MaxFaults
    /\ faults' = faults + 1
    /\ Exit

-----------------------------------------------------------------------------
(* The process ends by itself, between two methods: a shutdown, or the     *)
(* forced exit of a turn that does not stop.                               *)
Stop ==
    /\ Quiet
    /\ Exit
    /\ UNCHANGED faults

-----------------------------------------------------------------------------
(* Pi appends to the transcript of a conversation that a turn has opened,  *)
(* creating the file on its first write.  Which conversations those are is *)
(* the worker's business; the store only relies on their being kept.       *)

AppendTranscript(c) ==
    /\ transcript' = [transcript EXCEPT ![c] = "present"]
    /\ UNCHANGED <<tables, trash, process, faults>>

WriteTranscript(c) ==
    /\ Quiet
    /\ rows[c] = "present"
    /\ c \notin deletions
    /\ AppendTranscript(c)

StoreNext ==
    \/ Open
    \/ InterruptRunningTurns
    \/ DeleteStep
    \/ StepFails
    \/ Crash
    \/ Stop
    \/ \E c \in Conversation :
          \/ RecoverDeletion(c)
          \/ CreateConversation(c)
          \/ StartTurn(c)
          \/ BeginDelete(c)
          \/ WriteTranscript(c)
          \/ \E i \in 1..MaxTurns, outcome \in Outcome : FinishTurn(c, i, outcome)

StoreSpec == StoreInit /\ [][StoreNext]_storeVars

(* The container restarts a stopped worker, and a synchronous method runs  *)
(* to its end unless something fails.                                      *)
StoreFairness ==
    /\ WF_storeVars(Open)
    /\ WF_storeVars(InterruptRunningTurns)
    /\ WF_storeVars(DeleteStep)
    /\ WF_storeVars(\E c \in Conversation : RecoverDeletion(c))

FairStoreSpec == StoreSpec /\ StoreFairness

-----------------------------------------------------------------------------
(* Properties.                                                             *)

(* A conversation never has two running turns, and the running one is its  *)
(* newest: the turn a client is shown (toConversation) is the one that     *)
(* runs.  Starting is checked against the rows, and rows survive crashes.  *)
OneRunningTurn ==
    \A c \in Conversation : \A i \in DOMAIN turns[c] :
        turns[c][i] = "running" => i = Len(turns[c])

(* A conversation whose deletion is recorded has no running turn, however  *)
(* the deletion was cut short: recovery can drop it without losing a reply *)
(* in progress.                                                            *)
PendingDeletionIsIdle ==
    \A c \in deletions : IsIdle(turns[c])

(* When a deletion is over, by deleteConversation or by the recovery of a  *)
(* later process, no transcript of the conversation is left in either      *)
(* directory.                                                              *)
DeletedLeavesNoFile ==
    \A c \in Conversation :
        rows[c] = "deleted" /\ c \notin deletions
            => transcript[c] # "present" /\ c \notin trash

(* A conversation that is not being deleted still has every transcript Pi  *)
(* wrote for it: a deletion that was refused or withdrawn lost nothing.    *)
KeptConversationKeepsTranscript ==
    \A c \in Conversation :
        rows[c] = "present" /\ c \notin deletions
            => transcript[c] # "gone" /\ c \notin trash

(* A finished turn keeps its outcome for as long as its conversation       *)
(* exists: a late finish, a crash or a restart never rewrites it.          *)
OutcomesKept ==
    \A c \in Conversation : \A i \in DOMAIN turns[c] :
        turns[c][i] # "running" =>
            \/ rows'[c] = "deleted"
            \/ i \in DOMAIN turns'[c] /\ turns'[c][i] = turns[c][i]

OutcomeIsFinal == [][OutcomesKept]_storeVars

(* Once the process has stopped, a deletion it left half done is finished  *)
(* by the restarts that follow (faults are finite).                        *)
RestartFinishesDeletions ==
    \A c \in Conversation :
        (mode = "down" /\ c \in deletions) ~> (rows[c] = "deleted" /\ c \notin deletions)

(* Once the process has stopped, every turn it left running ends as        *)
(* interrupted or goes away with its conversation.                         *)
RestartEndsRunningTurns ==
    \A c \in Conversation : mode = "down" ~> IsIdle(turns[c])

-----------------------------------------------------------------------------
(* The inductive invariant behind the safety properties.                   *)

(* The deletion in progress is recorded in `deletions', belongs to a live  *)
(* process, and its target is where the program counter says.              *)
ControlInv ==
    /\ (step = "none") <=> (target = NoConversation)
    /\ step # "none" => target \in deletions /\ mode # "down"
    /\ step \in {"rename", "abandon"} =>
          /\ mode = "serving"
          /\ rows[target] = "present"
          /\ transcript[target] # "gone"
          /\ target \notin trash
    /\ step \in {"trash", "transcript", "forget"} => rows[target] = "deleted"
    /\ step \in {"transcript", "forget"} => target \notin trash
    /\ step = "forget" => transcript[target] # "present"

(* A row that does not exist has no turns, a recorded deletion is of a     *)
(* conversation that was created, and files only exist for rows.           *)
RowInv ==
    /\ \A c \in Conversation : rows[c] # "present" => turns[c] = <<>>
    /\ \A c \in deletions : rows[c] # "unborn"
    /\ \A c \in Conversation :
          rows[c] = "unborn" => transcript[c] = "unwritten" /\ c \notin trash

StoreInv ==
    /\ StoreTypeOK
    /\ OneRunningTurn
    /\ PendingDeletionIsIdle
    /\ DeletedLeavesNoFile
    /\ KeptConversationKeepsTranscript
    /\ ControlInv
    /\ RowInv

Ledger == INSTANCE ConversationLedger WITH presence <- rows, history <- turns

\* The rows behave as the abstract ledger of conversations.
ImplementsLedger == Ledger!LedgerSpec
=============================================================================
