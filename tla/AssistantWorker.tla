--------------------------- MODULE AssistantWorker ---------------------------
(***************************************************************************)
(* worker/src/server.ts, class Worker: turns as tasks of one event loop    *)
(* over the ConversationStore.  A stretch of code between two awaits is    *)
(* one action; whatever else the loop runs meanwhile (another request, a   *)
(* timer, a signal, Pi writing a transcript) is another action.            *)
(*                                                                         *)
(* Submitting a turn awaits the credential check between looking for an    *)
(* active turn and inserting the row.  A task is in activeTurns from the   *)
(* insertion until its `finally', which may be long after the turn was     *)
(* settled: a timed-out Pi session can keep the task, and with it the      *)
(* conversation, until the process is forced to exit.                      *)
(***************************************************************************)
EXTENDS ConversationStore

CONSTANTS
    Provider,              \* model providers
    Request,               \* concurrent POST .../turns requests
    NoRequest,             \* "this request slot is free"
    SlowAuth               \* may a credential check outlast a turn's timeout?

ASSUME SlowAuthAssumption == SlowAuth \in BOOLEAN
ASSUME NoRequestAssumption == NoRequest \notin [conversation : Conversation, provider : Provider]

VARIABLES
    requests,              \* requests[r]: what r will start once its check answers
    tasks,                 \* activeTurns
    gates,                 \* gates[p]: does p accept new turns?
    credentials,           \* credentials[p]: what checkAuth(p) would answer
    life                   \* running, settling (inside shutdown), or draining

workerVars == <<requests, tasks, gates, credentials, life>>
vars == <<storeVars, workerVars>>

Submission == [conversation : Conversation, provider : Provider]

Task == [conversation : Conversation, turn : 1..MaxTurns, provider : Provider,
         stage : {"opening", "prompting", "aborting"},
         settled : BOOLEAN,       \* task.settled
         expired : BOOLEAN]       \* the turn timer fired: the forced exit is armed

Gate == {"open", "authentication", "cooldown"}

\* providerFailure's kinds; "limits" and "unavailable" both start the cooldown.
FailureKind == {"authentication", "cooldown", "unknown"}

WorkerTypeOK ==
    /\ StoreTypeOK
    /\ requests \in [Request -> Submission \cup {NoRequest}]
    /\ tasks \subseteq Task
    /\ gates \in [Provider -> Gate]
    /\ credentials \in [Provider -> BOOLEAN]
    /\ life \in {"running", "settling", "draining"}

WorkerInit ==
    /\ StoreInit
    /\ requests = [r \in Request |-> NoRequest]
    /\ tasks = {}
    /\ gates = [p \in Provider |-> "open"]
    /\ credentials = [p \in Provider |-> TRUE]
    /\ life = "running"

\* Faulty variant: a deletion that awaits its file operations.
LoopFreeInDeletion == mode = "serving" /\ life # "settling"

\* The event loop can take its next callback.
LoopFree == Quiet /\ life # "settling"

ActiveTasks(c) == {t \in tasks : t.conversation = c}

IsRunning(c, i) == i \in DOMAIN turns[c] /\ turns[c][i] = "running"

Running(t) == IsRunning(t.conversation, t.turn)

\* Faulty variant: an unclassified failure is stored like any other.
SetGateAlways(p, kind) == gates' = [gates EXCEPT ![p] = kind]

\* setGate: an unclassified failure leaves the gate as it is.
SetGate(p, kind) ==
    gates' = IF kind = "unknown" THEN gates ELSE [gates EXCEPT ![p] = kind]

\* settle: once per task; finishTurn's update only matches a running row.
Settle(t, outcome) ==
    IF ~t.settled /\ Running(t)
       THEN FinishTurn(t.conversation, t.turn, outcome)
       ELSE UNCHANGED storeVars

Replace(t, u) == tasks' = (tasks \ {t}) \cup {u}

-----------------------------------------------------------------------------
(* HTTP requests.                                                          *)

\* Faulty variant: relies on the rows alone to refuse a second turn.
SubmitUnchecked(r, c, p) ==
    /\ LoopFree
    /\ life = "running"
    /\ requests[r] = NoRequest
    /\ gates[p] = "open"
    /\ requests' = [requests EXCEPT ![r] = [conversation |-> c, provider |-> p]]
    /\ UNCHANGED <<storeVars, tasks, gates, credentials, life>>

(* submitTurn up to its await: no active turn here, and the provider's     *)
(* gate is open (an expired cooldown is deleted on the way).               *)
SubmitTurn(r, c, p) ==
    /\ LoopFree
    /\ life = "running"
    /\ requests[r] = NoRequest
    /\ ActiveTasks(c) = {}
    /\ gates[p] = "open"
    /\ requests' = [requests EXCEPT ![r] = [conversation |-> c, provider |-> p]]
    /\ UNCHANGED <<storeVars, tasks, gates, credentials, life>>

(* providerBlocked resumes with no credential: 503, and the gate closes    *)
(* until a restart.                                                        *)
SubmitRefused(r) ==
    /\ LoopFree
    /\ requests[r] # NoRequest
    /\ ~credentials[requests[r].provider]
    /\ SetGate(requests[r].provider, "authentication")
    /\ requests' = [requests EXCEPT ![r] = NoRequest]
    /\ UNCHANGED <<storeVars, tasks, credentials, life>>

\* The check itself failed, or startTurn answers "missing" or "running".
SubmitRejected(r) ==
    /\ LoopFree
    /\ requests[r] # NoRequest
    /\ requests' = [requests EXCEPT ![r] = NoRequest]
    /\ UNCHANGED <<storeVars, tasks, gates, credentials, life>>

(* startTurn succeeds; the task is registered and runTurn runs up to       *)
(* creating the Pi session.  A worker that is stopping leaves runTurn at   *)
(* once: the row stays running and the task is gone again.                 *)
TurnStarts(r) ==
    /\ LoopFree
    /\ requests[r] # NoRequest
    /\ LET c == requests[r].conversation
           p == requests[r].provider
           task == [conversation |-> c, turn |-> Len(turns[c]) + 1, provider |-> p,
                    stage |-> "opening", settled |-> FALSE, expired |-> FALSE]
       IN  /\ credentials[p]
           /\ StartTurn(c)
           /\ tasks' = IF life = "running" THEN tasks \cup {task} ELSE tasks
    /\ requests' = [requests EXCEPT ![r] = NoRequest]
    /\ UNCHANGED <<gates, credentials, life>>

WorkerCreate(c) ==
    /\ LoopFree
    /\ life = "running"
    /\ CreateConversation(c)
    /\ UNCHANGED workerVars

\* Faulty variant: only the store's own check protects an active turn.
DeleteUnchecked(c) ==
    /\ LoopFree
    /\ life = "running"
    /\ BeginDelete(c)
    /\ UNCHANGED workerVars

WorkerDelete(c) ==
    /\ LoopFree
    /\ life = "running"
    /\ ActiveTasks(c) = {}
    /\ BeginDelete(c)
    /\ UNCHANGED workerVars

-----------------------------------------------------------------------------
(* runTurn.                                                                *)

(* createAgentSession resolves.  A turn settled meanwhile aborts the       *)
(* session instead of prompting it.                                        *)
SessionOpens(t) ==
    /\ LoopFree
    /\ t.stage = "opening"
    /\ Replace(t, [t EXCEPT !.stage =
                     IF t.settled \/ life # "running" THEN "aborting" ELSE "prompting"])
    /\ UNCHANGED <<storeVars, requests, gates, credentials, life>>

\* From opening the session on, Pi may append to the transcript at any time.
PiWrites(t) ==
    /\ LoopFree
    /\ AppendTranscript(t.conversation)
    /\ UNCHANGED workerVars

\* prompt resolves without an error: the turn is complete unless already settled.
ReplyCompletes(t) ==
    /\ LoopFree
    /\ t.stage = "prompting"
    /\ Settle(t, "complete")
    /\ tasks' = tasks \ {t}
    /\ UNCHANGED <<requests, gates, credentials, life>>

\* Faulty variant: the catch block forgets to settle the turn.
ReplyFailsUnsettled(t, kind) ==
    /\ LoopFree
    /\ t.stage \in {"opening", "prompting"}
    /\ IF t.settled THEN UNCHANGED gates ELSE SetGate(t.provider, kind)
    /\ tasks' = tasks \ {t}
    /\ UNCHANGED <<storeVars, requests, credentials, life>>

(* createAgentSession or prompt rejects, or the reply carries an error.  A *)
(* settled turn only leaves activeTurns.                                   *)
ReplyFails(t, kind) ==
    /\ LoopFree
    /\ t.stage \in {"opening", "prompting"}
    /\ Settle(t, "failure")
    /\ IF t.settled THEN UNCHANGED gates ELSE SetGate(t.provider, kind)
    /\ tasks' = tasks \ {t}
    /\ UNCHANGED <<requests, credentials, life>>

\* session.abort() returns and the task leaves activeTurns.
AbortCompletes(t) ==
    /\ LoopFree
    /\ t.stage = "aborting"
    /\ tasks' = tasks \ {t}
    /\ UNCHANGED <<storeVars, requests, gates, credentials, life>>

\* Faulty variant: the timer marks the task settled but not its row.
TimesOutUnsettled(t) ==
    /\ LoopFree
    /\ ~t.expired
    /\ SetGate(t.provider, "cooldown")
    /\ Replace(t, [t EXCEPT !.settled = TRUE, !.expired = TRUE])
    /\ UNCHANGED <<storeVars, requests, credentials, life>>

(* The turn timer: abort, start the cooldown, settle as a failure and arm  *)
(* the forced exit.  The task stays until Pi has really stopped.           *)
TurnTimesOut(t) ==
    /\ LoopFree
    /\ ~t.expired
    /\ SlowAuth \/ \A r \in Request :
          requests[r] # NoRequest => requests[r].conversation # t.conversation
    /\ Settle(t, "failure")
    /\ SetGate(t.provider, "cooldown")
    /\ Replace(t, [t EXCEPT !.settled = TRUE, !.expired = TRUE])
    /\ UNCHANGED <<requests, credentials, life>>

-----------------------------------------------------------------------------
(* The end of the process, and what it loses.                              *)

LoseMemory ==
    /\ requests' = [r \in Request |-> NoRequest]
    /\ tasks' = {}
    /\ gates' = [p \in Provider |-> "open"]
    /\ life' = "running"
    /\ UNCHANGED credentials

\* Faulty variant: exits only for a turn that is not settled yet.
ForceExitUnsettled(t) ==
    /\ LoopFree
    /\ t.expired
    /\ ~t.settled
    /\ Stop
    /\ LoseMemory

\* The forced exit finds the turn still active.
ForceExit(t) ==
    /\ LoopFree
    /\ t.expired
    /\ Stop
    /\ LoseMemory

\* SIGTERM: no request is accepted any more; shutdown settles every task.
Shutdown ==
    /\ LoopFree
    /\ life = "running"
    /\ life' = "settling"
    /\ UNCHANGED <<storeVars, requests, tasks, gates, credentials>>

ShutdownSettles(t) ==
    /\ life = "settling"
    /\ ~t.settled
    /\ Settle(t, "interrupted")
    /\ Replace(t, [t EXCEPT !.settled = TRUE])
    /\ UNCHANGED <<requests, gates, credentials, life>>

ShutdownWaits ==
    /\ life = "settling"
    /\ \A t \in tasks : t.settled
    /\ life' = "draining"
    /\ UNCHANGED <<storeVars, requests, tasks, gates, credentials>>

\* All tasks have ended and the store is closed, or the deadline passes.
ShutdownEnds ==
    /\ life = "draining"
    /\ Stop
    /\ LoseMemory

\* A crash, and a failure that ends the process inside the constructor.
WorkerCrash == Crash /\ LoseMemory

StoreProceeds ==
    /\ \/ Open \/ InterruptRunningTurns \/ DeleteStep \/ StepFails
       \/ \E c \in Conversation : RecoverDeletion(c)
    /\ UNCHANGED workerVars

-----------------------------------------------------------------------------
(* Outside the program: time ends a cooldown, and the operator's logins    *)
(* and expiring tokens change what the credential check answers.           *)

CooldownEnds(p) ==
    /\ gates[p] = "cooldown"
    /\ gates' = [gates EXCEPT ![p] = "open"]
    /\ UNCHANGED <<storeVars, requests, tasks, credentials, life>>

CredentialsChange(p) ==
    /\ credentials' = [credentials EXCEPT ![p] = ~@]
    /\ UNCHANGED <<storeVars, requests, tasks, gates, life>>

WorkerNext ==
    \/ StoreProceeds
    \/ WorkerCrash
    \/ Shutdown \/ ShutdownWaits \/ ShutdownEnds
    \/ \E c \in Conversation : WorkerCreate(c) \/ WorkerDelete(c)
    \/ \E r \in Request :
          \/ \E c \in Conversation, p \in Provider : SubmitTurn(r, c, p)
          \/ SubmitRefused(r) \/ SubmitRejected(r) \/ TurnStarts(r)
    \/ \E t \in tasks :
          \/ SessionOpens(t) \/ PiWrites(t) \/ ReplyCompletes(t) \/ AbortCompletes(t)
          \/ TurnTimesOut(t) \/ ForceExit(t) \/ ShutdownSettles(t)
          \/ \E kind \in FailureKind : ReplyFails(t, kind)
    \/ \E p \in Provider : CooldownEnds(p) \/ CredentialsChange(p)

WorkerSpec == WorkerInit /\ [][WorkerNext]_vars

\* The turn with index i of conversation c takes the step A.
ForTask(c, i, A(_)) ==
    \E t \in tasks : t.conversation = c /\ t.turn = i /\ A(t)

(* The container restarts the worker, the constructor and a synchronous    *)
(* deletion run to their end, timers fire, and the credential check        *)
(* returns.  Pi is trusted with nothing: sessions need not open, replies   *)
(* need not end, and aborting need not return.                             *)
WorkerFairness ==
    /\ WF_vars(Open /\ UNCHANGED workerVars)
    /\ WF_vars(InterruptRunningTurns /\ UNCHANGED workerVars)
    /\ WF_vars(DeleteStep /\ UNCHANGED workerVars)
    /\ WF_vars(\E c \in Conversation : RecoverDeletion(c) /\ UNCHANGED workerVars)
    /\ WF_vars(ShutdownWaits) /\ WF_vars(ShutdownEnds)
    /\ WF_vars(\E t \in tasks : ShutdownSettles(t))
    /\ \A r \in Request : WF_vars(SubmitRefused(r) \/ SubmitRejected(r) \/ TurnStarts(r))
    /\ \A c \in Conversation, i \in 1..MaxTurns :
          /\ WF_vars(ForTask(c, i, TurnTimesOut))
          /\ WF_vars(ForTask(c, i, ForceExit))

FairWorkerSpec == WorkerSpec /\ WorkerFairness

-----------------------------------------------------------------------------
(* Properties.                                                             *)

(* Two Pi sessions never hold the same transcript: a conversation has at   *)
(* most one task, however long the task outlives its turn.                 *)
OneWriter ==
    \A t, u \in tasks : t.conversation = u.conversation => t = u

(* The rows and the tasks agree.  A turn is running in the database        *)
(* exactly while a task still has to settle it, so no conversation of a    *)
(* serving worker is blocked by a turn nobody will finish.  (A turn that   *)
(* starts while the worker is stopping is left for the next start.)        *)
RunningTurnsHaveTasks ==
    /\ \A t \in tasks : ~t.settled => Running(t)
    /\ mode = "serving" /\ life = "running" =>
          \A c \in Conversation, i \in 1..MaxTurns :
              IsRunning(c, i) => \E t \in ActiveTasks(c) : t.turn = i /\ ~t.settled

(* A session never outlives its conversation: nothing with a task is       *)
(* deleted, not even when its turn is already settled.                     *)
ActiveConversationsAreKept ==
    \A t \in tasks : rows[t.conversation] = "present" /\ t.conversation \notin deletions

\* Every step of the worker is a step the store allows.
ImplementsStore == StoreSpec

(* Every running turn ends: its reply does, its timer fires, or a restart  *)
(* interrupts it.                                                          *)
EveryTurnEnds ==
    \A c \in Conversation : ~IsIdle(turns[c]) ~> IsIdle(turns[c])

(* A conversation is not locked for ever, even by a Pi session that        *)
(* ignores its abort.                                                      *)
EveryTaskEnds ==
    \A c \in Conversation : ActiveTasks(c) # {} ~> ActiveTasks(c) = {}

(* contract-notes.md: after an authentication failure new turns are        *)
(* refused until the operator logs in and restarts the worker.             *)
AuthenticationGateHolds ==
    [][\A p \in Provider : gates[p] = "authentication" =>
          gates'[p] = "authentication" \/ mode' = "down"]_vars
-----------------------------------------------------------------------------
(* The inductive invariant behind the safety properties.                   *)

(* Tasks live in a serving process; activeTurns is keyed by the turn, and  *)
(* the turn of every task is one of its conversation's.  shutdown settles  *)
(* the tasks without giving up the event loop, and only a settled or a     *)
(* stopping turn is aborted instead of prompted.                           *)
TasksInv ==
    /\ tasks # {} => mode = "serving"
    /\ life = "settling" => Quiet
    /\ life = "running" => \A t \in tasks : t.stage = "aborting" => t.settled
    /\ \A t \in tasks : t.turn \in DOMAIN turns[t.conversation]
    /\ \A t, u \in tasks : t.conversation = u.conversation /\ t.turn = u.turn => t = u

WorkerInv ==
    /\ StoreInv
    /\ WorkerTypeOK
    /\ TasksInv
    /\ RunningTurnsHaveTasks
    /\ ActiveConversationsAreKept

(* While a submission's credential check is pending, a task of the same    *)
(* conversation is one whose turn still runs, so the unique index refuses  *)
(* the submission.  A timer that fires in between would break this.        *)
PendingMeetsRunning ==
    life = "running" =>
        \A r \in Request, t \in tasks :
            requests[r] # NoRequest /\ requests[r].conversation = t.conversation => ~t.settled

SoleWriterInv == OneWriter /\ PendingMeetsRunning
=============================================================================
