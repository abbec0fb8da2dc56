------------------------ MODULE AssistantWorkerProofs ------------------------
(***************************************************************************)
(* AssistantWorker, for every number of conversations, turns, requests,    *)
(* providers and faults: the worker only does what the store allows, so    *)
(* everything proved of the store holds in the worker; rows and tasks      *)
(* agree; and, if a credential check never outlasts a turn's timeout, a    *)
(* conversation has one writer.                                            *)
(***************************************************************************)
EXTENDS AssistantWorker, ConversationStoreProofs

-----------------------------------------------------------------------------
(* What the worker's steps do to the store.                                *)

\* A task's conversation and turn are what the store calls them.
LEMMA TaskFields ==
  ASSUME WorkerInv, NEW t \in tasks
  PROVE  /\ t \in Task
         /\ t.conversation \in Conversation
         /\ t.turn \in 1..MaxTurns
         /\ t.provider \in Provider
         /\ rows[t.conversation] = "present"
         /\ t.conversation \notin deletions
         /\ mode = "serving"
  BY DEF WorkerInv, WorkerTypeOK, Task, ActiveConversationsAreKept, TasksInv

\* A pending submission names a conversation and a provider.
LEMMA PendingFields ==
  ASSUME WorkerInv, NEW r \in Request, requests[r] # NoRequest
  PROVE  /\ requests[r].conversation \in Conversation
         /\ requests[r].provider \in Provider
  BY DEF WorkerInv, WorkerTypeOK, Submission

\* Settling a task is a finishTurn, or nothing at all.
LEMMA SettleIsStoreStep ==
  ASSUME WorkerInv, NEW t \in tasks, NEW outcome \in Outcome, Settle(t, outcome)
  PROVE  [StoreNext]_storeVars
<1>1. CASE ~t.settled /\ Running(t)
  BY <1>1, TaskFields DEF Settle, StoreNext
<1>2. CASE ~(~t.settled /\ Running(t))
  BY <1>2 DEF Settle
<1> QED
  BY <1>1, <1>2

\* Pi writes only transcripts that the store keeps.
LEMMA PiWritesIsStoreStep ==
  ASSUME WorkerInv, NEW t \in tasks, PiWrites(t)
  PROVE  [StoreNext]_storeVars
  BY TaskFields DEF PiWrites, LoopFree, WriteTranscript, StoreNext

(* Every step of the worker is a step of the store or leaves it alone.     *)
LEMMA WorkerStepIsStoreStep ==
  ASSUME WorkerInv, [WorkerNext]_vars
  PROVE  [StoreNext]_storeVars
<1>1. CASE UNCHANGED vars
  BY <1>1 DEF vars
<1>2. CASE StoreProceeds \/ WorkerCrash
  BY <1>2 DEF StoreProceeds, WorkerCrash, StoreNext
<1>3. CASE Shutdown \/ ShutdownWaits \/ ShutdownEnds
  BY <1>3 DEF Shutdown, ShutdownWaits, ShutdownEnds, StoreNext
<1>4. ASSUME NEW c \in Conversation, WorkerCreate(c) \/ WorkerDelete(c)
      PROVE  [StoreNext]_storeVars
  BY <1>4 DEF WorkerCreate, WorkerDelete, StoreNext
<1>5. ASSUME NEW r \in Request, NEW c \in Conversation, NEW p \in Provider, SubmitTurn(r, c, p)
      PROVE  [StoreNext]_storeVars
  BY <1>5 DEF SubmitTurn
<1>6. ASSUME NEW r \in Request, SubmitRefused(r) \/ SubmitRejected(r)
      PROVE  [StoreNext]_storeVars
  BY <1>6 DEF SubmitRefused, SubmitRejected
<1>7. ASSUME NEW r \in Request, TurnStarts(r)
      PROVE  [StoreNext]_storeVars
  <2>1. requests[r].conversation \in Conversation
    BY <1>7, PendingFields DEF TurnStarts
  <2>2. StartTurn(requests[r].conversation)
    BY <1>7 DEF TurnStarts
  <2> QED
    BY <2>1, <2>2 DEF StoreNext
<1>8. ASSUME NEW t \in tasks,
             \/ ReplyCompletes(t) \/ TurnTimesOut(t) \/ ShutdownSettles(t)
             \/ \E kind \in FailureKind : ReplyFails(t, kind)
      PROVE  [StoreNext]_storeVars
  <2>1. \E outcome \in Outcome : Settle(t, outcome)
    BY <1>8 DEF ReplyCompletes, TurnTimesOut, ShutdownSettles, ReplyFails, Outcome
  <2> QED
    BY <2>1, SettleIsStoreStep
<1>9. ASSUME NEW t \in tasks, SessionOpens(t) \/ AbortCompletes(t) \/ ForceExit(t)
      PROVE  [StoreNext]_storeVars
  BY <1>9 DEF SessionOpens, AbortCompletes, ForceExit, StoreNext
<1>10. ASSUME NEW t \in tasks, PiWrites(t)
       PROVE  [StoreNext]_storeVars
  BY <1>10, PiWritesIsStoreStep
<1>11. ASSUME NEW p \in Provider, CooldownEnds(p) \/ CredentialsChange(p)
       PROVE  [StoreNext]_storeVars
  BY <1>11 DEF CooldownEnds, CredentialsChange
<1> QED
  BY <1>1, <1>2, <1>3, <1>4, <1>5, <1>6, <1>7, <1>8, <1>9, <1>10, <1>11 DEF WorkerNext

-----------------------------------------------------------------------------
(* The inductive invariant, group by group of actions.                     *)

\* The initial state has no tasks and a process that is down.
LEMMA InitWorkerInv == WorkerInit => WorkerInv
<1> SUFFICES ASSUME WorkerInit PROVE WorkerInv
  OBVIOUS
<1>1. StoreInv
  BY InitStoreInv DEF WorkerInit
<1>2. WorkerTypeOK
  BY <1>1 DEF WorkerInit, WorkerTypeOK, StoreInv, Gate
<1>3. TasksInv /\ RunningTurnsHaveTasks /\ ActiveConversationsAreKept
  BY DEF WorkerInit, StoreInit, TasksInv, RunningTurnsHaveTasks, ActiveConversationsAreKept
<1> QED
  BY <1>1, <1>2, <1>3 DEF WorkerInv

\* The end of a process loses every task; what is left of the store is sound.
LEMMA ProcessEnds ==
  ASSUME WorkerInv, StoreInv', LoseMemory, mode' = "down"
  PROVE  WorkerInv'
<1>1. WorkerTypeOK'
  BY DEF WorkerInv, WorkerTypeOK, StoreInv, LoseMemory, Gate
<1>2. TasksInv' /\ RunningTurnsHaveTasks' /\ ActiveConversationsAreKept'
  BY DEF LoseMemory, TasksInv, RunningTurnsHaveTasks, ActiveConversationsAreKept
<1> QED
  BY <1>1, <1>2 DEF WorkerInv

(* A step that leaves rows, turns, tasks and the process alone, and does   *)
(* not come back from a shutdown, disturbs nothing.                        *)
LEMMA TasksUntouched ==
  ASSUME WorkerInv, StoreInv', WorkerTypeOK',
         UNCHANGED <<rows, turns, deletions, mode, tasks>>,
         life' = "running" => life = "running", life' = "settling" => Quiet'
  PROVE  WorkerInv'
<1>1. TasksInv'
  BY DEF WorkerInv, TasksInv
<1>2. RunningTurnsHaveTasks' /\ ActiveConversationsAreKept'
  BY DEF WorkerInv, RunningTurnsHaveTasks, ActiveConversationsAreKept, IsRunning, Running, ActiveTasks
<1> QED
  BY <1>1, <1>2 DEF WorkerInv

\* Submissions up to the credential check's answer, gates and signals.
LEMMA RequestSteps ==
  ASSUME WorkerInv, StoreInv',
         \/ \E r \in Request, c \in Conversation, p \in Provider : SubmitTurn(r, c, p)
         \/ \E r \in Request : SubmitRefused(r) \/ SubmitRejected(r)
         \/ \E p \in Provider : CooldownEnds(p) \/ CredentialsChange(p)
         \/ Shutdown \/ ShutdownWaits
  PROVE  WorkerInv'
<1>1. UNCHANGED storeVars /\ UNCHANGED tasks
  BY DEF SubmitTurn, SubmitRefused, SubmitRejected, CooldownEnds, CredentialsChange, Shutdown, ShutdownWaits
<1>2. /\ life' = "running" => life = "running"
      /\ life' = "settling" => Quiet
      /\ life' \in {"running", "settling", "draining"}
  BY DEF SubmitTurn, SubmitRefused, SubmitRejected, CooldownEnds, CredentialsChange, Shutdown,
         ShutdownWaits, LoopFree, WorkerInv, WorkerTypeOK, TasksInv
<1>3. requests' \in [Request -> Submission \cup {NoRequest}]
  BY DEF SubmitTurn, SubmitRefused, SubmitRejected, CooldownEnds, CredentialsChange, Shutdown,
         ShutdownWaits, WorkerInv, WorkerTypeOK, Submission
<1>4. gates' \in [Provider -> Gate] /\ credentials' \in [Provider -> BOOLEAN]
  BY DEF SubmitTurn, SubmitRefused, SubmitRejected, CooldownEnds, CredentialsChange, Shutdown,
         ShutdownWaits, WorkerInv, WorkerTypeOK, Gate, SetGate
<1>5. WorkerTypeOK'
  BY <1>1, <1>2, <1>3, <1>4 DEF WorkerInv, WorkerTypeOK, StoreInv
<1> QED
  BY <1>1, <1>2, <1>5, TasksUntouched DEF storeVars, Quiet

\* The store's own steps: the constructor, a deletion, a failure in either.
LEMMA StoreProceedsStep ==
  ASSUME WorkerInv, StoreInv', StoreProceeds
  PROVE  WorkerInv'
<1>1. WorkerTypeOK'
  BY DEF StoreProceeds, workerVars, WorkerInv, WorkerTypeOK, StoreInv
<1>2. life # "settling" /\ UNCHANGED workerVars
  BY DEF StoreProceeds, Open, InterruptRunningTurns, DeleteStep, MoveTranscript, AbandonDelete,
         DeleteRow, RemoveTrash, RemoveTranscript, ForgetDeletion, StepFails, RecoverDeletion,
         WorkerInv, TasksInv, Quiet
<1>3. CASE InterruptRunningTurns
  <2>1. tasks = {} /\ mode = "recovering"
    BY <1>3 DEF InterruptRunningTurns, WorkerInv, TasksInv
  <2>2. \A c \in Conversation, i \in 1..MaxTurns : ~IsRunning(c, i)'
    BY <1>3 DEF InterruptRunningTurns, Interrupted, IsRunning
  <2> QED
    BY <1>1, <1>2, <1>3, <2>1, <2>2
       DEF WorkerInv, TasksInv, RunningTurnsHaveTasks, ActiveConversationsAreKept, workerVars
<1>4. CASE Open \/ \E c \in Conversation : RecoverDeletion(c)
  <2>1. tasks = {} /\ mode' = "recovering"
    BY <1>4 DEF Open, RecoverDeletion, WorkerInv, TasksInv
  <2> QED
    BY <1>1, <1>2, <2>1
       DEF WorkerInv, TasksInv, RunningTurnsHaveTasks, ActiveConversationsAreKept, workerVars
<1>5. CASE DeleteStep \/ StepFails
  <2>1. target \in deletions /\ mode' \in {mode, "down"} /\ (mode' = "down" => mode # "serving")
    BY <1>5 DEF DeleteStep, MoveTranscript, AbandonDelete, DeleteRow, RemoveTrash, RemoveTranscript,
                ForgetDeletion, StepFails, GiveUp, WorkerInv, StoreInv, StoreTypeOK, ControlInv
  <2>0. /\ deletions' \subseteq deletions
        /\ rows' = rows \/ rows' = [rows EXCEPT ![target] = "deleted"]
        /\ turns' = turns \/ turns' = [turns EXCEPT ![target] = <<>>]
    BY <1>5 DEF DeleteStep, MoveTranscript, AbandonDelete, DeleteRow, RemoveTrash, RemoveTranscript,
                ForgetDeletion, StepFails, tables
  <2>2. \A c \in Conversation : c \notin deletions =>
            c \notin deletions' /\ rows'[c] = rows[c] /\ turns'[c] = turns[c]
    BY <2>0, <2>1 DEF WorkerInv, StoreInv, StoreTypeOK
  <2>3. \A c \in Conversation : turns'[c] = turns[c] \/ turns'[c] = <<>>
    BY <2>0 DEF WorkerInv, StoreInv, StoreTypeOK
  <2>4. \A t \in tasks : /\ t.conversation \in Conversation
                         /\ t.conversation \notin deletions
                         /\ rows[t.conversation] = "present"
    BY TaskFields
  <2>5. TasksInv'
    BY <1>2, <2>1, <2>2, <2>4 DEF WorkerInv, TasksInv, workerVars
  <2>6. ActiveConversationsAreKept'
    BY <1>2, <2>2, <2>4 DEF ActiveConversationsAreKept, workerVars
  <2>7. \A t \in tasks : ~t.settled => Running(t)'
    BY <2>2, <2>4 DEF WorkerInv, RunningTurnsHaveTasks, Running, IsRunning
  <2>8. \A c \in Conversation, i \in 1..MaxTurns : IsRunning(c, i)' => IsRunning(c, i)
    BY <2>3 DEF IsRunning
  <2>9. RunningTurnsHaveTasks'
    BY <1>2, <2>1, <2>7, <2>8 DEF WorkerInv, RunningTurnsHaveTasks, ActiveTasks, workerVars
  <2> QED
    BY <1>1, <2>5, <2>6, <2>9 DEF WorkerInv
<1> QED
  BY <1>3, <1>4, <1>5 DEF StoreProceeds

\* Creating and deleting conversations that no task holds.
LEMMA ConversationSteps ==
  ASSUME WorkerInv, StoreInv', NEW c \in Conversation, WorkerCreate(c) \/ WorkerDelete(c)
  PROVE  WorkerInv'
<1>1. WorkerTypeOK' /\ UNCHANGED <<turns, mode, tasks, life>> /\ life = "running"
  BY DEF WorkerCreate, WorkerDelete, CreateConversation, BeginDelete, process, workerVars,
         WorkerInv, WorkerTypeOK, StoreInv
<1>2. \A t \in tasks : rows'[t.conversation] = "present" /\ t.conversation \notin deletions'
  <2> TAKE t \in tasks
  <2>1. /\ t.conversation \in Conversation
        /\ rows[t.conversation] = "present"
        /\ t.conversation \notin deletions
    BY TaskFields
  <2>2. CASE WorkerCreate(c)
    BY <2>1, <2>2 DEF WorkerCreate, CreateConversation, WorkerInv, StoreInv, StoreTypeOK
  <2>3. CASE WorkerDelete(c)
    BY <2>1, <2>3 DEF WorkerDelete, BeginDelete, ActiveTasks
  <2> QED
    BY <2>2, <2>3
<1>3. TasksInv'
  BY <1>1 DEF WorkerInv, TasksInv
<1>4. RunningTurnsHaveTasks'
  BY <1>1 DEF WorkerInv, RunningTurnsHaveTasks, Running, IsRunning, ActiveTasks
<1>5. ActiveConversationsAreKept'
  BY <1>1, <1>2 DEF ActiveConversationsAreKept
<1> QED
  BY <1>1, <1>3, <1>4, <1>5 DEF WorkerInv

(* Settling a task moves no row, keeps every turn, and ends this task's    *)
(* turn and no other.                                                      *)
LEMMA SettleEffect ==
  ASSUME WorkerInv, NEW t \in tasks, NEW outcome \in Outcome, Settle(t, outcome)
  PROVE  /\ UNCHANGED <<rows, deletions, mode, step>>
         /\ \A c \in Conversation : DOMAIN turns'[c] = DOMAIN turns[c]
         /\ \A c \in Conversation, i \in 1..MaxTurns : IsRunning(c, i)' => IsRunning(c, i)
         /\ \A u \in tasks : u # t /\ Running(u) => Running(u)'
         /\ ~t.settled => ~Running(t)'
<1>1. CASE ~t.settled /\ Running(t)
  <2> DEFINE d == t.conversation
             i == t.turn
  <2>1. d \in Conversation /\ i \in DOMAIN turns[d]
    BY <1>1, TaskFields DEF Running, IsRunning
  <2>2. turns' = [turns EXCEPT ![d][i] = outcome] /\ UNCHANGED <<rows, deletions, mode, step>>
    BY <1>1 DEF Settle, FinishTurn, process
  <2>3. \A c \in Conversation :
           turns'[c] = IF c = d THEN [turns[d] EXCEPT ![i] = outcome] ELSE turns[c]
    BY <2>1, <2>2 DEF WorkerInv, StoreInv, StoreTypeOK
  <2> HIDE DEF d, i
  <2>4. \A c \in Conversation : DOMAIN turns'[c] = DOMAIN turns[c]
    BY <2>3
  <2>5. \A c \in Conversation : \A j \in DOMAIN turns[c] :
           turns'[c][j] = IF c = d /\ j = i THEN outcome ELSE turns[c][j]
    BY <2>1, <2>3
  <2>6. outcome # "running"
    BY DEF Outcome
  <2>7. \A c \in Conversation, j \in 1..MaxTurns :
           IsRunning(c, j)' <=> IsRunning(c, j) /\ ~(c = d /\ j = i)
    BY <2>4, <2>5, <2>6 DEF IsRunning
  <2>8. \A u \in tasks : u.conversation \in Conversation /\ u.turn \in 1..MaxTurns
    BY TaskFields
  <2>9. \A u \in tasks : u.conversation = d /\ u.turn = i => u = t
    BY DEF WorkerInv, TasksInv, d, i
  <2>10. \A u \in tasks : u # t /\ Running(u) => Running(u)'
    BY <2>7, <2>8, <2>9 DEF Running
  <2>11. ~Running(t)'
    BY <2>7, <2>8 DEF Running, d, i
  <2> QED
    BY <2>2, <2>4, <2>7, <2>10, <2>11
<1>2. CASE ~(~t.settled /\ Running(t))
  BY <1>2 DEF Settle, storeVars, WorkerInv, RunningTurnsHaveTasks, IsRunning, Running
<1> QED
  BY <1>1, <1>2

(* Whatever settles a task either drops it or leaves it marked settled;    *)
(* no other task notices.                                                  *)
LEMMA SettledStep ==
  ASSUME WorkerInv, StoreInv', WorkerTypeOK', UNCHANGED life,
         NEW t \in tasks, NEW outcome \in Outcome, Settle(t, outcome),
         \/ tasks' = tasks \ {t}
         \/ \E u \in Task : /\ Replace(t, u)
                            /\ u.conversation = t.conversation
                            /\ u.turn = t.turn
                            /\ u.settled
  PROVE  WorkerInv'
<1>1. /\ UNCHANGED <<rows, deletions, mode, step>>
      /\ \A c \in Conversation : DOMAIN turns'[c] = DOMAIN turns[c]
      /\ \A c \in Conversation, i \in 1..MaxTurns : IsRunning(c, i)' => IsRunning(c, i)
      /\ \A u \in tasks : u # t /\ Running(u) => Running(u)'
      /\ ~t.settled => ~Running(t)'
  BY SettleEffect
<1>2. \A v \in tasks' : \/ v \in tasks /\ v # t
                        \/ v.conversation = t.conversation /\ v.turn = t.turn /\ v.settled
  BY DEF Replace
<1>3. \A v, w \in tasks' : v.conversation = w.conversation /\ v.turn = w.turn => v = w
  BY DEF Replace, WorkerInv, TasksInv
<1>4. \A v \in tasks' : v.conversation \in Conversation /\ v.turn \in DOMAIN turns'[v.conversation]
  BY <1>1, <1>2, TaskFields DEF WorkerInv, TasksInv
<1>5. TasksInv'
  <2>1. mode = "serving" /\ (life = "settling" => Quiet')
    BY <1>1, TaskFields DEF WorkerInv, TasksInv, Quiet
  <2>2. life = "running" => \A v \in tasks' : v.stage = "aborting" => v.settled
    BY <1>2 DEF WorkerInv, TasksInv
  <2> QED
    BY <1>1, <1>3, <1>4, <2>1, <2>2 DEF TasksInv
<1>6. \A v \in tasks' : ~v.settled => Running(v)'
  BY <1>1, <1>2 DEF WorkerInv, RunningTurnsHaveTasks
<1>7. \A u \in tasks : u # t => u \in tasks'
  BY DEF Replace
<1>8. ASSUME mode' = "serving", life' = "running",
             NEW c \in Conversation, NEW i \in 1..MaxTurns, IsRunning(c, i)'
      PROVE  \E v \in ActiveTasks(c)' : v.turn = i /\ ~v.settled
  <2>1. PICK v \in ActiveTasks(c) : v.turn = i /\ ~v.settled
    BY <1>1, <1>8 DEF WorkerInv, RunningTurnsHaveTasks
  <2>2. v # t
    BY <1>1, <1>8, <2>1 DEF ActiveTasks, Running
  <2> QED
    BY <1>7, <2>1, <2>2 DEF ActiveTasks
<1>9. RunningTurnsHaveTasks'
  BY <1>6, <1>8 DEF RunningTurnsHaveTasks
<1>10. ActiveConversationsAreKept'
  BY <1>1, <1>2 DEF WorkerInv, ActiveConversationsAreKept
<1> QED
  BY <1>5, <1>9, <1>10 DEF WorkerInv

\* A reply ends or fails, the timer fires, or the shutdown settles a task.
LEMMA SettleSteps ==
  ASSUME WorkerInv, StoreInv', NEW t \in tasks,
         \/ ReplyCompletes(t) \/ TurnTimesOut(t) \/ ShutdownSettles(t)
         \/ \E kind \in FailureKind : ReplyFails(t, kind)
  PROVE  WorkerInv'
<1>1. PICK outcome \in Outcome : Settle(t, outcome)
  BY DEF ReplyCompletes, TurnTimesOut, ShutdownSettles, ReplyFails, Outcome
<1>2. t \in Task
  BY TaskFields
<1>3. /\ UNCHANGED <<requests, credentials, life>>
      /\ \/ tasks' = tasks \ {t}
         \/ Replace(t, [t EXCEPT !.settled = TRUE, !.expired = TRUE])
         \/ Replace(t, [t EXCEPT !.settled = TRUE])
  BY DEF ReplyCompletes, TurnTimesOut, ShutdownSettles, ReplyFails
<1>4. \/ tasks' = tasks \ {t}
      \/ \E u \in Task : /\ Replace(t, u)
                         /\ u.conversation = t.conversation
                         /\ u.turn = t.turn
                         /\ u.settled
  <2> DEFINE late == [t EXCEPT !.settled = TRUE, !.expired = TRUE]
             stopped == [t EXCEPT !.settled = TRUE]
  <2>1. /\ late \in Task
        /\ late.conversation = t.conversation
        /\ late.turn = t.turn
        /\ late.settled
    BY <1>2 DEF Task
  <2>2. /\ stopped \in Task
        /\ stopped.conversation = t.conversation
        /\ stopped.turn = t.turn
        /\ stopped.settled
    BY <1>2 DEF Task
  <2>3. tasks' = tasks \ {t} \/ Replace(t, late) \/ Replace(t, stopped)
    BY <1>3
  <2> HIDE DEF late, stopped
  <2> QED
    BY <2>1, <2>2, <2>3
<1>5. tasks' \subseteq Task
  BY <1>4 DEF Replace, WorkerInv, WorkerTypeOK
<1>6. gates' \in [Provider -> Gate]
  BY DEF ReplyCompletes, TurnTimesOut, ShutdownSettles, ReplyFails, SetGate, FailureKind, Gate,
         WorkerInv, WorkerTypeOK
<1>7. WorkerTypeOK'
  BY <1>3, <1>5, <1>6 DEF WorkerInv, WorkerTypeOK, StoreInv
<1> QED
  BY <1>1, <1>3, <1>4, <1>7, SettledStep

\* A session opens or its abort returns: the turn was or will be settled.
LEMMA SessionSteps ==
  ASSUME WorkerInv, StoreInv', NEW t \in tasks, SessionOpens(t) \/ AbortCompletes(t)
  PROVE  WorkerInv'
<1>1. UNCHANGED <<storeVars, requests, gates, credentials, life>> /\ t \in Task
  BY TaskFields DEF SessionOpens, AbortCompletes
<1>2. \/ tasks' = tasks \ {t} /\ (life = "running" => t.settled)
      \/ \E u \in Task : /\ Replace(t, u)
                         /\ u.conversation = t.conversation
                         /\ u.turn = t.turn
                         /\ u.settled = t.settled
                         /\ life = "running" /\ u.stage = "aborting" => u.settled
  <2>1. CASE SessionOpens(t)
    BY <1>1, <2>1 DEF SessionOpens, Task
  <2>2. CASE AbortCompletes(t)
    BY <2>2 DEF AbortCompletes, WorkerInv, TasksInv
  <2> QED
    BY <2>1, <2>2
<1>3. tasks' \subseteq Task
  BY <1>2 DEF Replace, WorkerInv, WorkerTypeOK
<1>4. WorkerTypeOK'
  BY <1>1, <1>3 DEF WorkerInv, WorkerTypeOK, StoreInv
<1>5. \A v \in tasks' : \E w \in tasks : /\ v.conversation = w.conversation
                                         /\ v.turn = w.turn
                                         /\ v.settled = w.settled
  BY <1>2 DEF Replace
<1>6. life = "running" => \A w \in tasks : ~w.settled =>
         \E v \in tasks' : /\ v.conversation = w.conversation
                           /\ v.turn = w.turn
                           /\ v.settled = w.settled
  BY <1>2 DEF Replace
<1>7. TasksInv'
  <2>1. \A v, w \in tasks' : v.conversation = w.conversation /\ v.turn = w.turn => v = w
    BY <1>2 DEF Replace, WorkerInv, TasksInv
  <2>2. life = "running" => \A v \in tasks' : v.stage = "aborting" => v.settled
    BY <1>2 DEF Replace, WorkerInv, TasksInv
  <2> QED
    BY <1>1, <1>5, <2>1, <2>2 DEF storeVars, WorkerInv, TasksInv, Quiet
<1>8. \A v \in tasks' : ~v.settled => Running(v)'
  BY <1>1, <1>5 DEF storeVars, WorkerInv, RunningTurnsHaveTasks, Running, IsRunning
<1>9. ASSUME mode' = "serving", life' = "running",
             NEW c \in Conversation, NEW i \in 1..MaxTurns, IsRunning(c, i)'
      PROVE  \E v \in ActiveTasks(c)' : v.turn = i /\ ~v.settled
  <2>1. PICK w \in ActiveTasks(c) : w.turn = i /\ ~w.settled
    BY <1>1, <1>9 DEF storeVars, WorkerInv, RunningTurnsHaveTasks, IsRunning
  <2> QED
    BY <1>1, <1>6, <1>9, <2>1 DEF ActiveTasks
<1>10. RunningTurnsHaveTasks'
  BY <1>8, <1>9 DEF RunningTurnsHaveTasks
<1>11. ActiveConversationsAreKept'
  BY <1>1, <1>5 DEF storeVars, WorkerInv, ActiveConversationsAreKept
<1> QED
  BY <1>4, <1>7, <1>10, <1>11 DEF WorkerInv

\* Pi appends: no row and no task moves.
LEMMA PiWritesStep ==
  ASSUME WorkerInv, StoreInv', NEW t \in tasks, PiWrites(t)
  PROVE  WorkerInv'
<1>1. UNCHANGED <<rows, turns, deletions, mode, step, requests, tasks, gates, credentials, life>>
  BY DEF PiWrites, AppendTranscript, tables, process, workerVars
<1>2. WorkerTypeOK'
  BY <1>1 DEF WorkerInv, WorkerTypeOK, StoreInv
<1> QED
  BY <1>1, <1>2, TasksUntouched DEF WorkerInv, TasksInv, Quiet

(* A turn starts: its number is new in the conversation, and a worker that *)
(* is not stopping registers the task that will settle it.                 *)
LEMMA TurnStartsStep ==
  ASSUME WorkerInv, StoreInv', NEW r \in Request, TurnStarts(r)
  PROVE  WorkerInv'
<1> DEFINE d == requests[r].conversation
           n == Len(turns[d]) + 1
           task == [conversation |-> d, turn |-> n, provider |-> requests[r].provider,
                    stage |-> "opening", settled |-> FALSE, expired |-> FALSE]
<1>1. /\ d \in Conversation
      /\ requests[r].provider \in Provider
      /\ turns[d] \in Seq(TurnStatus)
  BY PendingFields DEF TurnStarts, WorkerInv, StoreInv, StoreTypeOK
<1>2. /\ UNCHANGED <<rows, deletions, mode, step, gates, credentials, life>>
      /\ turns' = [turns EXCEPT ![d] = Append(turns[d], "running")]
      /\ rows[d] = "present" /\ d \notin deletions
      /\ Len(turns[d]) < MaxTurns
      /\ mode = "serving" /\ life # "settling"
      /\ tasks' = IF life = "running" THEN tasks \cup {task} ELSE tasks
      /\ requests' = [requests EXCEPT ![r] = NoRequest]
  BY DEF TurnStarts, StartTurn, CanStartTurn, LoopFree, Quiet, process
<1>3. n \in 1..MaxTurns /\ n \notin DOMAIN turns[d] /\ task \in Task
  BY <1>1, <1>2, BoundsAssumption DEF Task
<1>4. \A c \in Conversation :
         turns'[c] = IF c = d THEN Append(turns[d], "running") ELSE turns[c]
  BY <1>1, <1>2 DEF WorkerInv, StoreInv, StoreTypeOK
<1>5. /\ DOMAIN Append(turns[d], "running") = DOMAIN turns[d] \cup {n}
      /\ \A i \in DOMAIN turns[d] : Append(turns[d], "running")[i] = turns[d][i]
      /\ Append(turns[d], "running")[n] = "running"
  BY <1>1
<1>6. \A c \in Conversation, i \in 1..MaxTurns :
         IsRunning(c, i)' <=> IsRunning(c, i) \/ (c = d /\ i = n)
  BY <1>3, <1>4, <1>5 DEF IsRunning
<1>7. \A t \in tasks : /\ t.conversation \in Conversation
                       /\ t.turn \in 1..MaxTurns
                       /\ t.turn \in DOMAIN turns[t.conversation]
                       /\ t.turn \in DOMAIN turns'[t.conversation]
  BY <1>4, <1>5, TaskFields DEF WorkerInv, TasksInv
<1>8. /\ task.conversation = d /\ task.turn = n /\ ~task.settled /\ task.stage = "opening"
      /\ n \in DOMAIN turns'[d]
  BY <1>1, <1>4, <1>5
<1> HIDE DEF task, n, d
<1>9. WorkerTypeOK'
  BY <1>2, <1>3 DEF WorkerInv, WorkerTypeOK, StoreInv
<1>10. TasksInv'
  BY <1>2, <1>3, <1>7, <1>8 DEF WorkerInv, TasksInv
<1>11. \A t \in tasks' : ~t.settled => Running(t)'
  BY <1>1, <1>2, <1>3, <1>6, <1>7, <1>8 DEF WorkerInv, RunningTurnsHaveTasks, Running
<1>12. ASSUME mode' = "serving", life' = "running",
              NEW c \in Conversation, NEW i \in 1..MaxTurns, IsRunning(c, i)'
       PROVE  \E v \in ActiveTasks(c)' : v.turn = i /\ ~v.settled
  <2>1. CASE IsRunning(c, i)
    BY <1>2, <1>12, <2>1 DEF WorkerInv, RunningTurnsHaveTasks, ActiveTasks
  <2>2. CASE c = d /\ i = n
    BY <1>2, <1>8, <1>12, <2>2 DEF ActiveTasks
  <2> QED
    BY <1>6, <1>12, <2>1, <2>2
<1>13. RunningTurnsHaveTasks'
  BY <1>11, <1>12 DEF RunningTurnsHaveTasks
<1>14. ActiveConversationsAreKept'
  BY <1>2, <1>8 DEF WorkerInv, ActiveConversationsAreKept
<1> QED
  BY <1>9, <1>10, <1>13, <1>14 DEF WorkerInv

(* Every step of the worker keeps the invariant.                           *)
LEMMA NextWorkerInv == WorkerInv /\ [WorkerNext]_vars => WorkerInv'
<1> SUFFICES ASSUME WorkerInv, [WorkerNext]_vars PROVE WorkerInv'
  OBVIOUS
<1>1. StoreInv'
  BY WorkerStepIsStoreStep, NextStoreInv DEF WorkerInv
<1>2. CASE UNCHANGED vars
  BY <1>1, <1>2, TasksUntouched
     DEF vars, storeVars, workerVars, WorkerInv, WorkerTypeOK, StoreInv, TasksInv, Quiet
<1>3. CASE StoreProceeds
  BY <1>1, <1>3, StoreProceedsStep
<1>4. CASE WorkerCrash \/ ShutdownEnds \/ \E t \in tasks : ForceExit(t)
  BY <1>1, <1>4, ProcessEnds DEF WorkerCrash, ShutdownEnds, ForceExit, Crash, Stop, Exit
<1>5. CASE \/ \E r \in Request, c \in Conversation, p \in Provider : SubmitTurn(r, c, p)
           \/ \E r \in Request : SubmitRefused(r) \/ SubmitRejected(r)
           \/ \E p \in Provider : CooldownEnds(p) \/ CredentialsChange(p)
           \/ Shutdown \/ ShutdownWaits
  BY <1>1, <1>5, RequestSteps
<1>6. CASE \E c \in Conversation : WorkerCreate(c) \/ WorkerDelete(c)
  BY <1>1, <1>6, ConversationSteps
<1>7. CASE \E r \in Request : TurnStarts(r)
  BY <1>1, <1>7, TurnStartsStep
<1>8. CASE \E t \in tasks : \/ ReplyCompletes(t) \/ TurnTimesOut(t) \/ ShutdownSettles(t)
                            \/ \E kind \in FailureKind : ReplyFails(t, kind)
  BY <1>1, <1>8, SettleSteps
<1>9. CASE \E t \in tasks : SessionOpens(t) \/ AbortCompletes(t)
  BY <1>1, <1>9, SessionSteps
<1>10. CASE \E t \in tasks : PiWrites(t)
  BY <1>1, <1>10, PiWritesStep
<1> QED
  BY <1>2, <1>3, <1>4, <1>5, <1>6, <1>7, <1>8, <1>9, <1>10 DEF WorkerNext

-----------------------------------------------------------------------------
(* The theorems.                                                           *)

(* The worker's state is well-typed, its tasks are sound, and the store's  *)
(* invariant holds under every interleaving of requests, timers and ends   *)
(* of the process.                                                         *)
THEOREM WorkerInvariant == WorkerSpec => []WorkerInv
<1>1. WorkerInit => WorkerInv
  BY InitWorkerInv
<1>2. WorkerInv /\ [WorkerNext]_vars => WorkerInv'
  BY NextWorkerInv
<1> QED
  BY <1>1, <1>2, PTL DEF WorkerSpec

(* A turn is running in the database exactly while a task still has to     *)
(* settle it (worker/src/server.ts: runTurn, settle, shutdown).            *)
THEOREM TasksMatchRows == WorkerSpec => []RunningTurnsHaveTasks
<1>1. WorkerInv => RunningTurnsHaveTasks
  BY DEF WorkerInv
<1> QED
  BY <1>1, WorkerInvariant, PTL

(* No conversation is deleted under a task, settled or not (the two checks *)
(* of the DELETE handler and of deleteConversation).                       *)
THEOREM ActiveConversationsSurvive == WorkerSpec => []ActiveConversationsAreKept
<1>1. WorkerInv => ActiveConversationsAreKept
  BY DEF WorkerInv
<1> QED
  BY <1>1, WorkerInvariant, PTL

(* The worker uses the store only in the ways the store's own              *)
(* specification allows; Pi's writes to the transcripts included.          *)
THEOREM WorkerImplementsStore == WorkerSpec => ImplementsStore
<1>1. WorkerInit => StoreInit
  BY DEF WorkerInit
<1>2. WorkerInv /\ [WorkerNext]_vars => [StoreNext]_storeVars
  BY WorkerStepIsStoreStep
<1> QED
  BY <1>1, <1>2, WorkerInvariant, PTL DEF WorkerSpec, ImplementsStore, StoreSpec

(* The rows the worker leaves behind behave as the abstract ledger.        *)
THEOREM WorkerImplementsLedger == WorkerSpec => ImplementsLedger
  BY WorkerImplementsStore, StoreImplementsLedger, PTL DEF ImplementsStore

-----------------------------------------------------------------------------
(* One writer per conversation, if the credential check is fast enough.    *)

\* Steps that add neither a task nor a submission, and settle nothing.
LEMMA SoleWriterShrinks ==
  ASSUME SoleWriterInv,
         life' = "running" => life = "running",
         \A r \in Request : requests'[r] \in {requests[r], NoRequest},
         tasks' \subseteq tasks
  PROVE  SoleWriterInv'
  BY DEF SoleWriterInv, OneWriter, PendingMeetsRunning

\* A task replaced by one of the same conversation.
LEMMA SoleWriterReplaces ==
  ASSUME SoleWriterInv, NEW t \in tasks, NEW u, Replace(t, u),
         u.conversation = t.conversation, UNCHANGED <<requests, life>>,
         \/ u.settled = t.settled
         \/ life # "running"
         \/ \A r \in Request :
               requests[r] # NoRequest => requests[r].conversation # t.conversation
  PROVE  SoleWriterInv'
  BY DEF SoleWriterInv, OneWriter, PendingMeetsRunning, Replace

(* A turn only starts in a conversation without a task: one that is there  *)
(* would still have its turn running, and the unique index would refuse.   *)
LEMMA SoleWriterStarts ==
  ASSUME WorkerInv, SoleWriterInv, NEW r \in Request, TurnStarts(r)
  PROVE  SoleWriterInv'
<1> DEFINE d == requests[r].conversation
           task == [conversation |-> d, turn |-> Len(turns[d]) + 1,
                    provider |-> requests[r].provider,
                    stage |-> "opening", settled |-> FALSE, expired |-> FALSE]
<1>1. /\ requests[r] # NoRequest
      /\ requests' = [requests EXCEPT ![r] = NoRequest]
      /\ UNCHANGED life
      /\ IsIdle(turns[d])
      /\ tasks' = IF life = "running" THEN tasks \cup {task} ELSE tasks
  BY DEF TurnStarts, StartTurn, CanStartTurn
<1>2. \A q \in Request : requests'[q] \in {requests[q], NoRequest}
  BY <1>1 DEF WorkerInv, WorkerTypeOK
<1>3. task.conversation = d /\ ~task.settled
  OBVIOUS
<1> HIDE DEF task, d
<1>4. CASE life = "running"
  <2>1. \A t \in tasks : t.conversation # d
    <3> SUFFICES ASSUME NEW t \in tasks, t.conversation = d PROVE FALSE
      OBVIOUS
    <3>1. ~t.settled
      BY <1>1, <1>4 DEF SoleWriterInv, PendingMeetsRunning, d
    <3>2. Running(t)
      BY <3>1 DEF WorkerInv, RunningTurnsHaveTasks
    <3> QED
      BY <1>1, <3>2 DEF Running, IsRunning, IsIdle
  <2>2. tasks' = tasks \cup {task}
    BY <1>1, <1>4
  <2>3. OneWriter'
    BY <1>3, <2>1, <2>2 DEF SoleWriterInv, OneWriter
  <2>4. PendingMeetsRunning'
    BY <1>1, <1>2, <1>3, <1>4, <2>2 DEF SoleWriterInv, PendingMeetsRunning
  <2> QED
    BY <2>3, <2>4 DEF SoleWriterInv
<1>5. CASE life # "running"
  BY <1>1, <1>2, <1>5, SoleWriterShrinks
<1> QED
  BY <1>4, <1>5

\* Every step of the worker, under the assumption on the credential check.
LEMMA NextSoleWriter ==
  ASSUME ~SlowAuth, WorkerInv, SoleWriterInv, [WorkerNext]_vars
  PROVE  SoleWriterInv'
<1>1. CASE \/ UNCHANGED vars \/ StoreProceeds \/ Shutdown \/ ShutdownWaits
           \/ \E c \in Conversation : WorkerCreate(c) \/ WorkerDelete(c)
           \/ \E t \in tasks : PiWrites(t)
           \/ \E p \in Provider : CooldownEnds(p) \/ CredentialsChange(p)
  <2>1. UNCHANGED <<requests, tasks>> /\ (life' = "running" => life = "running")
    BY <1>1 DEF vars, StoreProceeds, Shutdown, ShutdownWaits, WorkerCreate, WorkerDelete, PiWrites,
                CooldownEnds, CredentialsChange, workerVars
  <2> QED
    BY <2>1, SoleWriterShrinks
<1>2. CASE WorkerCrash \/ ShutdownEnds \/ \E t \in tasks : ForceExit(t)
  BY <1>2 DEF WorkerCrash, ShutdownEnds, ForceExit, LoseMemory,
              SoleWriterInv, OneWriter, PendingMeetsRunning
<1>3. ASSUME NEW r \in Request, NEW c \in Conversation, NEW p \in Provider, SubmitTurn(r, c, p)
      PROVE  SoleWriterInv'
  <2>1. UNCHANGED <<tasks, life>> /\ \A t \in tasks : t.conversation # c
    BY <1>3 DEF SubmitTurn, ActiveTasks
  <2>2. \A q \in Request : requests'[q] = requests[q] \/ requests'[q].conversation = c
    BY <1>3 DEF SubmitTurn, WorkerInv, WorkerTypeOK
  <2> QED
    BY <2>1, <2>2 DEF SoleWriterInv, OneWriter, PendingMeetsRunning
<1>4. ASSUME NEW r \in Request, SubmitRefused(r) \/ SubmitRejected(r)
      PROVE  SoleWriterInv'
  <2>1. \A q \in Request : requests'[q] \in {requests[q], NoRequest}
    BY <1>4 DEF SubmitRefused, SubmitRejected, WorkerInv, WorkerTypeOK
  <2>2. UNCHANGED <<tasks, life>>
    BY <1>4 DEF SubmitRefused, SubmitRejected
  <2> QED
    BY <2>1, <2>2, SoleWriterShrinks
<1>5. CASE \E r \in Request : TurnStarts(r)
  BY <1>5, SoleWriterStarts
<1>6. ASSUME NEW t \in tasks,
             \/ ReplyCompletes(t) \/ AbortCompletes(t)
             \/ \E kind \in FailureKind : ReplyFails(t, kind)
      PROVE  SoleWriterInv'
  <2>1. UNCHANGED <<requests, life>> /\ tasks' \subseteq tasks
    BY <1>6 DEF ReplyCompletes, AbortCompletes, ReplyFails
  <2> QED
    BY <2>1, SoleWriterShrinks
<1>7. ASSUME NEW t \in tasks, SessionOpens(t)
      PROVE  SoleWriterInv'
  <2>1. PICK stage \in {"aborting", "prompting"} : Replace(t, [t EXCEPT !.stage = stage])
    BY <1>7 DEF SessionOpens
  <2>2. /\ [t EXCEPT !.stage = stage].conversation = t.conversation
        /\ [t EXCEPT !.stage = stage].settled = t.settled
    BY TaskFields DEF Task
  <2>3. UNCHANGED <<requests, life>>
    BY <1>7 DEF SessionOpens
  <2> QED
    BY <2>1, <2>2, <2>3, SoleWriterReplaces
<1>8. ASSUME NEW t \in tasks, TurnTimesOut(t)
      PROVE  SoleWriterInv'
  <2> DEFINE u == [t EXCEPT !.settled = TRUE, !.expired = TRUE]
  <2>1. /\ Replace(t, u)
        /\ UNCHANGED <<requests, life>>
        /\ \A r \in Request :
              requests[r] # NoRequest => requests[r].conversation # t.conversation
    BY <1>8, ~SlowAuth DEF TurnTimesOut
  <2>2. u.conversation = t.conversation
    BY TaskFields DEF Task
  <2> QED
    BY <2>1, <2>2, SoleWriterReplaces
<1>9. ASSUME NEW t \in tasks, ShutdownSettles(t)
      PROVE  SoleWriterInv'
  <2> DEFINE u == [t EXCEPT !.settled = TRUE]
  <2>1. Replace(t, u) /\ UNCHANGED <<requests, life>> /\ life # "running"
    BY <1>9 DEF ShutdownSettles
  <2>2. u.conversation = t.conversation
    BY TaskFields DEF Task
  <2> QED
    BY <2>1, <2>2, SoleWriterReplaces
<1> QED
  BY <1>1, <1>2, <1>3, <1>4, <1>5, <1>6, <1>7, <1>8, <1>9 DEF WorkerNext

(* A conversation has one Pi session at a time (one writer of its          *)
(* transcript), provided no credential check of a submission to it is      *)
(* still pending when one of its turns times out.  Without the assumption  *)
(* it is false: the check awaits between the look at activeTurns and       *)
(* startTurn in worker/src/server.ts, submitTurn.                          *)
THEOREM SoleWriter == ASSUME ~SlowAuth PROVE WorkerSpec => []OneWriter
<1>1. WorkerInit => SoleWriterInv
  BY DEF WorkerInit, SoleWriterInv, OneWriter, PendingMeetsRunning
<1>2. WorkerInv /\ SoleWriterInv /\ [WorkerNext]_vars => SoleWriterInv'
  BY NextSoleWriter, ~SlowAuth
<1>3. SoleWriterInv => OneWriter
  BY DEF SoleWriterInv
<1> QED
  BY <1>1, <1>2, <1>3, WorkerInvariant, PTL DEF WorkerSpec
=============================================================================
