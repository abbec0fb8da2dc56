----------------------- MODULE ConversationStoreProofs -----------------------
(***************************************************************************)
(* ConversationStore, for every set of conversations and every bound: its  *)
(* type invariant and safety invariants hold.  The invariant StoreInv is   *)
(* inductive; what a step does to one history of turns is put in lemmas    *)
(* about sequences first, so that the step proof only looks them up.       *)
(***************************************************************************)
EXTENDS ConversationStore, SequenceTheorems, TLAPS

(* A history of turns as the store keeps it: only the last may be running. *)
SoundHistory(h) ==
    /\ h \in Seq(TurnStatus)
    /\ \A i \in DOMAIN h : h[i] = "running" => i = Len(h)

\* A created conversation has the empty history.
LEMMA EmptyHistory == SoundHistory(<<>>) /\ IsIdle(<<>>)
  BY DEF SoundHistory, IsIdle

\* Starting a turn in an idle conversation leaves exactly the new one running.
LEMMA StartedHistory ==
  ASSUME NEW h, SoundHistory(h), IsIdle(h)
  PROVE  SoundHistory(Append(h, "running"))
  BY DEF SoundHistory, IsIdle, TurnStatus

\* Settling a turn keeps the history sound.
LEMMA FinishedHistory ==
  ASSUME NEW h, SoundHistory(h), NEW i \in DOMAIN h, NEW outcome \in Outcome
  PROVE  SoundHistory([h EXCEPT ![i] = outcome])
<1>1. i \in 1..Len(h) /\ outcome \in TurnStatus /\ outcome # "running"
  BY DEF SoundHistory, TurnStatus, Outcome
<1>2. /\ [h EXCEPT ![i] = outcome] \in Seq(TurnStatus)
      /\ Len([h EXCEPT ![i] = outcome]) = Len(h)
      /\ \A j \in 1..Len(h) : [h EXCEPT ![i] = outcome][j] = IF j = i THEN outcome ELSE h[j]
  BY <1>1, ExceptSeq DEF SoundHistory
<1>3. DOMAIN [h EXCEPT ![i] = outcome] = 1..Len(h) /\ DOMAIN h = 1..Len(h)
  BY <1>2, LenProperties DEF SoundHistory
<1> QED
  BY <1>1, <1>2, <1>3 DEF SoundHistory

\* Interrupting a history leaves nothing running in it.
LEMMA InterruptedHistory ==
  ASSUME NEW h, SoundHistory(h)
  PROVE  SoundHistory(Interrupted(h)) /\ IsIdle(Interrupted(h))
<1>1. Len(h) \in Nat /\ DOMAIN h = 1..Len(h) /\ \A i \in 1..Len(h) : h[i] \in TurnStatus
  BY LenProperties, ElementOfSeq DEF SoundHistory
<1>2. Interrupted(h) \in [1..Len(h) -> TurnStatus]
  BY <1>1 DEF Interrupted, TurnStatus, Outcome
<1>3. Interrupted(h) \in Seq(TurnStatus)
  BY <1>1, <1>2, SeqDef
<1>4. \A i \in 1..Len(h) : Interrupted(h)[i] # "running"
  BY <1>1 DEF Interrupted
<1> QED
  BY <1>1, <1>2, <1>3, <1>4 DEF SoundHistory, IsIdle

-----------------------------------------------------------------------------

\* The constants and definitions every step below looks at.
USE DEF storeVars, tables, files, process

\* An empty database and no files satisfy the invariant.
LEMMA InitStoreInv == StoreInit => StoreInv
<1> SUFFICES ASSUME StoreInit PROVE StoreInv
  OBVIOUS
<1>1. StoreTypeOK
  BY BoundsAssumption, EmptySeq DEF StoreInit, StoreTypeOK, Step
<1>2. \A c \in Conversation : IsIdle(turns[c]) /\ turns[c] = <<>>
  BY EmptyHistory DEF StoreInit
<1>3. OneRunningTurn
  BY <1>2 DEF OneRunningTurn
<1>4. PendingDeletionIsIdle /\ DeletedLeavesNoFile /\ KeptConversationKeepsTranscript
  BY DEF StoreInit, PendingDeletionIsIdle, DeletedLeavesNoFile, KeptConversationKeepsTranscript
<1>5. ControlInv /\ RowInv
  BY <1>2 DEF StoreInit, ControlInv, RowInv
<1> QED
  BY <1>1, <1>3, <1>4, <1>5 DEF StoreInv

(* What StoreInv says of the histories, and back.                          *)
LEMMA SoundHistories ==
  ASSUME StoreInv
  PROVE  \A c \in Conversation : SoundHistory(turns[c])
  BY DEF StoreInv, StoreTypeOK, OneRunningTurn, SoundHistory

\* The type and the shape of every history, from one fact about each.
LEMMA HistoriesSound ==
  ASSUME NEW h, h \in [Conversation -> Seq(TurnStatus)],
         \A c \in Conversation : SoundHistory(h[c])
  PROVE  \A c \in Conversation : \A i \in DOMAIN h[c] :
             h[c][i] = "running" => i = Len(h[c])
  BY DEF SoundHistory

(* A step that leaves the turns alone keeps them well-typed and at most    *)
(* one running.                                                            *)
LEMMA TurnsUnchanged ==
  ASSUME StoreInv, UNCHANGED turns
  PROVE  turns' \in [Conversation -> Seq(TurnStatus)] /\ OneRunningTurn'
  BY DEF StoreInv, StoreTypeOK, OneRunningTurn

\* Opening only moves the program counter.
LEMMA OpenStep ==
  ASSUME StoreInv, Open
  PROVE  StoreInv'
<1> USE DEF Open
<1>1. StoreTypeOK'
  BY BoundsAssumption DEF StoreInv, StoreTypeOK, ControlInv, Step
<1>2. OneRunningTurn'
  BY TurnsUnchanged
<1>3. PendingDeletionIsIdle' /\ RowInv'
  BY DEF StoreInv, StoreTypeOK, PendingDeletionIsIdle, RowInv, ControlInv
<1>4. DeletedLeavesNoFile' /\ KeptConversationKeepsTranscript'
  BY DEF StoreInv, StoreTypeOK, DeletedLeavesNoFile, KeptConversationKeepsTranscript, RowInv, ControlInv
<1>5. ControlInv'
  BY NoConversationAssumption DEF StoreInv, StoreTypeOK, ControlInv, RowInv
<1> QED
  BY <1>1, <1>2, <1>3, <1>4, <1>5 DEF StoreInv

\* So does entering a recorded deletion: DeleteRow does not assume the row is there.
LEMMA RecoverDeletionStep ==
  ASSUME StoreInv, NEW c \in Conversation, RecoverDeletion(c)
  PROVE  StoreInv'
<1> USE DEF RecoverDeletion
<1>1. StoreTypeOK'
  BY BoundsAssumption DEF StoreInv, StoreTypeOK, ControlInv, Step
<1>2. OneRunningTurn'
  BY TurnsUnchanged
<1>3. PendingDeletionIsIdle' /\ RowInv'
  BY DEF StoreInv, StoreTypeOK, PendingDeletionIsIdle, RowInv, ControlInv
<1>4. DeletedLeavesNoFile' /\ KeptConversationKeepsTranscript'
  BY DEF StoreInv, StoreTypeOK, DeletedLeavesNoFile, KeptConversationKeepsTranscript, RowInv, ControlInv
<1>5. ControlInv'
  BY NoConversationAssumption DEF StoreInv, StoreTypeOK, ControlInv, RowInv
<1> QED
  BY <1>1, <1>2, <1>3, <1>4, <1>5 DEF StoreInv

\* A new row starts with no turns and no files.
LEMMA CreateConversationStep ==
  ASSUME StoreInv, NEW c \in Conversation, CreateConversation(c)
  PROVE  StoreInv'
<1> USE DEF CreateConversation, Quiet
<1>1. StoreTypeOK'
  BY BoundsAssumption DEF StoreInv, StoreTypeOK, ControlInv, Step
<1>2. OneRunningTurn'
  BY TurnsUnchanged
<1>3. PendingDeletionIsIdle' /\ RowInv'
  BY DEF StoreInv, StoreTypeOK, PendingDeletionIsIdle, RowInv, ControlInv
<1>4. DeletedLeavesNoFile' /\ KeptConversationKeepsTranscript'
  BY DEF StoreInv, StoreTypeOK, DeletedLeavesNoFile, KeptConversationKeepsTranscript, RowInv, ControlInv
<1>5. ControlInv'
  BY NoConversationAssumption DEF StoreInv, StoreTypeOK, ControlInv, RowInv
<1> QED
  BY <1>1, <1>2, <1>3, <1>4, <1>5 DEF StoreInv

\* Recording a deletion requires the conversation to be idle and its files in place.
LEMMA BeginDeleteStep ==
  ASSUME StoreInv, NEW c \in Conversation, BeginDelete(c)
  PROVE  StoreInv'
<1> USE DEF BeginDelete, Quiet
<1>1. StoreTypeOK'
  BY BoundsAssumption DEF StoreInv, StoreTypeOK, ControlInv, Step
<1>2. OneRunningTurn'
  BY TurnsUnchanged
<1>3. PendingDeletionIsIdle' /\ RowInv'
  BY DEF StoreInv, StoreTypeOK, PendingDeletionIsIdle, RowInv, ControlInv
<1>4. DeletedLeavesNoFile' /\ KeptConversationKeepsTranscript'
  BY DEF StoreInv, StoreTypeOK, DeletedLeavesNoFile, KeptConversationKeepsTranscript, RowInv, ControlInv
<1>5. ControlInv'
  BY NoConversationAssumption DEF StoreInv, StoreTypeOK, ControlInv, RowInv, KeptConversationKeepsTranscript
<1> QED
  BY <1>1, <1>2, <1>3, <1>4, <1>5 DEF StoreInv

\* The transcript moves while its deletion is recorded.
LEMMA MoveTranscriptStep ==
  ASSUME StoreInv, MoveTranscript
  PROVE  StoreInv'
<1> USE DEF MoveTranscript
<1>1. StoreTypeOK'
  BY BoundsAssumption DEF StoreInv, StoreTypeOK, ControlInv, Step
<1>2. OneRunningTurn'
  BY TurnsUnchanged
<1>3. PendingDeletionIsIdle' /\ RowInv'
  BY DEF StoreInv, StoreTypeOK, PendingDeletionIsIdle, RowInv, ControlInv
<1>4. DeletedLeavesNoFile' /\ KeptConversationKeepsTranscript'
  BY DEF StoreInv, StoreTypeOK, DeletedLeavesNoFile, KeptConversationKeepsTranscript, RowInv, ControlInv
<1>5. ControlInv'
  BY NoConversationAssumption DEF StoreInv, StoreTypeOK, ControlInv, RowInv
<1> QED
  BY <1>1, <1>2, <1>3, <1>4, <1>5 DEF StoreInv

\* Withdrawing is only reached with the transcript still in place.
LEMMA AbandonDeleteStep ==
  ASSUME StoreInv, AbandonDelete
  PROVE  StoreInv'
<1> USE DEF AbandonDelete
<1>1. StoreTypeOK'
  BY BoundsAssumption DEF StoreInv, StoreTypeOK, ControlInv, Step
<1>2. OneRunningTurn'
  BY TurnsUnchanged
<1>3. PendingDeletionIsIdle' /\ RowInv'
  BY DEF StoreInv, StoreTypeOK, PendingDeletionIsIdle, RowInv, ControlInv
<1>4. DeletedLeavesNoFile' /\ KeptConversationKeepsTranscript'
  BY DEF StoreInv, StoreTypeOK, DeletedLeavesNoFile, KeptConversationKeepsTranscript, RowInv, ControlInv
<1>5. ControlInv'
  BY NoConversationAssumption DEF StoreInv, StoreTypeOK, ControlInv, RowInv
<1> QED
  BY <1>1, <1>2, <1>3, <1>4, <1>5 DEF StoreInv

\* Neither file removal touches a row.
LEMMA RemoveTrashStep ==
  ASSUME StoreInv, RemoveTrash
  PROVE  StoreInv'
<1> USE DEF RemoveTrash
<1>1. StoreTypeOK'
  BY BoundsAssumption DEF StoreInv, StoreTypeOK, ControlInv, Step
<1>2. OneRunningTurn'
  BY TurnsUnchanged
<1>3. PendingDeletionIsIdle' /\ RowInv'
  BY DEF StoreInv, StoreTypeOK, PendingDeletionIsIdle, RowInv, ControlInv
<1>4. DeletedLeavesNoFile' /\ KeptConversationKeepsTranscript'
  BY DEF StoreInv, StoreTypeOK, DeletedLeavesNoFile, KeptConversationKeepsTranscript, RowInv, ControlInv
<1>5. ControlInv'
  BY NoConversationAssumption DEF StoreInv, StoreTypeOK, ControlInv, RowInv
<1> QED
  BY <1>1, <1>2, <1>3, <1>4, <1>5 DEF StoreInv

\* The second removal covers a transcript that was never moved.
LEMMA RemoveTranscriptStep ==
  ASSUME StoreInv, RemoveTranscript
  PROVE  StoreInv'
<1> USE DEF RemoveTranscript
<1>1. StoreTypeOK'
  BY BoundsAssumption DEF StoreInv, StoreTypeOK, ControlInv, Step
<1>2. OneRunningTurn'
  BY TurnsUnchanged
<1>3. PendingDeletionIsIdle' /\ RowInv'
  BY DEF StoreInv, StoreTypeOK, PendingDeletionIsIdle, RowInv, ControlInv
<1>4. DeletedLeavesNoFile' /\ KeptConversationKeepsTranscript'
  BY DEF StoreInv, StoreTypeOK, DeletedLeavesNoFile, KeptConversationKeepsTranscript, RowInv, ControlInv
<1>5. ControlInv'
  BY NoConversationAssumption DEF StoreInv, StoreTypeOK, ControlInv, RowInv
<1> QED
  BY <1>1, <1>2, <1>3, <1>4, <1>5 DEF StoreInv

\* The record goes last, when both files are gone.
LEMMA ForgetDeletionStep ==
  ASSUME StoreInv, ForgetDeletion
  PROVE  StoreInv'
<1> USE DEF ForgetDeletion
<1>1. StoreTypeOK'
  BY BoundsAssumption DEF StoreInv, StoreTypeOK, ControlInv, Step
<1>2. OneRunningTurn'
  BY TurnsUnchanged
<1>3. PendingDeletionIsIdle' /\ RowInv'
  BY DEF StoreInv, StoreTypeOK, PendingDeletionIsIdle, RowInv, ControlInv
<1>4. DeletedLeavesNoFile' /\ KeptConversationKeepsTranscript'
  BY DEF StoreInv, StoreTypeOK, DeletedLeavesNoFile, KeptConversationKeepsTranscript, RowInv, ControlInv
<1>5. ControlInv'
  BY NoConversationAssumption DEF StoreInv, StoreTypeOK, ControlInv, RowInv
<1> QED
  BY <1>1, <1>2, <1>3, <1>4, <1>5 DEF StoreInv

\* A failed step gives up the program counter and nothing else.
LEMMA StepFailsStep ==
  ASSUME StoreInv, StepFails
  PROVE  StoreInv'
<1> USE DEF StepFails, GiveUp
<1>1. StoreTypeOK'
  BY BoundsAssumption DEF StoreInv, StoreTypeOK, ControlInv, Step
<1>2. OneRunningTurn'
  BY TurnsUnchanged
<1>3. PendingDeletionIsIdle' /\ RowInv'
  BY DEF StoreInv, StoreTypeOK, PendingDeletionIsIdle, RowInv, ControlInv
<1>4. DeletedLeavesNoFile' /\ KeptConversationKeepsTranscript'
  BY DEF StoreInv, StoreTypeOK, DeletedLeavesNoFile, KeptConversationKeepsTranscript, RowInv, ControlInv
<1>5. ControlInv'
  BY NoConversationAssumption DEF StoreInv, StoreTypeOK, ControlInv, RowInv
<1> QED
  BY <1>1, <1>2, <1>3, <1>4, <1>5 DEF StoreInv

\* A crash too: every invariant about rows and files is about durable state.
LEMMA CrashStep ==
  ASSUME StoreInv, Crash
  PROVE  StoreInv'
<1> USE DEF Crash, Exit
<1>1. StoreTypeOK'
  BY BoundsAssumption DEF StoreInv, StoreTypeOK, ControlInv, Step
<1>2. OneRunningTurn'
  BY TurnsUnchanged
<1>3. PendingDeletionIsIdle' /\ RowInv'
  BY DEF StoreInv, StoreTypeOK, PendingDeletionIsIdle, RowInv, ControlInv
<1>4. DeletedLeavesNoFile' /\ KeptConversationKeepsTranscript'
  BY DEF StoreInv, StoreTypeOK, DeletedLeavesNoFile, KeptConversationKeepsTranscript, RowInv, ControlInv
<1>5. ControlInv'
  BY NoConversationAssumption DEF StoreInv, StoreTypeOK, ControlInv, RowInv
<1> QED
  BY <1>1, <1>2, <1>3, <1>4, <1>5 DEF StoreInv

\* The same for an orderly stop.
LEMMA StopStep ==
  ASSUME StoreInv, Stop
  PROVE  StoreInv'
<1> USE DEF Stop, Exit
<1>1. StoreTypeOK'
  BY BoundsAssumption DEF StoreInv, StoreTypeOK, ControlInv, Step
<1>2. OneRunningTurn'
  BY TurnsUnchanged
<1>3. PendingDeletionIsIdle' /\ RowInv'
  BY DEF StoreInv, StoreTypeOK, PendingDeletionIsIdle, RowInv, ControlInv
<1>4. DeletedLeavesNoFile' /\ KeptConversationKeepsTranscript'
  BY DEF StoreInv, StoreTypeOK, DeletedLeavesNoFile, KeptConversationKeepsTranscript, RowInv, ControlInv
<1>5. ControlInv'
  BY NoConversationAssumption DEF StoreInv, StoreTypeOK, ControlInv, RowInv
<1> QED
  BY <1>1, <1>2, <1>3, <1>4, <1>5 DEF StoreInv

\* Pi never writes under a recorded deletion.
LEMMA WriteTranscriptStep ==
  ASSUME StoreInv, NEW c \in Conversation, WriteTranscript(c)
  PROVE  StoreInv'
<1> USE DEF WriteTranscript, AppendTranscript, Quiet
<1>1. StoreTypeOK'
  BY BoundsAssumption DEF StoreInv, StoreTypeOK, ControlInv, Step
<1>2. OneRunningTurn'
  BY TurnsUnchanged
<1>3. PendingDeletionIsIdle' /\ RowInv'
  BY DEF StoreInv, StoreTypeOK, PendingDeletionIsIdle, RowInv
<1>4. DeletedLeavesNoFile' /\ KeptConversationKeepsTranscript'
  BY DEF StoreInv, StoreTypeOK, DeletedLeavesNoFile, KeptConversationKeepsTranscript
<1>5. ControlInv'
  BY NoConversationAssumption DEF StoreInv, StoreTypeOK, ControlInv, RowInv
<1> QED
  BY <1>1, <1>2, <1>3, <1>4, <1>5 DEF StoreInv

\* Starting requires an idle conversation with no recorded deletion.
LEMMA StartTurnStep ==
  ASSUME StoreInv, NEW c \in Conversation, StartTurn(c)
  PROVE  StoreInv'
<1> USE DEF StartTurn, CanStartTurn, Quiet
<1>1. \A d \in Conversation : SoundHistory(turns'[d])
  BY SoundHistories, StartedHistory DEF StoreInv, StoreTypeOK
<1>2. turns' \in [Conversation -> Seq(TurnStatus)] /\ OneRunningTurn'
  BY <1>1 DEF SoundHistory, OneRunningTurn, StoreInv, StoreTypeOK
<1>3. StoreTypeOK'
  BY <1>2 DEF StoreInv, StoreTypeOK, ControlInv, Step
<1>4. PendingDeletionIsIdle' /\ RowInv'
  BY DEF StoreInv, StoreTypeOK, PendingDeletionIsIdle, RowInv
<1>5. DeletedLeavesNoFile' /\ KeptConversationKeepsTranscript'
  BY DEF StoreInv, StoreTypeOK, DeletedLeavesNoFile, KeptConversationKeepsTranscript, ControlInv
<1>6. ControlInv'
  BY NoConversationAssumption DEF StoreInv, StoreTypeOK, ControlInv
<1> QED
  BY <1>2, <1>3, <1>4, <1>5, <1>6 DEF StoreInv

\* Settling only touches a running turn, and only its status.
LEMMA FinishTurnStep ==
  ASSUME StoreInv, NEW c \in Conversation, NEW i \in 1..MaxTurns, NEW outcome \in Outcome,
         FinishTurn(c, i, outcome)
  PROVE  StoreInv'
<1> USE DEF FinishTurn, Quiet
<1>1. \A d \in Conversation : SoundHistory(turns'[d])
  BY SoundHistories, FinishedHistory DEF StoreInv, StoreTypeOK
<1>2. turns' \in [Conversation -> Seq(TurnStatus)] /\ OneRunningTurn'
  BY <1>1 DEF SoundHistory, OneRunningTurn, StoreInv, StoreTypeOK
<1>3. StoreTypeOK'
  BY <1>2 DEF StoreInv, StoreTypeOK, ControlInv, Step
<1>4. PendingDeletionIsIdle' /\ RowInv'
  BY EmptyHistory DEF StoreInv, StoreTypeOK, PendingDeletionIsIdle, RowInv, IsIdle
<1>5. DeletedLeavesNoFile' /\ KeptConversationKeepsTranscript'
  BY DEF StoreInv, StoreTypeOK, DeletedLeavesNoFile, KeptConversationKeepsTranscript, ControlInv
<1>6. ControlInv'
  BY NoConversationAssumption DEF StoreInv, StoreTypeOK, ControlInv
<1> QED
  BY <1>2, <1>3, <1>4, <1>5, <1>6 DEF StoreInv

\* The constructor's last step: every history is interrupted.
LEMMA InterruptRunningTurnsStep ==
  ASSUME StoreInv, InterruptRunningTurns
  PROVE  StoreInv'
<1> USE DEF InterruptRunningTurns
<1>1. \A d \in Conversation : SoundHistory(turns'[d])
  BY SoundHistories, InterruptedHistory
<1>2. turns' \in [Conversation -> Seq(TurnStatus)] /\ OneRunningTurn'
  BY <1>1 DEF SoundHistory, OneRunningTurn, StoreInv, StoreTypeOK
<1>3. StoreTypeOK'
  BY <1>2 DEF StoreInv, StoreTypeOK, ControlInv, Step
<1>4. PendingDeletionIsIdle' /\ RowInv'
  BY DEF StoreInv, StoreTypeOK, PendingDeletionIsIdle, RowInv, Interrupted
<1>5. DeletedLeavesNoFile' /\ KeptConversationKeepsTranscript'
  BY DEF StoreInv, StoreTypeOK, DeletedLeavesNoFile, KeptConversationKeepsTranscript, ControlInv
<1>6. ControlInv'
  BY NoConversationAssumption DEF StoreInv, StoreTypeOK, ControlInv
<1> QED
  BY <1>2, <1>3, <1>4, <1>5, <1>6 DEF StoreInv

\* The row goes with its turns; the files follow under the recorded deletion.
LEMMA DeleteRowStep ==
  ASSUME StoreInv, DeleteRow
  PROVE  StoreInv'
<1> USE DEF DeleteRow
<1>0. target \in deletions /\ target \in Conversation
  BY DEF StoreInv, StoreTypeOK, ControlInv
<1>1. \A d \in Conversation : SoundHistory(turns'[d])
  BY <1>0, SoundHistories, EmptyHistory DEF StoreInv, StoreTypeOK
<1>2. turns' \in [Conversation -> Seq(TurnStatus)] /\ OneRunningTurn'
  BY <1>1 DEF SoundHistory, OneRunningTurn, StoreInv, StoreTypeOK
<1>3. StoreTypeOK'
  BY <1>2 DEF StoreInv, StoreTypeOK, ControlInv, Step
<1>4. PendingDeletionIsIdle' /\ RowInv'
  BY <1>0, EmptyHistory DEF StoreInv, StoreTypeOK, PendingDeletionIsIdle, RowInv
<1>5. DeletedLeavesNoFile' /\ KeptConversationKeepsTranscript'
  BY DEF StoreInv, StoreTypeOK, DeletedLeavesNoFile, KeptConversationKeepsTranscript, ControlInv
<1>6. ControlInv'
  BY NoConversationAssumption DEF StoreInv, StoreTypeOK, ControlInv
<1> QED
  BY <1>2, <1>3, <1>4, <1>5, <1>6 DEF StoreInv

-----------------------------------------------------------------------------

\* The induction step: every action of the store preserves StoreInv.
LEMMA NextStoreInv == StoreInv /\ [StoreNext]_storeVars => StoreInv'
<1> SUFFICES ASSUME StoreInv, [StoreNext]_storeVars
             PROVE  StoreInv'
  OBVIOUS
<1>1. CASE UNCHANGED storeVars
  BY <1>1, TurnsUnchanged DEF StoreInv, StoreTypeOK, PendingDeletionIsIdle, DeletedLeavesNoFile,
     KeptConversationKeepsTranscript, ControlInv, RowInv
<1>2. CASE StoreNext
  <2>1. CASE Open \/ InterruptRunningTurns \/ StepFails \/ Crash \/ Stop
    BY <2>1, OpenStep, InterruptRunningTurnsStep, StepFailsStep, CrashStep, StopStep
  <2>2. CASE DeleteStep
    BY <2>2, MoveTranscriptStep, AbandonDeleteStep, DeleteRowStep, RemoveTrashStep,
       RemoveTranscriptStep, ForgetDeletionStep DEF DeleteStep
  <2>3. ASSUME NEW c \in Conversation,
               \/ RecoverDeletion(c) \/ CreateConversation(c) \/ StartTurn(c)
               \/ BeginDelete(c) \/ WriteTranscript(c)
        PROVE  StoreInv'
    BY <2>3, RecoverDeletionStep, CreateConversationStep, StartTurnStep, BeginDeleteStep,
       WriteTranscriptStep
  <2>4. ASSUME NEW c \in Conversation, NEW i \in 1..MaxTurns, NEW outcome \in Outcome,
               FinishTurn(c, i, outcome)
        PROVE  StoreInv'
    BY <2>4, FinishTurnStep
  <2> QED
    BY <1>2, <2>1, <2>2, <2>3, <2>4 DEF StoreNext
<1> QED
  BY <1>1, <1>2

(* StoreInv holds in every state the store can reach.                      *)
THEOREM StoreInvariant == StoreSpec => []StoreInv
  BY InitStoreInv, NextStoreInv, PTL DEF StoreSpec

(* Every variable keeps its type.                                          *)
THEOREM StoreTypeCorrect == StoreSpec => []StoreTypeOK
<1>1. StoreInv => StoreTypeOK
  BY DEF StoreInv
<1> QED
  BY <1>1, StoreInvariant, PTL

(* However deletions, crashes and restarts interleave, a conversation has  *)
(* at most one running turn and it is its newest.                          *)
THEOREM AtMostOneRunningTurn == StoreSpec => []OneRunningTurn
<1>1. StoreInv => OneRunningTurn
  BY DEF StoreInv
<1> QED
  BY <1>1, StoreInvariant, PTL

(* A conversation whose deletion is recorded has no reply in progress.     *)
THEOREM RecordedDeletionIsIdle == StoreSpec => []PendingDeletionIsIdle
<1>1. StoreInv => PendingDeletionIsIdle
  BY DEF StoreInv
<1> QED
  BY <1>1, StoreInvariant, PTL

(* A finished deletion leaves no transcript in either directory.           *)
THEOREM DeletionIsComplete == StoreSpec => []DeletedLeavesNoFile
<1>1. StoreInv => DeletedLeavesNoFile
  BY DEF StoreInv
<1> QED
  BY <1>1, StoreInvariant, PTL

(* A conversation that is not being deleted has lost no transcript.        *)
THEOREM DeletionIsSafe == StoreSpec => []KeptConversationKeepsTranscript
<1>1. StoreInv => KeptConversationKeepsTranscript
  BY DEF StoreInv
<1> QED
  BY <1>1, StoreInvariant, PTL

-----------------------------------------------------------------------------
(* Steps: what may happen to a finished turn, and the ledger.              *)

\* No step rewrites the status of a finished turn that stays.
LEMMA StepKeepsOutcomes == StoreInv /\ [StoreNext]_storeVars => OutcomesKept
<1> SUFFICES ASSUME StoreInv, [StoreNext]_storeVars,
                    NEW c \in Conversation, NEW i \in DOMAIN turns[c], turns[c][i] # "running"
             PROVE  \/ rows'[c] = "deleted"
                    \/ i \in DOMAIN turns'[c] /\ turns'[c][i] = turns[c][i]
  BY DEF OutcomesKept
<1>1. SoundHistory(turns[c]) /\ DOMAIN turns[c] = 1..Len(turns[c]) /\ Len(turns[c]) \in Nat
  BY SoundHistories, LenProperties DEF SoundHistory
<1>2. CASE UNCHANGED turns
  BY <1>2
<1>3. CASE InterruptRunningTurns
  BY <1>3 DEF InterruptRunningTurns, Interrupted
<1>4. CASE DeleteRow
  <2>1. turns'[c] = turns[c] \/ rows'[c] = "deleted"
    BY <1>4 DEF DeleteRow, StoreInv, StoreTypeOK
  <2> QED
    BY <2>1
<1>5. ASSUME NEW d \in Conversation, StartTurn(d)
      PROVE  i \in DOMAIN turns'[c] /\ turns'[c][i] = turns[c][i]
  <2>1. turns'[c] = turns[c] \/ turns'[c] = Append(turns[c], "running")
    BY <1>5 DEF StartTurn, StoreInv, StoreTypeOK
  <2> QED
    BY <1>1, <2>1 DEF SoundHistory, TurnStatus
<1>6. ASSUME NEW d \in Conversation, NEW j \in 1..MaxTurns, NEW outcome \in Outcome,
             FinishTurn(d, j, outcome)
      PROVE  i \in DOMAIN turns'[c] /\ turns'[c][i] = turns[c][i]
  <2>1. turns'[c] = turns[c] \/ (c = d /\ turns'[c] = [turns[c] EXCEPT ![j] = outcome])
    BY <1>6 DEF FinishTurn, StoreInv, StoreTypeOK
  <2>2. c = d => j # i
    BY <1>6 DEF FinishTurn
  <2> QED
    BY <2>1, <2>2
<1> QED
  BY <1>2, <1>3, <1>4, <1>5, <1>6
     DEF StoreNext, DeleteStep, Open, StepFails, GiveUp, Crash, Stop, Exit, RecoverDeletion, CreateConversation,
         BeginDelete, WriteTranscript, AppendTranscript, MoveTranscript, AbandonDelete, RemoveTrash,
         RemoveTranscript, ForgetDeletion

(* A finished turn keeps its outcome as long as its conversation exists.   *)
THEOREM OutcomesAreFinal == StoreSpec => OutcomeIsFinal
<1>1. StoreInv /\ [StoreNext]_storeVars => [OutcomesKept]_storeVars
  BY StepKeepsOutcomes
<1> QED
  BY <1>1, StoreInvariant, PTL DEF StoreSpec, OutcomeIsFinal

\* The refinement mapping takes initial states to initial states.
LEMMA LedgerInitial == StoreInit => Ledger!LedgerInit
  BY DEF StoreInit, Ledger!LedgerInit

\* Being idle means the same in the store and in the ledger.
LEMMA LedgerIsIdle == \A h : IsIdle(h) <=> Ledger!IsIdle(h)
  BY DEF IsIdle, Ledger!IsIdle

\* Settling one turn is a Finish that ends just that conversation.
LEMMA FinishMaps ==
  ASSUME StoreInv, NEW d \in Conversation, NEW j \in 1..MaxTurns, NEW o \in Outcome,
         FinishTurn(d, j, o)
  PROVE  Ledger!Finish
<1>1. /\ SoundHistory(turns[d])
      /\ DOMAIN turns[d] = 1..Len(turns[d]) /\ Len(turns[d]) \in Nat
      /\ \A c \in Conversation : turns[c] \in Seq(TurnStatus)
  BY SoundHistories, LenProperties DEF SoundHistory
<1> DEFINE outcome == [c \in Conversation |-> o]
           settled(c) == [i \in DOMAIN turns[c] |->
                            IF turns[c][i] = "running" THEN outcome[c] ELSE turns[c][i]]
<1>2. outcome \in [Conversation -> Ledger!Outcome]
  BY DEF Outcome, Ledger!Outcome
<1>3. \A i \in DOMAIN turns[d] : turns[d][i] = "running" <=> i = j
  BY <1>1 DEF FinishTurn, SoundHistory
<1>4. [turns[d] EXCEPT ![j] = o] = settled(d)
  BY <1>3 DEF FinishTurn
<1>5. turns' = [c \in Conversation |-> IF c \in {d} THEN settled(c) ELSE turns[c]]
  BY <1>4 DEF FinishTurn, StoreInv, StoreTypeOK
<1>6. UNCHANGED rows
  BY DEF FinishTurn
<1> QED
  BY <1>2, <1>5, <1>6 DEF Ledger!Finish

\* The refinement step: every store step is a ledger step or a stutter.
LEMMA StepMaps == StoreInv /\ [StoreNext]_storeVars => [Ledger!LedgerNext]_(Ledger!ledgerVars)
<1> SUFFICES ASSUME StoreInv, [StoreNext]_storeVars
             PROVE  Ledger!LedgerNext \/ UNCHANGED <<rows, turns>>
  BY DEF Ledger!ledgerVars
<1>1. CASE UNCHANGED <<rows, turns>>
  BY <1>1
<1>2. CASE InterruptRunningTurns
  BY <1>2 DEF InterruptRunningTurns, Interrupted, Ledger!Interrupted, Ledger!Restart, Ledger!LedgerNext
<1>3. CASE DeleteRow
  <2>1. target \in deletions /\ target \in Conversation /\ rows[target] \in {"present", "deleted"}
    BY <1>3 DEF DeleteRow, StoreInv, StoreTypeOK, ControlInv, RowInv
  <2>2. CASE rows[target] = "present"
    BY <1>3, <2>1, <2>2, LedgerIsIdle
       DEF DeleteRow, StoreInv, PendingDeletionIsIdle, Ledger!Remove, Ledger!LedgerNext
  <2>3. CASE rows[target] = "deleted"
    BY <1>3, <2>1, <2>3 DEF DeleteRow, StoreInv, StoreTypeOK, RowInv
  <2> QED
    BY <2>1, <2>2, <2>3
<1>4. ASSUME NEW d \in Conversation, StartTurn(d)
      PROVE  Ledger!LedgerNext
  BY <1>4, LedgerIsIdle DEF StartTurn, CanStartTurn, Ledger!Start, Ledger!LedgerNext
<1>5. ASSUME NEW d \in Conversation, CreateConversation(d)
      PROVE  Ledger!LedgerNext
  BY <1>5 DEF CreateConversation, Ledger!Create, Ledger!LedgerNext
<1>6. ASSUME NEW d \in Conversation, NEW j \in 1..MaxTurns, NEW o \in Outcome, FinishTurn(d, j, o)
      PROVE  Ledger!LedgerNext
  BY <1>6, FinishMaps DEF Ledger!LedgerNext
<1> QED
  BY <1>1, <1>2, <1>3, <1>4, <1>5, <1>6
     DEF StoreNext, DeleteStep, Open, StepFails, GiveUp, Crash, Stop, Exit, RecoverDeletion,
         BeginDelete, WriteTranscript, AppendTranscript, MoveTranscript, AbandonDelete, RemoveTrash,
         RemoveTranscript, ForgetDeletion

(* The database rows, with every crash and every half-done deletion,       *)
(* behave as the abstract ledger.                                          *)
THEOREM StoreImplementsLedger == StoreSpec => ImplementsLedger
  BY LedgerInitial, StepMaps, StoreInvariant, PTL DEF StoreSpec, ImplementsLedger, Ledger!LedgerSpec
=============================================================================
