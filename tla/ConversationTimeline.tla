------------------------ MODULE ConversationTimeline ------------------------
(***************************************************************************)
(* worker/src/store.ts and worker/src/server.ts (runTurn's session events, *)
(* detail): the evidence of one conversation, and the thread that          *)
(* components/assistant-thread.ts makes of a snapshot.                     *)
(*                                                                         *)
(* Messages, tool calls and media results are three tables, each with its  *)
(* own order; timeline_items gives the order between them.  Databases      *)
(* older than that table are backfilled when the store is opened.  A row   *)
(* and its timeline entry are two autocommitted statements, except for the *)
(* user's message, which startTurn inserts in its transaction.             *)
(*                                                                         *)
(* The conversation has one task at a time (AssistantWorker, OneWriter).   *)
(* Ids are random UUIDs; here they are numbers in the order in which the   *)
(* worker drew them.  The rows of a table are in that order too, except    *)
(* tool calls that run in parallel: theirs is the order of their ends,     *)
(* which nothing reads, since every call is listed before it has a row.    *)
(***************************************************************************)
EXTENDS Naturals, FiniteSets

CONSTANTS
    MaxLegacy,             \* bound: turns of the database that is backfilled
    MaxTurns,              \* bound: turns altogether
    MaxRecords,            \* bound: ids drawn
    MaxFaults              \* bound: crashes

\* A legacy turn has up to five ids (below).
ASSUME TimelineBoundsAssumption ==
    /\ MaxLegacy \in Nat
    /\ MaxTurns \in Nat /\ MaxLegacy <= MaxTurns
    /\ MaxRecords \in Nat \ {0} /\ 5 * MaxLegacy <= MaxRecords
    /\ MaxFaults \in Nat

VARIABLES
    record,                \* messages, tool_calls, media_results: the row of an id
    entry,                 \* timeline_items: the position of an id, 0 without an entry
    turn,                  \* turns so far
    unlisted,              \* the row whose timeline entry is not inserted yet
    serving,               \* is the process past the store's constructor?
    task,                  \* the task of the conversation's newest turn
    live,                  \* task.live: the message being streamed
    reserved,              \* task.toolIds: tool calls that have started
    drawn,                 \* ids drawn so far
    faults,                \* crashes so far
    lost                   \* history: rows that a crash kept off the timeline

tables == <<record, entry, turn>>
session == <<task, live, reserved>>
vars == <<tables, unlisted, serving, session, drawn, faults, lost>>

None == 0
Id == 1..MaxRecords

Record == [type : {"user", "assistant", "toolCall", "mediaResult"}, turn : 1..MaxTurns]
NoRecord == [type |-> "none", turn |-> 0]

TypeOK ==
    /\ record \in [Id -> Record \cup {NoRecord}]
    /\ entry \in [Id -> 0..MaxRecords]
    /\ turn \in 0..MaxTurns
    /\ unlisted \in Id \cup {None}
    /\ serving \in BOOLEAN
    /\ task \in {"none", "running", "settled"}
    /\ live \in Id \cup {None}
    /\ reserved \subseteq Id
    /\ drawn \in 0..MaxRecords
    /\ faults \in 0..MaxFaults
    /\ lost \subseteq Id

Saved == {id \in Id : record[id] # NoRecord}

Listed == {id \in Id : entry[id] # 0}

OfType(type, t) == {id \in Id : record[id].type = type /\ record[id].turn = t}

-----------------------------------------------------------------------------
(* backfillConversationTimeline.                                           *)

Question(t) == CHOOSE id \in OfType("user", t) : TRUE

FirstReply(t) ==
    CHOOSE id \in OfType("assistant", t) : \A other \in OfType("assistant", t) : id <= other

(* The messages are listed by position.  A turn's evidence goes before its *)
(* first reply, or after the question if no reply was saved, and behind    *)
(* everything if neither was; tool calls before media results.             *)
Place(id) ==
    LET kind == record[id].type
        t == record[id].turn
        rank == IF kind = "mediaResult" THEN 1 ELSE 0
    IN  IF kind \in {"user", "assistant"} THEN <<id, 1, 0, id>>
        ELSE IF OfType("assistant", t) # {} THEN <<FirstReply(t), 0, rank, id>>
        ELSE IF OfType("user", t) # {} THEN <<Question(t), 2, rank, id>>
        ELSE <<drawn + 1, 0, rank, id>>

\* Lexicographically.
Sooner(p, q) == \E i \in 1..4 : p[i] < q[i] /\ \A j \in 1..(i - 1) : p[j] = q[j]

\* Faulty variant: the evidence is listed after all messages.
BackfilledLast ==
    LET Late(id) == IF record[id].type \in {"user", "assistant"} THEN 0
                    ELSE IF record[id].type = "toolCall" THEN 1 ELSE 2
        before(id) == {other \in Saved : \/ Late(other) < Late(id)
                                         \/ Late(other) = Late(id) /\ other < id}
    IN  [id \in Id |-> IF id \in Saved THEN Cardinality(before(id)) + 1 ELSE 0]

\* Positions are given from 1 on.
Backfilled ==
    [id \in Id |-> IF id \in Saved
        THEN Cardinality({other \in Saved : Sooner(Place(other), Place(id))}) + 1
        ELSE 0]

-----------------------------------------------------------------------------
(* A database of an older version.  A legacy turn is a question, then at   *)
(* most one tool call and media result and up to two replies, under five   *)
(* ids of its own.                                                         *)

LegacyTurn == [tools : 0..1, media : 0..1, replies : 0..2]

LegacyRecord(history, id) ==
    LET t == (id - 1) \div 5 + 1
        k == (id - 1) % 5
        row(kind) == [type |-> kind, turn |-> t]
    IN  IF t \notin DOMAIN history THEN NoRecord
        ELSE IF k = 0 THEN row("user")
        ELSE IF k = 1 /\ history[t].tools = 1 THEN row("toolCall")
        ELSE IF k = 2 /\ history[t].media = 1 THEN row("mediaResult")
        ELSE IF k \in 3..(2 + history[t].replies) THEN row("assistant")
        ELSE NoRecord

Init ==
    /\ \E n \in 0..MaxLegacy : \E history \in [1..n -> LegacyTurn] :
          /\ record = [id \in Id |-> LegacyRecord(history, id)]
          /\ turn = n
    /\ drawn = 5 * MaxLegacy
    /\ entry = [id \in Id |-> 0]
    /\ unlisted = None
    /\ serving = FALSE
    /\ task = "none"
    /\ live = None
    /\ reserved = {}
    /\ faults = 0
    /\ lost = {}

-----------------------------------------------------------------------------
(* The store is opened: one transaction for the conversation, and only if  *)
(* nothing of it is listed.                                                *)
Open ==
    /\ ~serving
    /\ serving' = TRUE
    /\ entry' = IF Listed = {} THEN Backfilled ELSE entry
    /\ UNCHANGED <<record, turn, unlisted, session, drawn, faults, lost>>

\* The event loop can take its next callback.
LoopFree == serving /\ unlisted = None

\* Ids are drawn in order.
CanDraw == drawn < MaxRecords
NextId == drawn + 1

Inserted(id, kind, t) == [record EXCEPT ![id] = [type |-> kind, turn |-> t]]

\* MAX(position) + 1: no position is ever skipped or given up.
Appended(id) == [entry EXCEPT ![id] = Cardinality(Listed) + 1]

StartTurn ==
    /\ LoopFree
    /\ CanDraw
    /\ task = "none"
    /\ turn < MaxTurns
    /\ turn' = turn + 1
    /\ record' = Inserted(NextId, "user", turn + 1)
    /\ entry' = Appended(NextId)
    /\ drawn' = NextId
    /\ task' = "running"
    /\ UNCHANGED <<unlisted, serving, live, reserved, faults, lost>>

\* The second statement of insertMessage and saveMediaResult.
AppendTimeline ==
    /\ serving
    /\ unlisted # None
    /\ entry' = Appended(unlisted)
    /\ unlisted' = None
    /\ UNCHANGED <<record, turn, serving, session, drawn, faults, lost>>

-----------------------------------------------------------------------------
(* Events of the Pi session, in any order.  All but the media tools'       *)
(* callback are dropped once the turn is settled.                          *)

\* message_update: the first delta of a message.
MessageUpdate ==
    /\ LoopFree
    /\ CanDraw
    /\ task = "running"
    /\ live = None
    /\ live' = NextId
    /\ drawn' = NextId
    /\ UNCHANGED <<tables, unlisted, serving, task, reserved, faults, lost>>

\* Faulty variant: the saved message gets an id of its own.
MessageEndFresh ==
    /\ LoopFree
    /\ CanDraw
    /\ task = "running"
    /\ record' = Inserted(NextId, "assistant", turn)
    /\ unlisted' = NextId
    /\ drawn' = NextId
    /\ live' = None
    /\ UNCHANGED <<entry, turn, serving, task, reserved, faults, lost>>

(* message_end: the streamed message is saved under the id it was shown    *)
(* with, one that was not streamed under a new id.  A message without text *)
(* is not saved; it was not streamed either, which leaves nothing to do.   *)
MessageEnd ==
    /\ LoopFree
    /\ task = "running"
    /\ live = None => CanDraw
    /\ LET id == IF live = None THEN NextId ELSE live IN
          /\ record' = Inserted(id, "assistant", turn)
          /\ unlisted' = id
    /\ drawn' = IF live = None THEN NextId ELSE drawn
    /\ live' = None
    /\ UNCHANGED <<entry, turn, serving, task, reserved, faults, lost>>

\* Faulty variant: no place on the timeline until the tool has completed.
ToolExecutionStartUnlisted ==
    /\ LoopFree
    /\ CanDraw
    /\ task = "running"
    /\ reserved' = reserved \cup {NextId}
    /\ drawn' = NextId
    /\ UNCHANGED <<tables, unlisted, serving, task, live, faults, lost>>

\* tool_execution_start: reserveToolCall.
ToolExecutionStart ==
    /\ LoopFree
    /\ CanDraw
    /\ task = "running"
    /\ reserved' = reserved \cup {NextId}
    /\ entry' = Appended(NextId)
    /\ drawn' = NextId
    /\ UNCHANGED <<record, turn, unlisted, serving, task, live, faults, lost>>

(* tool_execution_end: saveToolCall; INSERT OR IGNORE finds the call on    *)
(* the timeline already, or appends it.                                    *)
ToolExecutionEnd(id) ==
    /\ LoopFree
    /\ task = "running"
    /\ id \in reserved
    /\ reserved' = reserved \ {id}
    /\ entry' = IF id \in Listed THEN entry ELSE Appended(id)
    /\ record' = Inserted(id, "toolCall", turn)
    /\ UNCHANGED <<turn, unlisted, serving, task, live, drawn, faults, lost>>

\* A media tool's callback: saveMediaResult, whether or not the turn is settled.
SaveMediaResult ==
    /\ LoopFree
    /\ CanDraw
    /\ task # "none"
    /\ record' = Inserted(NextId, "mediaResult", turn)
    /\ unlisted' = NextId
    /\ drawn' = NextId
    /\ UNCHANGED <<entry, turn, serving, session, faults, lost>>

\* Faulty variant: a settled turn is released while its session still runs.
ReleaseEarly ==
    /\ LoopFree
    /\ task = "running"
    /\ task' = "none"
    /\ UNCHANGED <<tables, unlisted, serving, live, reserved, drawn, faults, lost>>

\* The reply ends, fails or times out, or the worker is stopping.
Settle ==
    /\ LoopFree
    /\ task = "running"
    /\ task' = "settled"
    /\ UNCHANGED <<tables, unlisted, serving, live, reserved, drawn, faults, lost>>

TaskEnds ==
    /\ LoopFree
    /\ task = "settled"
    /\ task' = "none"
    /\ live' = None
    /\ reserved' = {}
    /\ UNCHANGED <<tables, unlisted, serving, drawn, faults, lost>>

\* The worker is stopped while no turn runs.
Stop ==
    /\ LoopFree
    /\ task = "none"
    /\ serving' = FALSE
    /\ UNCHANGED <<tables, unlisted, session, drawn, faults, lost>>

(* The process dies, perhaps between a row and its timeline entry.         *)
Crash ==
    /\ serving
    /\ faults < MaxFaults
    /\ faults' = faults + 1
    /\ serving' = FALSE
    /\ lost' = lost \cup ({unlisted} \ {None})
    /\ unlisted' = None
    /\ task' = "none"
    /\ live' = None
    /\ reserved' = {}
    /\ UNCHANGED <<tables, drawn>>

Next ==
    \/ Open
    \/ StartTurn
    \/ AppendTimeline
    \/ MessageUpdate
    \/ MessageEnd
    \/ ToolExecutionStart
    \/ \E id \in reserved : ToolExecutionEnd(id)
    \/ SaveMediaResult
    \/ Settle
    \/ TaskEnds
    \/ Stop
    \/ Crash

Spec == Init /\ [][Next]_vars

-----------------------------------------------------------------------------
(* What a client shows.                                                    *)

\* detail: a running turn's streamed message is part of the snapshot.
Streamed(id) == task = "running" /\ id = live

Thread == {id \in Id : id \in Saved \/ Streamed(id)}

(* getDetail leaves out entries without a row; conversationEntries puts    *)
(* rows without an entry behind all others, table by table.  Nothing is    *)
(* read between a row and its entry: there, the order is that of the next  *)
(* read.                                                                   *)
Part(id) ==
    IF entry[id] # 0 \/ id = unlisted THEN 1
    ELSE IF Streamed(id) THEN 2
    ELSE IF record[id].type \in {"user", "assistant"} THEN 3
    ELSE IF record[id].type = "toolCall" THEN 4
    ELSE 5

Position(id) ==
    IF entry[id] # 0 THEN entry[id]
    ELSE IF id = unlisted THEN MaxRecords + 1
    ELSE id

ShownBefore(a, b) ==
    Part(a) < Part(b) \/ (Part(a) = Part(b) /\ Position(a) < Position(b))

TurnOf(id) == IF id \in Saved THEN record[id].turn ELSE turn

-----------------------------------------------------------------------------
(* Properties.                                                             *)

(* Live state belongs to a task; the row between its two statements is the *)
(* only saved one that is neither listed nor lost; no two entries have one *)
(* position, and ids are drawn before they are used.  So a record shown    *)
(* nowhere, or behind all others, was never left out by the backfill.      *)
TimelineInv ==
    /\ TypeOK
    /\ task = "none" => live = None /\ reserved = {}
    /\ unlisted # None => serving /\ unlisted \in Saved
    /\ {unlisted, live} \cup lost \subseteq 0..drawn \ Listed
    /\ Saved \cup reserved \cup Listed \subseteq 1..drawn
    /\ lost \subseteq Saved
    /\ \A a, b \in Listed : entry[a] = entry[b] => a = b
    /\ LoopFree => Saved \ lost \subseteq Listed

(* The timeline never mixes turns: all that belongs to a turn stands       *)
(* before the next question, whatever the old tables held and however late *)
(* a media result is saved.                                                *)
TimelineFollowsTurns ==
    \A a, b \in Listed \cap Saved : entry[a] < entry[b] => record[a].turn <= record[b].turn

(* "Reserve source order now": tool calls are shown in the order in which  *)
(* they started, although they complete in any order.                      *)
ToolsInStartOrder ==
    serving => \A a, b \in {id \in Saved : record[id].type = "toolCall"} :
        ShownBefore(a, b) <=> a < b

\* What a step must not take from the thread.
Kept(id) ==
    \/ Streamed(id) /\ task' = "running"
    \/ id \in Saved /\ (serving' \/ id # unlisted)

(* Two snapshots never contradict each other: what one has shown, a later  *)
(* one still shows, in the same order, a message that was being streamed   *)
(* included as long as its turn runs.                                      *)
ThreadGrows ==
    LET kept == {id \in Thread : Kept(id)} IN
        /\ kept \subseteq Thread'
        /\ \A a, b \in kept : ShownBefore(a, b) <=> ShownBefore(a, b)'

SnapshotsAgree == [][serving => ThreadGrows]_vars

(* tests/assistant-http.test.ts: "keeps interleaved assistant segments and *)
(* completed tool evidence in one live, durable timeline"; the thread      *)
(* shows a turn's records before the next question.                        *)
ThreadFollowsTurns ==
    serving => \A a, b \in Thread : ShownBefore(a, b) => TurnOf(a) <= TurnOf(b)
=============================================================================
