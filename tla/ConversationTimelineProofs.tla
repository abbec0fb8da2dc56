--------------------- MODULE ConversationTimelineProofs ---------------------
(***************************************************************************)
(* ConversationTimeline, for every number of turns, ids and crashes: the   *)
(* backfill lists all rows turn by turn, every row has its place or was    *)
(* kept off the timeline by a crash, tool calls stand in the order of      *)
(* their starts, and no snapshot contradicts an earlier one.               *)
(***************************************************************************)
EXTENDS ConversationTimeline, FiniteSetTheorems, WellFoundedInduction, TLAPS

-----------------------------------------------------------------------------
(* The order of places.                                                    *)

\* A nonempty set of ids has a first one.
LEMMA SmallestId ==
  ASSUME NEW S \in SUBSET Id, S # {}
  PROVE  \E id \in S : \A other \in S : id <= other
<1>1. S \subseteq Nat
  BY TimelineBoundsAssumption DEF Id
<1>2. \E R : IsWellFoundedOn(R, Nat) /\ \A x, y \in S : x < y => <<x, y>> \in R
  <2>1. IsWellFoundedOn(OpToRel(<, Nat), Nat)
    BY NatLessThanWellFounded
  <2>2. \A x, y \in S : x < y => <<x, y>> \in OpToRel(<, Nat)
    BY <1>1 DEF OpToRel
  <2> QED
    BY <2>1, <2>2, Zenon
<1>3. PICK R : IsWellFoundedOn(R, Nat) /\ \A x, y \in S : x < y => <<x, y>> \in R
  BY <1>2, Zenon
<1>4. PICK x \in S : \A y \in S : ~ (<<y, x>> \in R)
  BY <1>1, <1>3, WFMin
<1>5. \A y \in S : ~ (y < x)
  BY <1>3, <1>4, Zenon
<1>6. \A y \in S : x <= y
  BY <1>1, <1>5
<1> QED
  BY <1>6, Zenon

\* Sooner, column by column.
LEMMA SoonerMeans ==
  ASSUME NEW p \in Nat \X Nat \X Nat \X Nat, NEW q \in Nat \X Nat \X Nat \X Nat
  PROVE  Sooner(p, q) <=> \/ p[1] < q[1]
                          \/ p[1] = q[1] /\ p[2] < q[2]
                          \/ p[1] = q[1] /\ p[2] = q[2] /\ p[3] < q[3]
                          \/ p[1] = q[1] /\ p[2] = q[2] /\ p[3] = q[3] /\ p[4] < q[4]
<1>1. 1..4 = {1, 2, 3, 4}
  OBVIOUS
<1>2. 1..(1 - 1) = {} /\ 1..(2 - 1) = {1} /\ 1..(3 - 1) = {1, 2} /\ 1..(4 - 1) = {1, 2, 3}
  OBVIOUS
<1>3. Sooner(p, q) <=> \/ p[1] < q[1] /\ \A j \in {} : p[j] = q[j]
                       \/ p[2] < q[2] /\ \A j \in {1} : p[j] = q[j]
                       \/ p[3] < q[3] /\ \A j \in {1, 2} : p[j] = q[j]
                       \/ p[4] < q[4] /\ \A j \in {1, 2, 3} : p[j] = q[j]
  BY <1>1, <1>2 DEF Sooner
<1> QED
  BY <1>3

\* It is a strict total order.
LEMMA SoonerIsAnOrder ==
  ASSUME NEW p \in Nat \X Nat \X Nat \X Nat, NEW q \in Nat \X Nat \X Nat \X Nat
  PROVE  /\ ~ Sooner(p, p)
         /\ Sooner(p, q) => ~ Sooner(q, p)
         /\ p[4] # q[4] => Sooner(p, q) \/ Sooner(q, p)
         /\ \A r \in Nat \X Nat \X Nat \X Nat : Sooner(p, q) /\ Sooner(q, r) => Sooner(p, r)
<1>1. ~ Sooner(p, p)
  BY SoonerMeans
<1>2. Sooner(p, q) => ~ Sooner(q, p)
  BY SoonerMeans
<1>3. p[4] # q[4] => Sooner(p, q) \/ Sooner(q, p)
  BY SoonerMeans
<1>4. ASSUME NEW r \in Nat \X Nat \X Nat \X Nat, Sooner(p, q), Sooner(q, r)
      PROVE  Sooner(p, r)
  BY <1>4, SoonerMeans
<1> QED
  BY <1>1, <1>2, <1>3, <1>4

-----------------------------------------------------------------------------
(* The invariant.                                                         *)

\* Tool calls with a place on the timeline.
Tools == {id \in Listed : id \in reserved \/ record[id].type = "toolCall"}

\* What is known of a database that has no timeline.
NothingListed ==
    /\ task = "none" /\ unlisted = None /\ lost = {}
    /\ \A id \in Saved : OfType("user", record[id].turn) # {}
    /\ \A a, b \in Saved : a <= b => record[a].turn <= record[b].turn

\* Live state: tool calls are listed before they have a row, and no row is
\* there for what is being streamed.
SessionInv ==
    /\ task # "none" => serving /\ turn # 0
    /\ reserved \subseteq Listed \ Saved
    /\ live \notin Saved

\* Rows without an entry, and the turns of rows.
RowsInv ==
    /\ \A id \in Saved : record[id].turn <= turn
    /\ unlisted # None => record[unlisted].turn = turn
    /\ unlisted \notin lost
    /\ \A id \in Saved : id = unlisted \/ id \in lost =>
          record[id].type \in {"assistant", "mediaResult"}
    /\ Listed = {} => NothingListed
    /\ Listed # {} => Saved \ (lost \cup {unlisted}) \subseteq Listed

EntriesFollowTurns ==
    \A a, b \in Listed \cap (Saved \cup reserved) : entry[a] < entry[b] => TurnOf(a) <= TurnOf(b)

ToolsListedInOrder == \A a, b \in Tools : a < b => entry[a] < entry[b]

EntriesAreDense == \A id \in Listed : entry[id] <= Cardinality(Listed)

\* What a step relies on besides TimelineInv.
TimelineIInv ==
    /\ TimelineInv
    /\ SessionInv
    /\ RowsInv
    /\ EntriesAreDense
    /\ EntriesFollowTurns
    /\ ToolsListedInOrder

-----------------------------------------------------------------------------
(* Ids, entries and rows.                                                  *)

\* There are finitely many ids, and 0 is none.
LEMMA IdsAreFinite ==
  /\ Id \subseteq Nat \ {0}
  /\ IsFiniteSet(Id) /\ Cardinality(Id) = MaxRecords
  /\ \A S \in SUBSET Id : IsFiniteSet(S) /\ Cardinality(S) \in Nat /\ Cardinality(S) <= MaxRecords
<1>1. Id \subseteq Nat \ {0}
  BY TimelineBoundsAssumption DEF Id
<1>2. IsFiniteSet(Id) /\ Cardinality(Id) = MaxRecords
  BY FS_Interval, TimelineBoundsAssumption DEF Id
<1>3. ASSUME NEW S \in SUBSET Id
      PROVE  IsFiniteSet(S) /\ Cardinality(S) \in Nat /\ Cardinality(S) <= MaxRecords
  BY <1>2, FS_Subset, FS_CardinalityType
<1> QED
  BY <1>1, <1>2, <1>3

\* An appended entry stands behind all others.
LEMMA EntryAppended ==
  ASSUME entry \in [Id -> 0..MaxRecords], EntriesAreDense, NEW id \in Id \ Listed,
         entry' = Appended(id)
  PROVE  /\ entry' \in [Id -> 0..MaxRecords]
         /\ Listed' = Listed \cup {id}
         /\ EntriesAreDense'
         /\ \A other \in Listed : entry'[other] = entry[other] /\ entry[other] < entry'[id]
         /\ (\A a, b \in Listed : entry[a] = entry[b] => a = b)
               => \A a, b \in Listed' : entry'[a] = entry'[b] => a = b
<1> DEFINE n == Cardinality(Listed)
<1>1. Listed \subseteq Id
  BY DEF Listed
<1>2. n \in Nat /\ IsFiniteSet(Listed)
  BY <1>1, IdsAreFinite
<1>3. Cardinality(Listed \cup {id}) = n + 1
  BY <1>2, FS_AddElement
<1>4. n + 1 <= MaxRecords
  <2>1. Listed \cup {id} \in SUBSET Id
    BY <1>1
  <2>2. Cardinality(Listed \cup {id}) <= MaxRecords
    BY <2>1, IdsAreFinite, Zenon
  <2> QED
    BY <1>3, <2>2
<1>5. \A other \in Listed : entry[other] \in Nat /\ entry[other] <= n
  BY <1>1, TimelineBoundsAssumption DEF EntriesAreDense
<1> HIDE DEF n
<1>6. entry' = [entry EXCEPT ![id] = n + 1]
  BY DEF Appended, n
<1>7. /\ entry'[id] = n + 1
      /\ \A other \in Id \ {id} : entry'[other] = entry[other]
  BY <1>6
<1>8. entry' \in [Id -> 0..MaxRecords]
  BY <1>2, <1>4, <1>6, TimelineBoundsAssumption
<1>9. Listed' = Listed \cup {id}
  BY <1>2, <1>7 DEF Listed
<1>10. Cardinality(Listed') = n + 1
  BY <1>3, <1>9
<1>11. \A other \in Listed : entry'[other] = entry[other] /\ entry[other] < entry'[id]
  BY <1>1, <1>2, <1>5, <1>7
<1>12. \A other \in Listed' : entry'[other] <= n + 1
  BY <1>2, <1>5, <1>7, <1>9, <1>11
<1>13. EntriesAreDense'
  BY <1>10, <1>12 DEF EntriesAreDense
<1>14. (\A a, b \in Listed : entry[a] = entry[b] => a = b)
          => \A a, b \in Listed' : entry'[a] = entry'[b] => a = b
  BY <1>2, <1>5, <1>7, <1>9, <1>11
<1> QED
  BY <1>8, <1>9, <1>11, <1>13, <1>14

\* A row is added and the others stay as they are.
LEMMA RowInserted ==
  ASSUME record \in [Id -> Record \cup {NoRecord}], NEW id \in Id,
         NEW kind \in {"user", "assistant", "toolCall", "mediaResult"}, NEW t \in 1..MaxTurns,
         record' = Inserted(id, kind, t)
  PROVE  /\ record' \in [Id -> Record \cup {NoRecord}]
         /\ Saved' = Saved \cup {id}
         /\ record'[id].type = kind /\ record'[id].turn = t
         /\ \A other \in Id \ {id} : record'[other] = record[other]
<1>1. record' = [record EXCEPT ![id] = [type |-> kind, turn |-> t]]
  BY DEF Inserted
<1>2. [type |-> kind, turn |-> t] \in Record
  BY DEF Record
<1>3. /\ record'[id] = [type |-> kind, turn |-> t]
      /\ \A other \in Id \ {id} : record'[other] = record[other]
  BY <1>1
<1>4. [type |-> kind, turn |-> t] # NoRecord
  BY DEF NoRecord
<1>5. Saved' = Saved \cup {id}
  BY <1>3, <1>4 DEF Saved
<1>6. record' \in [Id -> Record \cup {NoRecord}]
  BY <1>1, <1>2
<1> QED
  BY <1>3, <1>5, <1>6

-----------------------------------------------------------------------------
(* The backfill.  A row's place is its own, and starts with a message of   *)
(* its turn if the turn's question is there.                               *)
LEMMA PlaceOfRow ==
  ASSUME TypeOK, NEW id \in Saved
  PROVE  /\ Place(id) \in Nat \X Nat \X Nat \X Nat
         /\ Place(id)[4] = id
         /\ OfType("user", record[id].turn) # {} =>
               /\ Place(id)[1] \in Saved
               /\ record[Place(id)[1]].turn = record[id].turn
<1> DEFINE t == record[id].turn
           kind == record[id].type
           rank == IF kind = "mediaResult" THEN 1 ELSE 0
<1>1. /\ id \in Nat /\ drawn + 1 \in Nat /\ id \in Id
      /\ record[id] \in Record
  BY IdsAreFinite DEF TypeOK, Saved
<1>2. kind \in {"user", "assistant", "toolCall", "mediaResult"} /\ rank \in Nat
  BY <1>1 DEF Record
<1>3. ASSUME OfType("assistant", t) # {}
      PROVE  /\ FirstReply(t) \in Nat /\ FirstReply(t) \in Saved
             /\ record[FirstReply(t)].turn = t
  <2>1. OfType("assistant", t) \in SUBSET Id
    BY DEF OfType
  <2>2. \E first \in OfType("assistant", t) : \A other \in OfType("assistant", t) : first <= other
    BY <1>3, <2>1, SmallestId
  <2>3. FirstReply(t) \in OfType("assistant", t)
    BY <2>2 DEF FirstReply
  <2>4. FirstReply(t) \in Id /\ record[FirstReply(t)].type = "assistant"
        /\ record[FirstReply(t)].turn = t
    BY <2>3 DEF OfType
  <2>5. FirstReply(t) \in Saved
    BY <2>4 DEF Saved, NoRecord
  <2>6. FirstReply(t) \in Nat
    BY <2>4, IdsAreFinite
  <2> QED
    BY <2>4, <2>5, <2>6
<1>4. ASSUME OfType("user", t) # {}
      PROVE  /\ Question(t) \in Nat /\ Question(t) \in Saved
             /\ record[Question(t)].turn = t
  <2>1. Question(t) \in OfType("user", t)
    BY <1>4 DEF Question
  <2>2. Question(t) \in Id /\ record[Question(t)].type = "user" /\ record[Question(t)].turn = t
    BY <2>1 DEF OfType
  <2>3. Question(t) \in Saved
    BY <2>2 DEF Saved, NoRecord
  <2>4. Question(t) \in Nat
    BY <2>2, IdsAreFinite
  <2> QED
    BY <2>2, <2>3, <2>4
<1>5. Place(id) = IF kind \in {"user", "assistant"} THEN <<id, 1, 0, id>>
                  ELSE IF OfType("assistant", t) # {} THEN <<FirstReply(t), 0, rank, id>>
                  ELSE IF OfType("user", t) # {} THEN <<Question(t), 2, rank, id>>
                  ELSE <<drawn + 1, 0, rank, id>>
  BY DEF Place
<1> HIDE DEF kind, rank
<1>6. CASE kind \in {"user", "assistant"}
  <2>1. Place(id) = <<id, 1, 0, id>>
    BY <1>5, <1>6
  <2> QED
    BY <1>1, <2>1
<1>7. CASE kind \notin {"user", "assistant"} /\ OfType("assistant", t) # {}
  <2>1. Place(id) = <<FirstReply(t), 0, rank, id>>
    BY <1>5, <1>7
  <2> HIDE DEF t
  <2> QED
    BY <1>1, <1>2, <1>3, <1>7, <2>1 DEF t
<1>8. CASE kind \notin {"user", "assistant"} /\ OfType("assistant", t) = {}
           /\ OfType("user", t) # {}
  <2>1. Place(id) = <<Question(t), 2, rank, id>>
    BY <1>5, <1>8
  <2> QED
    BY <1>1, <1>2, <1>4, <1>8, <2>1
<1>9. CASE kind \notin {"user", "assistant"} /\ OfType("assistant", t) = {}
           /\ OfType("user", t) = {}
  <2>1. Place(id) = <<drawn + 1, 0, rank, id>>
    BY <1>5, <1>9
  <2> QED
    BY <1>1, <1>2, <1>9, <2>1
<1> QED
  BY <1>6, <1>7, <1>8, <1>9

\* The tool calls of a turn have their places in the order of their ids.
LEMMA PlacesOfTools ==
  ASSUME TypeOK, NEW a \in Saved, NEW b \in Saved, a < b,
         record[a].type = "toolCall", record[b].type = "toolCall", record[a].turn = record[b].turn
  PROVE  Sooner(Place(a), Place(b))
<1>1. PICK x \in Nat, y \in Nat : Place(a) = <<x, y, 0, a>> /\ Place(b) = <<x, y, 0, b>>
  <2>1. Place(a)[1] = Place(b)[1] /\ Place(a)[2] = Place(b)[2] /\ Place(a)[3] = 0 /\ Place(b)[3] = 0
    BY DEF Place
  <2> QED
    BY <2>1, PlaceOfRow
<1>2. a \in Nat /\ b \in Nat
  BY IdsAreFinite DEF Saved
<1>3. Place(a) \in Nat \X Nat \X Nat \X Nat /\ Place(b) \in Nat \X Nat \X Nat \X Nat
  BY PlaceOfRow
<1> QED
  BY <1>1, <1>2, <1>3, SoonerMeans

\* What stands before a row.
Before(id) == {other \in Saved : Sooner(Place(other), Place(id))}

\* The positions given are those of the places, from 1 on.
LEMMA Ranks ==
  ASSUME TypeOK
  PROVE  /\ Backfilled \in [Id -> 0..MaxRecords]
         /\ \A id \in Id : Backfilled[id] # 0 <=> id \in Saved
         /\ \A id \in Saved : Backfilled[id] <= Cardinality(Saved)
         /\ \A a, b \in Saved : Backfilled[a] < Backfilled[b] <=> Sooner(Place(a), Place(b))
         /\ \A a, b \in Saved : Backfilled[a] = Backfilled[b] => a = b
<1> DEFINE n == Cardinality(Saved)
<1>1. Saved \in SUBSET Id /\ n \in Nat /\ n <= MaxRecords /\ IsFiniteSet(Saved)
  BY IdsAreFinite DEF Saved
<1>2. \A id \in Saved : Place(id) \in Nat \X Nat \X Nat \X Nat /\ Place(id)[4] = id
  BY PlaceOfRow
<1>3. \A id \in Saved : /\ Before(id) \in SUBSET Id /\ IsFiniteSet(Before(id))
                        /\ Cardinality(Before(id)) \in Nat
  BY <1>1, IdsAreFinite DEF Before
<1>4. ASSUME NEW id \in Saved
      PROVE  Cardinality(Before(id)) + 1 <= n
  <2>1. id \notin Before(id)
    BY <1>2, SoonerIsAnOrder DEF Before
  <2>2. Cardinality(Before(id) \cup {id}) = Cardinality(Before(id)) + 1
    BY <1>3, <2>1, FS_AddElement
  <2>3. Before(id) \cup {id} \in SUBSET Saved
    BY DEF Before
  <2>4. Cardinality(Before(id) \cup {id}) <= n
    BY <1>1, <2>3, FS_Subset
  <2> QED
    BY <2>2, <2>4
<1>5. ASSUME NEW a \in Saved, NEW b \in Saved, Sooner(Place(a), Place(b))
      PROVE  Cardinality(Before(a)) < Cardinality(Before(b))
  <2>1. a \notin Before(a)
    BY <1>2, SoonerIsAnOrder DEF Before
  <2>2. Before(a) \cup {a} \in SUBSET Before(b)
    <3>1. a \in Before(b)
      BY <1>5 DEF Before
    <3>2. ASSUME NEW c \in Before(a) PROVE c \in Before(b)
      <4>1. c \in Saved /\ Sooner(Place(c), Place(a))
        BY DEF Before
      <4>2. Sooner(Place(c), Place(b))
        BY <1>2, <1>5, <4>1, SoonerIsAnOrder
      <4> QED
        BY <4>1, <4>2 DEF Before
    <3> QED
      BY <3>1, <3>2
  <2>3. Cardinality(Before(a) \cup {a}) = Cardinality(Before(a)) + 1
    BY <1>3, <2>1, FS_AddElement
  <2>4. Cardinality(Before(a) \cup {a}) <= Cardinality(Before(b))
    BY <1>3, <2>2, FS_Subset
  <2> QED
    BY <1>3, <2>3, <2>4
<1>6. \A id \in Saved : Backfilled[id] = Cardinality(Before(id)) + 1
  BY <1>1 DEF Backfilled, Before
<1>7. \A id \in Id \ Saved : Backfilled[id] = 0
  BY DEF Backfilled
<1> HIDE DEF n
<1>8. Backfilled \in [Id -> 0..MaxRecords]
  <2>1. Backfilled = [id \in Id |-> Backfilled[id]]
    BY DEF Backfilled
  <2>2. \A id \in Id : Backfilled[id] \in 0..MaxRecords
    BY <1>1, <1>3, <1>4, <1>6, <1>7, TimelineBoundsAssumption
  <2> QED
    BY <2>1, <2>2
<1>9. \A id \in Id : Backfilled[id] # 0 <=> id \in Saved
  BY <1>3, <1>6, <1>7
<1>10. \A id \in Saved : Backfilled[id] <= Cardinality(Saved)
  BY <1>4, <1>6 DEF n
<1>11. \A a, b \in Saved : a # b => Sooner(Place(a), Place(b)) \/ Sooner(Place(b), Place(a))
  BY <1>2, SoonerIsAnOrder
<1>12. \A a, b \in Saved : Sooner(Place(a), Place(b)) => Backfilled[a] < Backfilled[b]
  BY <1>3, <1>5, <1>6
<1>13. \A a \in Saved : Backfilled[a] \in Nat
  BY <1>3, <1>6
<1>14. \A a, b \in Saved : Backfilled[a] = Backfilled[b] => a = b
  BY <1>11, <1>12, <1>13
<1>15. \A a, b \in Saved : Backfilled[a] < Backfilled[b] => Sooner(Place(a), Place(b))
  BY <1>11, <1>12, <1>13
<1> QED
  BY <1>8, <1>9, <1>10, <1>12, <1>14, <1>15

-----------------------------------------------------------------------------
\* A database of an older version has no timeline and whole turns.
LEMMA InitTimeline == Init => TimelineIInv
<1> SUFFICES ASSUME Init PROVE TimelineIInv
  OBVIOUS
<1>1. PICK n \in 0..MaxLegacy : \E history \in [1..n -> LegacyTurn] :
         record = [id \in Id |-> LegacyRecord(history, id)] /\ turn = n
  BY DEF Init
<1>2. PICK history \in [1..n -> LegacyTurn] :
         record = [id \in Id |-> LegacyRecord(history, id)] /\ turn = n
  BY <1>1
<1>3. n \in Nat /\ n <= MaxLegacy /\ n <= MaxTurns /\ 5 * MaxLegacy \in Nat /\ DOMAIN history = 1..n
  BY TimelineBoundsAssumption
<1>4. ASSUME NEW id \in Id
      PROVE  LET t == (id - 1) \div 5 + 1 IN
             /\ t \in Nat \ {0} /\ 5 * (t - 1) + 1 <= id
             /\ t \notin 1..n => record[id] = NoRecord
             /\ record[id] # NoRecord => t \in 1..n /\ record[id].turn = t /\ record[id] \in Record
  <2> DEFINE t == (id - 1) \div 5 + 1
             k == (id - 1) % 5
  <2>1. id \in Nat /\ id # 0
    BY IdsAreFinite
  <2>2. t \in Nat \ {0} /\ 5 * (t - 1) + 1 <= id
    BY <2>1
  <2>3. record[id] = LegacyRecord(history, id)
    BY <1>2
  <2>4. t \notin 1..n => record[id] = NoRecord
    BY <1>3, <2>3 DEF LegacyRecord
  <2>5. record[id] \in {NoRecord, [type |-> "user", turn |-> t], [type |-> "toolCall", turn |-> t],
                        [type |-> "mediaResult", turn |-> t], [type |-> "assistant", turn |-> t]}
    BY <2>3 DEF LegacyRecord
  <2> HIDE DEF t
  <2>6. record[id] # NoRecord => t \in 1..n /\ record[id].turn = t /\ record[id] \in Record
    <3>1. t \in 1..n => t \in 1..MaxTurns
      BY <1>3, TimelineBoundsAssumption
    <3> QED
      BY <2>4, <2>5, <3>1 DEF Record
  <2> QED
    BY <2>2, <2>4, <2>6 DEF t
<1>5. ASSUME NEW t \in 1..n
      PROVE  OfType("user", t) # {}
  <2> DEFINE q == 5 * (t - 1) + 1
  <2>1. q \in Id
    BY <1>3, TimelineBoundsAssumption DEF Id
  <2>2. (q - 1) \div 5 + 1 = t /\ (q - 1) % 5 = 0
    BY <1>3
  <2>3. record[q] = LegacyRecord(history, q)
    BY <1>2, <2>1
  <2>4. record[q] = [type |-> "user", turn |-> t]
    BY <1>3, <2>2, <2>3 DEF LegacyRecord
  <2> QED
    BY <2>1, <2>4 DEF OfType
<1>6. record \in [Id -> Record \cup {NoRecord}]
  BY <1>2, <1>4
<1>7. ASSUME NEW id \in Saved
      PROVE  id \in Id /\ record[id].turn \in 1..n /\ record[id].turn = (id - 1) \div 5 + 1
  BY <1>4 DEF Saved
<1>8. \A id \in Saved : OfType("user", record[id].turn) # {}
  BY <1>5, <1>7
<1>9. \A a, b \in Saved : a <= b => record[a].turn <= record[b].turn
  <2> SUFFICES ASSUME NEW a \in Saved, NEW b \in Saved, a <= b
               PROVE  (a - 1) \div 5 + 1 <= (b - 1) \div 5 + 1
    BY <1>7
  <2>1. a \in Nat \ {0} /\ b \in Nat \ {0}
    BY <1>7, IdsAreFinite
  <2> QED
    BY <2>1
<1>10. Listed = {} /\ reserved = {} /\ live = None /\ task = "none" /\ unlisted = None /\ lost = {}
       /\ ~ serving
  BY DEF Init, Listed
<1>11. drawn \in 0..MaxRecords /\ Saved \subseteq 1..drawn
  <2>1. drawn = 5 * MaxLegacy
    BY DEF Init
  <2>2. ASSUME NEW id \in Saved PROVE id \in 1..drawn
    <3>1. id \in Nat \ {0} /\ (id - 1) \div 5 + 1 <= n
      <4>1. id \in Nat \ {0}
        BY <1>7, IdsAreFinite
      <4>2. (id - 1) \div 5 + 1 \in 1..n
        BY <1>7
      <4> QED
        BY <1>3, <4>1, <4>2
    <3>2. id <= 5 * n
      BY <1>3, <3>1
    <3> QED
      BY <1>3, <2>1, <3>1, <3>2, TimelineBoundsAssumption
  <2> QED
    BY <1>3, <2>1, <2>2, TimelineBoundsAssumption
<1>12. TypeOK
  <2>1. entry \in [Id -> 0..MaxRecords]
    BY TimelineBoundsAssumption DEF Init
  <2>2. turn \in 0..MaxTurns /\ faults \in 0..MaxFaults /\ serving = FALSE
    BY <1>2, <1>3, TimelineBoundsAssumption DEF Init
  <2> QED
    BY <1>6, <1>10, <1>11, <2>1, <2>2 DEF TypeOK, None
<1>13. TimelineInv
  <2>1. LoopFree => Saved \ lost \subseteq Listed
    BY <1>10 DEF LoopFree
  <2> QED
    BY <1>10, <1>11, <1>12, <2>1 DEF TimelineInv, None
<1>14. None \notin Saved
  BY IdsAreFinite DEF None, Saved
<1>15. RowsInv
  <2>1. \A id \in Saved : record[id].turn <= turn
    BY <1>2, <1>3, <1>7
  <2>2. NothingListed
    BY <1>8, <1>9, <1>10 DEF NothingListed
  <2> QED
    BY <1>10, <1>14, <2>1, <2>2 DEF RowsInv
<1>16. SessionInv
  BY <1>10, <1>14 DEF SessionInv
<1>17. EntriesAreDense /\ EntriesFollowTurns /\ ToolsListedInOrder
  BY <1>10 DEF EntriesAreDense, EntriesFollowTurns, ToolsListedInOrder, Tools
<1> QED
  BY <1>13, <1>15, <1>16, <1>17 DEF TimelineIInv

\* The backfill lists all rows, turn by turn.
LEMMA BackfillStep ==
  ASSUME TimelineIInv, Open, Listed = {}
  PROVE  TimelineIInv'
<1>1. TypeOK /\ NothingListed
  BY DEF TimelineIInv, TimelineInv, RowsInv
<1>2. entry' = Backfilled /\ record' = record /\ turn' = turn /\ serving'
      /\ unlisted' = unlisted /\ task' = task /\ live' = live /\ reserved' = reserved
      /\ drawn' = drawn /\ faults' = faults /\ lost' = lost
  BY DEF Open, session
<1>3. Saved' = Saved /\ Saved \subseteq Id
  BY <1>2 DEF Saved
<1>4. Listed' = Saved
  BY <1>1, <1>2, <1>3, Ranks DEF Listed
<1>5. reserved = {} /\ live = None /\ unlisted = None /\ lost = {} /\ task = "none"
  BY <1>1 DEF NothingListed, TimelineIInv, TimelineInv
<1>6. TypeOK'
  BY <1>1, <1>2, Ranks DEF TypeOK
<1>7. TimelineInv'
  <2>1. \A a, b \in Listed' : entry'[a] = entry'[b] => a = b
    BY <1>1, <1>2, <1>4, Ranks
  <2>2. Saved' \subseteq 1..drawn
    BY <1>3 DEF TimelineIInv, TimelineInv
  <2>3. 0 \notin Listed'
    BY <1>3, <1>4, IdsAreFinite
  <2>4. drawn \in Nat
    BY <1>1, TimelineBoundsAssumption DEF TypeOK
  <2> QED
    BY <1>2, <1>3, <1>4, <1>5, <1>6, <2>1, <2>2, <2>3, <2>4 DEF TimelineInv, None
<1>8. EntriesAreDense'
  BY <1>1, <1>2, <1>4, Ranks DEF EntriesAreDense
<1>9. ASSUME NEW a \in Saved, NEW b \in Saved
      PROVE  /\ Sooner(Place(a), Place(b)) => record[a].turn <= record[b].turn
             /\ a < b /\ record[a].type = "toolCall" /\ record[b].type = "toolCall"
                  => Sooner(Place(a), Place(b))
  <2>1. /\ Place(a) \in Nat \X Nat \X Nat \X Nat /\ Place(b) \in Nat \X Nat \X Nat \X Nat
        /\ Place(a)[1] \in Saved /\ record[Place(a)[1]].turn = record[a].turn
        /\ Place(b)[1] \in Saved /\ record[Place(b)[1]].turn = record[b].turn
    BY <1>1, PlaceOfRow DEF NothingListed
  <2>2. /\ record[a].turn \in Nat /\ record[b].turn \in Nat /\ a \in Nat /\ b \in Nat
        /\ Place(a)[1] \in Nat /\ Place(b)[1] \in Nat
    <3>1. record[a] \in Record /\ record[b] \in Record
      BY <1>1 DEF TypeOK, Saved
    <3>2. a \in Nat /\ b \in Nat
      BY <1>3, IdsAreFinite
    <3> QED
      BY <2>1, <3>1, <3>2, TimelineBoundsAssumption DEF Record
  <2>3. Place(a)[1] <= Place(b)[1] => record[a].turn <= record[b].turn
    BY <1>1, <2>1 DEF NothingListed
  <2>4. Place(b)[1] <= Place(a)[1] => record[b].turn <= record[a].turn
    BY <1>1, <2>1 DEF NothingListed
  <2>5. ASSUME Sooner(Place(a), Place(b))
        PROVE  record[a].turn <= record[b].turn
    <3>1. Place(a)[1] <= Place(b)[1]
      BY <2>1, <2>2, <2>5, SoonerMeans
    <3> QED
      BY <2>3, <3>1
  <2>6. ASSUME a < b, record[a].type = "toolCall", record[b].type = "toolCall"
        PROVE  Sooner(Place(a), Place(b))
    <3>1. CASE record[a].turn = record[b].turn
      BY <1>1, <2>6, <3>1, PlacesOfTools
    <3>2. CASE record[a].turn # record[b].turn
      <4>1. record[a].turn <= record[b].turn
        BY <1>1, <2>2, <2>6 DEF NothingListed
      <4>2. Place(a)[1] < Place(b)[1]
        BY <2>2, <2>4, <3>2, <4>1
      <4> QED
        BY <2>1, <4>2, SoonerMeans
    <3> QED
      BY <3>1, <3>2
  <2> QED
    BY <2>5, <2>6
<1>10. EntriesFollowTurns'
  <2>1. \A a, b \in Saved : Backfilled[a] < Backfilled[b] => record[a].turn <= record[b].turn
    BY <1>1, <1>9, Ranks
  <2> QED
    BY <1>2, <1>3, <1>4, <1>5, <2>1 DEF EntriesFollowTurns, TurnOf
<1>11. ToolsListedInOrder'
  <2>1. \A id \in Tools' : id \in Saved /\ record[id].type = "toolCall"
    BY <1>2, <1>4, <1>5 DEF Tools
  <2> QED
    BY <1>1, <1>2, <1>9, <2>1, Ranks DEF ToolsListedInOrder
<1>12. RowsInv'
  <2>1. \A id \in Saved' : record'[id].turn <= turn'
    BY <1>2, <1>3 DEF TimelineIInv, RowsInv
  <2>2. 0 \notin Saved
    BY <1>3, IdsAreFinite
  <2>3. Listed' = {} => NothingListed'
    BY <1>2, <1>3, <1>4, <1>5 DEF NothingListed
  <2> QED
    BY <1>2, <1>3, <1>4, <1>5, <2>1, <2>2, <2>3 DEF RowsInv, None
<1>13. SessionInv'
  <2>1. 0 \notin Saved
    BY <1>3, IdsAreFinite
  <2> QED
    BY <1>2, <1>3, <1>5, <2>1 DEF SessionInv, None
<1> QED
  BY <1>7, <1>8, <1>10, <1>11, <1>12, <1>13 DEF TimelineIInv

-----------------------------------------------------------------------------
\* A new id belongs to nothing yet.
LEMMA FreshId ==
  ASSUME TimelineIInv, CanDraw
  PROVE  /\ NextId \in Id
         /\ NextId \notin Saved \cup Listed \cup reserved \cup lost \cup {unlisted, live}
         /\ NextId \in 0..MaxRecords /\ drawn \in Nat /\ NextId = drawn + 1
<1>1. drawn \in Nat /\ NextId = drawn + 1 /\ NextId <= MaxRecords
  BY TimelineBoundsAssumption DEF TimelineIInv, TimelineInv, TypeOK, CanDraw, NextId
<1>2. NextId \notin 0..drawn
  BY <1>1
<1>3. Saved \cup reserved \cup Listed \cup lost \cup {unlisted, live} \subseteq 0..drawn
  BY <1>1 DEF TimelineIInv, TimelineInv
<1> QED
  BY <1>1, <1>2, <1>3, TimelineBoundsAssumption DEF Id

\* Steps that only open and close the session or the process.
LEMMA TablesKept ==
  ASSUME TimelineIInv, TypeOK', UNCHANGED <<tables, unlisted, lost>>,
         reserved' \in {reserved, {}}, live' \notin Saved \cup Listed, live' \in 0..drawn',
         drawn <= drawn',
         task' = "none" => live' = None /\ reserved' = {},
         task' # "none" => serving' /\ turn # 0 /\ Listed # {},
         unlisted # None => serving',
         serving' => serving \/ Listed # {}
  PROVE  TimelineIInv'
<1>1. /\ record' = record /\ entry' = entry /\ turn' = turn
      /\ unlisted' = unlisted /\ lost' = lost
  BY DEF tables
<1>2. Saved' = Saved /\ Listed' = Listed /\ reserved' \subseteq reserved
  BY <1>1 DEF Saved, Listed
<1>3. TimelineInv'
  <2>1. /\ drawn \in Nat /\ drawn' \in Nat
        /\ 0..drawn \subseteq 0..drawn'
        /\ 1..drawn \subseteq 1..drawn'
    BY TimelineBoundsAssumption DEF TimelineIInv, TimelineInv, TypeOK
  <2>2. {unlisted', live'} \cup lost' \subseteq 0..drawn' \ Listed'
    BY <1>1, <1>2, <2>1 DEF TimelineIInv, TimelineInv
  <2>3. Saved' \cup reserved' \cup Listed' \subseteq 1..drawn'
    BY <1>2, <2>1 DEF TimelineIInv, TimelineInv
  <2>4. LoopFree' => Saved' \ lost' \subseteq Listed'
    BY <1>1, <1>2 DEF TimelineIInv, TimelineInv, RowsInv, LoopFree, None
  <2>5. \A a, b \in Listed' : entry'[a] = entry'[b] => a = b
    BY <1>1, <1>2 DEF TimelineIInv, TimelineInv
  <2>6. unlisted' # None => serving' /\ unlisted' \in Saved'
    BY <1>1, <1>2 DEF TimelineIInv, TimelineInv
  <2>7. lost' \subseteq Saved'
    BY <1>1, <1>2 DEF TimelineIInv, TimelineInv
  <2> QED
    BY <2>2, <2>3, <2>4, <2>5, <2>6, <2>7 DEF TimelineInv, None
<1>4. SessionInv'
  BY <1>1, <1>2 DEF TimelineIInv, SessionInv
<1>5. RowsInv'
  <2>1. Listed = {} => NothingListed'
    BY <1>1, <1>2 DEF TimelineIInv, RowsInv, NothingListed, OfType
  <2> QED
    BY <1>1, <1>2, <2>1 DEF TimelineIInv, RowsInv, None
<1>6. EntriesAreDense'
  BY <1>1, <1>2 DEF TimelineIInv, EntriesAreDense
<1>7. EntriesFollowTurns'
  BY <1>1, <1>2 DEF TimelineIInv, EntriesFollowTurns, TurnOf
<1>8. ToolsListedInOrder'
  BY <1>1, <1>2 DEF TimelineIInv, ToolsListedInOrder, Tools
<1> QED
  BY <1>3, <1>4, <1>5, <1>6, <1>7, <1>8 DEF TimelineIInv

\* Those steps.
LEMMA SessionSteps ==
  ASSUME TimelineIInv,
         (Open /\ Listed # {}) \/ MessageUpdate \/ Settle \/ TaskEnds \/ Stop
  PROVE  TimelineIInv'
<1> USE DEF None
<1>1. TypeOK /\ drawn \in Nat /\ 0 \notin Saved \cup Listed
  BY IdsAreFinite, TimelineBoundsAssumption DEF TimelineIInv, TimelineInv, TypeOK, Saved, Listed
<1>2. /\ live \notin Saved \cup Listed /\ live \in 0..drawn
      /\ task = "none" => live = None /\ reserved = {}
      /\ task # "none" => serving /\ turn # 0 /\ Listed # {}
      /\ unlisted # None => serving
  BY DEF TimelineIInv, TimelineInv, SessionInv, RowsInv, NothingListed
<1>3. CASE Open /\ Listed # {}
  <2>1. UNCHANGED <<tables, unlisted, lost, reserved, live, task, drawn, faults>> /\ serving' = TRUE
    BY <1>3 DEF Open, session, tables
  <2>2. TypeOK'
    BY <1>1, <2>1 DEF TypeOK, tables
  <2> QED
    BY <1>1, <1>2, <1>3, <2>1, <2>2, TablesKept
<1>4. CASE MessageUpdate
  <2>1. /\ UNCHANGED <<tables, unlisted, lost, reserved, serving, task, faults>>
        /\ live' = NextId /\ drawn' = NextId /\ CanDraw /\ serving /\ task # "none"
    BY <1>4 DEF MessageUpdate, LoopFree
  <2>2. /\ NextId \in Id /\ NextId \notin Saved \cup Listed
        /\ NextId \in 0..MaxRecords /\ drawn <= NextId
        /\ NextId \in 0..NextId
    BY <2>1, FreshId
  <2>3. TypeOK'
    BY <1>1, <2>1, <2>2 DEF TypeOK, tables
  <2> QED
    BY <1>1, <1>2, <2>1, <2>2, <2>3, TablesKept
<1>5. CASE Settle
  <2>1. /\ UNCHANGED <<tables, unlisted, lost, reserved, live, serving, drawn, faults>>
        /\ task' = "settled" /\ serving /\ task # "none"
    BY <1>5 DEF Settle, LoopFree
  <2>2. TypeOK'
    BY <1>1, <2>1 DEF TypeOK, tables
  <2> QED
    BY <1>1, <1>2, <2>1, <2>2, TablesKept
<1>6. CASE TaskEnds
  <2>1. /\ UNCHANGED <<tables, unlisted, lost, serving, drawn, faults>>
        /\ task' = "none" /\ serving /\ live' = None /\ reserved' = {}
    BY <1>6 DEF TaskEnds, LoopFree
  <2>2. TypeOK'
    BY <1>1, <2>1 DEF TypeOK, tables
  <2> QED
    BY <1>1, <1>2, <2>1, <2>2, TablesKept
<1>7. CASE Stop
  <2>1. /\ UNCHANGED <<tables, unlisted, lost, reserved, live, task, drawn, faults>>
        /\ serving' = FALSE /\ task = "none" /\ unlisted = None
    BY <1>7 DEF Stop, LoopFree, session
  <2>2. TypeOK'
    BY <1>1, <2>1 DEF TypeOK, tables
  <2> QED
    BY <1>1, <1>2, <2>1, <2>2, TablesKept
<1> QED
  BY <1>3, <1>4, <1>5, <1>6, <1>7

\* A crash turns the row between its two statements into a lost one.
LEMMA CrashStep ==
  ASSUME TimelineIInv, Crash
  PROVE  TimelineIInv'
<1> USE DEF None
<1>1. /\ record' = record /\ entry' = entry /\ turn' = turn /\ drawn' = drawn
      /\ serving' = FALSE /\ task' = "none" /\ live' = 0 /\ reserved' = {} /\ unlisted' = 0
      /\ lost' = lost \cup ({unlisted} \ {0}) /\ faults' = faults + 1 /\ faults < MaxFaults
  BY DEF Crash, tables
<1>2. Saved' = Saved /\ Listed' = Listed /\ 0 \notin Saved \cup Listed
  BY <1>1, IdsAreFinite DEF Saved, Listed
<1>3. TypeOK /\ TimelineInv /\ RowsInv
  BY DEF TimelineIInv, TimelineInv
<1>4. TypeOK'
  <2>1. faults' \in 0..MaxFaults
    BY <1>1, <1>3, TimelineBoundsAssumption DEF TypeOK
  <2>2. lost' \subseteq Id
    BY <1>1, <1>3 DEF TypeOK
  <2> QED
    BY <1>1, <1>3, <2>1, <2>2 DEF TypeOK
<1>5. drawn \in Nat
  BY <1>3, TimelineBoundsAssumption DEF TypeOK
<1>6. TimelineInv'
  <2>1. {unlisted', live'} \cup lost' \subseteq 0..drawn' \ Listed'
    BY <1>1, <1>2, <1>3, <1>5 DEF TimelineInv
  <2>2. Saved' \cup reserved' \cup Listed' \subseteq 1..drawn'
    BY <1>1, <1>2, <1>3 DEF TimelineInv
  <2>3. lost' \subseteq Saved'
    BY <1>1, <1>2, <1>3 DEF TimelineInv
  <2>4. \A a, b \in Listed' : entry'[a] = entry'[b] => a = b
    BY <1>1, <1>2, <1>3 DEF TimelineInv
  <2>5. ~ LoopFree'
    BY <1>1 DEF LoopFree
  <2> QED
    BY <1>1, <1>4, <2>1, <2>2, <2>3, <2>4, <2>5 DEF TimelineInv
<1>7. SessionInv'
  BY <1>1, <1>2 DEF SessionInv
<1>8. RowsInv'
  <2>1. \A id \in Saved : record[id].turn <= turn
    BY <1>3 DEF RowsInv
  <2>2. \A id \in Saved' : id \in lost' =>
           record'[id].type \in {"assistant", "mediaResult"}
    BY <1>1, <1>2, <1>3 DEF RowsInv
  <2>3. Listed = {} => NothingListed'
    BY <1>1, <1>2, <1>3 DEF RowsInv, NothingListed, OfType
  <2>4. Listed # {} => Saved' \ (lost' \cup {unlisted'}) \subseteq Listed'
    BY <1>1, <1>2, <1>3 DEF RowsInv
  <2>5. unlisted' \notin lost'
    BY <1>1, <1>2, <1>3 DEF TimelineInv
  <2> QED
    BY <1>1, <1>2, <2>1, <2>2, <2>3, <2>4, <2>5 DEF RowsInv
<1>9. EntriesAreDense'
  BY <1>1, <1>2 DEF TimelineIInv, EntriesAreDense
<1>10. EntriesFollowTurns'
  BY <1>1, <1>2 DEF TimelineIInv, EntriesFollowTurns, TurnOf
<1>11. ToolsListedInOrder'
  BY <1>1, <1>2 DEF TimelineIInv, ToolsListedInOrder, Tools
<1> QED
  BY <1>6, <1>7, <1>8, <1>9, <1>10, <1>11 DEF TimelineIInv

\* What most steps need of the invariant.
LEMMA TimelineFacts ==
  ASSUME TimelineIInv
  PROVE  /\ TypeOK /\ drawn \in Nat /\ turn \in Nat
         /\ Saved \subseteq Id /\ Listed \subseteq Id /\ None \notin Id
         /\ \A id \in Saved : record[id].turn \in Nat
         /\ \A id \in Listed : entry[id] \in Nat
         /\ \A id \in Saved \cup reserved : TurnOf(id) \in Nat /\ TurnOf(id) <= turn
<1>1. TypeOK /\ drawn \in Nat /\ turn \in Nat
  BY TimelineBoundsAssumption DEF TimelineIInv, TimelineInv, TypeOK
<1>2. Saved \subseteq Id /\ Listed \subseteq Id /\ None \notin Id
  BY IdsAreFinite DEF Saved, Listed, None
<1>3. \A id \in Saved : record[id] \in Record
  BY <1>1 DEF TypeOK, Saved
<1>4. \A id \in Saved : record[id].turn \in Nat
  BY <1>3, TimelineBoundsAssumption DEF Record
<1>5. \A id \in Listed : entry[id] \in Nat
  BY <1>1, <1>2, TimelineBoundsAssumption DEF TypeOK
<1>6. \A id \in Saved : record[id].turn <= turn
  BY DEF TimelineIInv, RowsInv
<1>7. \A id \in Saved \cup reserved : TurnOf(id) \in Nat /\ TurnOf(id) <= turn
  BY <1>1, <1>4, <1>6 DEF TurnOf
<1> QED
  BY <1>1, <1>2, <1>4, <1>5, <1>7

-----------------------------------------------------------------------------
\* The question of a new turn is listed behind everything.
LEMMA StartTurnStep ==
  ASSUME TimelineIInv, StartTurn
  PROVE  TimelineIInv'
<1> USE DEF None
<1> DEFINE q == NextId
<1>1. /\ CanDraw /\ LoopFree /\ task = "none" /\ turn < MaxTurns /\ turn' = turn + 1
      /\ record' = Inserted(q, "user", turn + 1) /\ entry' = Appended(q)
      /\ drawn' = q /\ task' = "running"
      /\ unlisted' = unlisted /\ serving' = serving /\ live' = live /\ reserved' = reserved
      /\ faults' = faults /\ lost' = lost
  BY DEF StartTurn
<1>2. /\ q \in Id /\ q \in 0..MaxRecords /\ q = drawn + 1
      /\ q \notin Saved \cup Listed \cup reserved \cup lost \cup {unlisted, live}
  BY <1>1, FreshId
<1> HIDE DEF q
<1>3. /\ TypeOK /\ drawn \in Nat /\ turn \in Nat
      /\ Saved \subseteq Id /\ Listed \subseteq Id /\ 0 \notin Id
      /\ \A id \in Saved : record[id].turn \in Nat
      /\ \A id \in Listed : entry[id] \in Nat
  BY TimelineFacts
<1>4. turn + 1 \in 1..MaxTurns
  BY <1>1, <1>3, TimelineBoundsAssumption
<1>5. /\ record' \in [Id -> Record \cup {NoRecord}] /\ Saved' = Saved \cup {q}
      /\ record'[q].type = "user" /\ record'[q].turn = turn + 1
      /\ \A other \in Id \ {q} : record'[other] = record[other]
  BY <1>1, <1>2, <1>3, <1>4, RowInserted DEF TypeOK
<1>6. /\ entry' \in [Id -> 0..MaxRecords] /\ Listed' = Listed \cup {q} /\ EntriesAreDense'
      /\ \A other \in Listed : entry'[other] = entry[other] /\ entry[other] < entry'[q]
      /\ \A a, b \in Listed' : entry'[a] = entry'[b] => a = b
  BY <1>1, <1>2, <1>3, EntryAppended DEF TypeOK, TimelineIInv, TimelineInv
<1>7. serving /\ unlisted = 0 /\ live = 0 /\ reserved = {}
  BY <1>1 DEF LoopFree, TimelineIInv, TimelineInv
<1>8. TypeOK'
  BY <1>1, <1>2, <1>3, <1>4, <1>5, <1>6 DEF TypeOK
<1>9. TimelineInv'
  <2>1. 0..drawn \subseteq 0..q /\ 1..drawn \subseteq 1..q /\ q \in 1..q
    BY <1>2, <1>3
  <2>2. {0} \cup lost \subseteq 0..q \ Listed'
    BY <1>2, <1>3, <1>6, <1>7, <2>1 DEF TimelineIInv, TimelineInv
  <2>3. Saved' \cup reserved' \cup Listed' \subseteq 1..q
    BY <1>1, <1>5, <1>6, <2>1 DEF TimelineIInv, TimelineInv
  <2>4. Saved' \ lost' \subseteq Listed'
    BY <1>1, <1>5, <1>6 DEF TimelineIInv, TimelineInv
  <2>5. lost' \subseteq Saved'
    BY <1>1, <1>5 DEF TimelineIInv, TimelineInv
  <2> QED
    BY <1>1, <1>6, <1>7, <1>8, <2>2, <2>3, <2>4, <2>5 DEF TimelineInv
<1>10. SessionInv'
  BY <1>1, <1>3, <1>5, <1>7, <1>2 DEF TimelineIInv, SessionInv
<1>11. RowsInv'
  <2>1. \A id \in Saved' : record'[id].turn <= turn'
    BY <1>1, <1>2, <1>3, <1>5 DEF TimelineIInv, RowsInv
  <2>2. \A id \in Saved' : id \in lost' =>
           record'[id].type \in {"assistant", "mediaResult"}
    BY <1>1, <1>2, <1>3, <1>5 DEF TimelineIInv, RowsInv
  <2>3. Saved' \ lost' \subseteq Listed' /\ Listed' # {} /\ 0 \notin Saved'
    BY <1>1, <1>2, <1>3, <1>5, <1>6 DEF TimelineIInv, TimelineInv
  <2> QED
    BY <1>1, <1>3, <1>7, <2>1, <2>2, <2>3 DEF RowsInv, TimelineIInv, TimelineInv
<1>12. EntriesFollowTurns'
  <2> SUFFICES ASSUME NEW a \in Listed' \cap Saved',
                      NEW b \in Listed' \cap Saved',
                      entry'[a] < entry'[b]
               PROVE  record'[a].turn <= record'[b].turn
    BY <1>1, <1>7 DEF EntriesFollowTurns, TurnOf
  <2>1. CASE b = q
    BY <1>1, <1>2, <1>3, <1>5, <2>1 DEF TimelineIInv, RowsInv
  <2>2. CASE b # q
    <3>1. a # q /\ a \in Listed \cap Saved /\ b \in Listed \cap Saved
      <4>1. b \in Listed \cap Saved
        BY <1>5, <1>6, <2>2
      <4>2. entry'[b] = entry[b] /\ entry[b] < entry'[q]
        BY <1>6, <4>1
      <4>3. entry[b] \in Nat /\ entry'[q] \in Nat
        BY <1>2, <1>3, <1>6, <4>1, TimelineBoundsAssumption
      <4>4. a # q
        BY <4>2, <4>3
      <4> QED
        BY <1>5, <1>6, <4>1, <4>4
    <3>2. entry[a] < entry[b]
      BY <1>6, <3>1
    <3>3. record[a].turn <= record[b].turn
      BY <3>1, <3>2 DEF TimelineIInv, EntriesFollowTurns, TurnOf
    <3> QED
      BY <1>3, <1>5, <2>2, <3>1, <3>3
  <2> QED
    BY <2>1, <2>2
<1>13. ToolsListedInOrder'
  <2>1. \A id \in Listed : record'[id].type = "toolCall" <=> record[id].type = "toolCall"
    BY <1>2, <1>3, <1>5
  <2>2. Tools' = {id \in Listed' : record'[id].type = "toolCall"}
    BY <1>1, <1>7 DEF Tools
  <2>3. Tools = {id \in Listed : record[id].type = "toolCall"}
    BY <1>7 DEF Tools
  <2>4. Tools' = Tools
    BY <1>5, <1>6, <2>1, <2>2, <2>3
  <2> QED
    BY <1>6, <2>4 DEF TimelineIInv, ToolsListedInOrder, Tools
<1> QED
  BY <1>6, <1>9, <1>10, <1>11, <1>12, <1>13 DEF TimelineIInv

\* A reply or a media result is saved, and not yet listed.
LEMMA RowSaved ==
  ASSUME TimelineIInv, LoopFree, task # "none", NEW id \in Id,
         NEW kind \in {"assistant", "mediaResult"},
         id \notin Saved \cup Listed \cup reserved \cup lost,
         record' = Inserted(id, kind, turn), unlisted' = id,
         UNCHANGED <<entry, turn, serving, task, reserved, faults, lost>>,
         id \in 1..drawn', drawn <= drawn', drawn' \in 0..MaxRecords,
         live' \in {None, live}, live' # id
  PROVE  TimelineIInv'
<1> USE DEF None
<1>1. /\ TypeOK /\ drawn \in Nat /\ turn \in Nat
      /\ Saved \subseteq Id /\ Listed \subseteq Id /\ 0 \notin Id
      /\ \A other \in Saved : record[other].turn \in Nat
  BY TimelineFacts
<1>2. serving /\ unlisted = 0 /\ turn # 0 /\ turn \in 1..MaxTurns
  BY <1>1, TimelineBoundsAssumption DEF LoopFree, TimelineIInv, SessionInv, TypeOK
<1>3. /\ record' \in [Id -> Record \cup {NoRecord}] /\ Saved' = Saved \cup {id}
      /\ record'[id].type = kind /\ record'[id].turn = turn
      /\ \A other \in Id \ {id} : record'[other] = record[other]
  BY <1>1, <1>2, RowInserted DEF TypeOK
<1>4. /\ entry' = entry /\ turn' = turn /\ serving' = serving /\ task' = task
      /\ reserved' = reserved /\ faults' = faults /\ lost' = lost
  OBVIOUS
<1>5. Listed' = Listed /\ Listed # {}
  BY <1>4 DEF Listed, TimelineIInv, RowsInv, NothingListed
<1>6. TypeOK'
  BY <1>1, <1>3, <1>4 DEF TypeOK
<1>7. TimelineInv'
  <2>1. /\ 0..drawn \subseteq 0..drawn' /\ 1..drawn \subseteq 1..drawn'
        /\ 1..drawn' \subseteq 0..drawn'
    BY <1>1
  <2>2. {unlisted', live'} \cup lost' \subseteq 0..drawn' \ Listed'
    BY <1>1, <1>4, <1>5, <2>1 DEF TimelineIInv, TimelineInv
  <2>3. Saved' \cup reserved' \cup Listed' \subseteq 1..drawn'
    BY <1>3, <1>4, <1>5, <2>1 DEF TimelineIInv, TimelineInv
  <2>4. lost' \subseteq Saved'
    BY <1>3, <1>4 DEF TimelineIInv, TimelineInv
  <2>5. \A a, b \in Listed' : entry'[a] = entry'[b] => a = b
    BY <1>4, <1>5 DEF TimelineIInv, TimelineInv
  <2>6. ~ LoopFree'
    BY <1>1 DEF LoopFree
  <2> QED
    BY <1>1, <1>2, <1>3, <1>4, <1>6, <2>2, <2>3, <2>4, <2>5, <2>6 DEF TimelineInv
<1>8. SessionInv'
  <2>1. live' \notin Saved'
    BY <1>1, <1>3 DEF TimelineIInv, SessionInv
  <2> QED
    BY <1>2, <1>3, <1>4, <1>5, <2>1 DEF TimelineIInv, SessionInv
<1>9. RowsInv'
  <2>1. \A other \in Saved' : record'[other].turn <= turn'
    <3>1. \A other \in Saved : record'[other].turn <= turn
      BY <1>1, <1>3 DEF TimelineIInv, RowsInv
    <3>2. record'[id].turn <= turn
      BY <1>1, <1>3
    <3>3. Saved' = Saved \cup {id} /\ turn' = turn
      BY <1>3, <1>4
    <3> QED
      BY <3>1, <3>2, <3>3, Zenon
  <2>2. \A other \in Saved' : other = id \/ other \in lost =>
           record'[other].type \in {"assistant", "mediaResult"}
    BY <1>1, <1>3 DEF TimelineIInv, RowsInv
  <2>3. Saved' \ (lost' \cup {unlisted'}) \subseteq Listed'
    BY <1>2, <1>3, <1>4, <1>5 DEF TimelineIInv, TimelineInv
  <2>4. record'[id].turn = turn'
    BY <1>3, <1>4
  <2> QED
    BY <1>4, <1>5, <2>1, <2>2, <2>3, <2>4 DEF RowsInv
<1>10. EntriesAreDense'
  BY <1>4, <1>5 DEF TimelineIInv, EntriesAreDense
<1>11. EntriesFollowTurns'
  <2>1. \A a \in Listed \cap (Saved \cup reserved) : TurnOf(a)' = TurnOf(a)
    BY <1>1, <1>3, <1>4 DEF TurnOf
  <2>2. Listed' \cap (Saved' \cup reserved') = Listed \cap (Saved \cup reserved)
    BY <1>3, <1>4, <1>5
  <2> QED
    BY <1>4, <2>1, <2>2 DEF TimelineIInv, EntriesFollowTurns
<1>12. ToolsListedInOrder'
  <2>1. Tools' = Tools
    BY <1>1, <1>3, <1>4, <1>5 DEF Tools
  <2> QED
    BY <1>4, <2>1 DEF TimelineIInv, ToolsListedInOrder
<1> QED
  BY <1>7, <1>8, <1>9, <1>10, <1>11, <1>12 DEF TimelineIInv

\* Those steps.
LEMMA RowSteps ==
  ASSUME TimelineIInv, MessageEnd \/ SaveMediaResult
  PROVE  TimelineIInv'
<1> USE DEF None
<1>1. /\ TypeOK /\ drawn \in Nat /\ 0 \notin Id
  BY TimelineFacts
<1>2. CASE MessageEnd /\ live = None
  <2>1. /\ LoopFree /\ task # "none" /\ CanDraw /\ record' = Inserted(NextId, "assistant", turn)
        /\ unlisted' = NextId /\ drawn' = NextId /\ live' = None
        /\ UNCHANGED <<entry, turn, serving, task, reserved, faults, lost>>
    BY <1>2 DEF MessageEnd
  <2>2. /\ NextId \in Id /\ NextId \in 0..MaxRecords /\ NextId \in 1..NextId /\ drawn <= NextId
        /\ NextId \notin Saved \cup Listed \cup reserved \cup lost
    BY <1>1, <2>1, FreshId
  <2> QED
    BY <1>1, <2>1, <2>2, RowSaved
<1>3. CASE MessageEnd /\ live # None
  <2>1. /\ LoopFree /\ task # "none" /\ record' = Inserted(live, "assistant", turn)
        /\ unlisted' = live /\ drawn' = drawn /\ live' = None
        /\ UNCHANGED <<entry, turn, serving, task, reserved, faults, lost>>
    BY <1>3 DEF MessageEnd
  <2>2. live \in Id /\ live \notin Saved \cup Listed
    BY <1>1, <1>3 DEF TimelineIInv, TimelineInv, SessionInv, TypeOK
  <2>3. live \notin reserved \cup lost
    BY <2>2 DEF TimelineIInv, TimelineInv, SessionInv
  <2>4. live \in 1..drawn' /\ drawn <= drawn' /\ drawn' \in 0..MaxRecords
    <3>1. live \in 0..drawn
      BY DEF TimelineIInv, TimelineInv
    <3> QED
      BY <1>1, <1>3, <2>1, <3>1, TimelineBoundsAssumption DEF TypeOK
  <2> QED
    BY <1>1, <2>1, <2>2, <2>3, <2>4, RowSaved
<1>4. CASE SaveMediaResult
  <2>1. /\ LoopFree /\ task # "none" /\ CanDraw /\ record' = Inserted(NextId, "mediaResult", turn)
        /\ unlisted' = NextId /\ drawn' = NextId /\ live' = live
        /\ UNCHANGED <<entry, turn, serving, task, reserved, faults, lost>>
    BY <1>4 DEF SaveMediaResult, session
  <2>2. /\ NextId \in Id /\ NextId \in 0..MaxRecords /\ NextId \in 1..NextId /\ drawn <= NextId
        /\ NextId \notin Saved \cup Listed \cup reserved \cup lost /\ live # NextId
    BY <1>1, <2>1, FreshId
  <2> QED
    BY <1>1, <2>1, <2>2, RowSaved
<1> QED
  BY <1>2, <1>3, <1>4

\* A saved row gets its entry, behind all others.
LEMMA AppendStep ==
  ASSUME TimelineIInv, AppendTimeline
  PROVE  TimelineIInv'
<1> USE DEF None
<1> DEFINE id == unlisted
<1>1. /\ serving /\ unlisted # 0 /\ entry' = Appended(id) /\ unlisted' = 0
      /\ record' = record /\ turn' = turn /\ serving' = serving /\ task' = task /\ live' = live
      /\ reserved' = reserved /\ drawn' = drawn /\ faults' = faults /\ lost' = lost
  BY DEF AppendTimeline, session
<1>2. /\ TypeOK /\ drawn \in Nat /\ turn \in Nat
      /\ Saved \subseteq Id /\ Listed \subseteq Id /\ 0 \notin Id
      /\ \A other \in Saved : record[other].turn \in Nat
      /\ \A other \in Listed : entry[other] \in Nat
      /\ \A other \in Saved \cup reserved : TurnOf(other) \in Nat /\ TurnOf(other) <= turn
  BY TimelineFacts
<1>3. /\ id \in Id \ Listed /\ id \in Saved /\ id # live
      /\ record[id].turn = turn /\ record[id].type \in {"assistant", "mediaResult"}
  BY <1>1, <1>2 DEF TimelineIInv, TimelineInv, RowsInv, SessionInv
<1>4. id \notin reserved /\ id \notin lost
  BY <1>3 DEF TimelineIInv, SessionInv, RowsInv
<1> HIDE DEF id
<1>5. /\ entry' \in [Id -> 0..MaxRecords] /\ Listed' = Listed \cup {id} /\ EntriesAreDense'
      /\ \A other \in Listed : entry'[other] = entry[other] /\ entry[other] < entry'[id]
      /\ \A a, b \in Listed' : entry'[a] = entry'[b] => a = b
  BY <1>1, <1>2, <1>3, EntryAppended DEF TypeOK, TimelineIInv, TimelineInv
<1>6. Saved' = Saved
  BY <1>1 DEF Saved
<1>7. Listed # {}
  BY <1>1 DEF TimelineIInv, RowsInv, NothingListed
<1>8. Saved \ lost \subseteq Listed'
  BY <1>5, <1>7 DEF TimelineIInv, RowsInv, id
<1>9. TypeOK'
  BY <1>1, <1>2, <1>5 DEF TypeOK
<1>10. TimelineInv'
  <2>1. {unlisted', live'} \cup lost' \subseteq 0..drawn' \ Listed'
    BY <1>1, <1>2, <1>3, <1>4, <1>5 DEF TimelineIInv, TimelineInv
  <2>2. Saved' \cup reserved' \cup Listed' \subseteq 1..drawn'
    BY <1>1, <1>3, <1>5, <1>6 DEF TimelineIInv, TimelineInv
  <2>3. lost' \subseteq Saved'
    BY <1>1, <1>6 DEF TimelineIInv, TimelineInv
  <2>4. task' = "none" => live' = 0 /\ reserved' = {}
    BY <1>1 DEF TimelineIInv, TimelineInv
  <2> QED
    BY <1>1, <1>5, <1>6, <1>8, <1>9, <2>1, <2>2, <2>3, <2>4 DEF TimelineInv
<1>11. SessionInv'
  BY <1>1, <1>4, <1>5, <1>6 DEF TimelineIInv, SessionInv
<1>12. RowsInv'
  <2>1. \A other \in Saved' : record'[other].turn <= turn'
    BY <1>1, <1>6 DEF TimelineIInv, RowsInv
  <2>2. \A other \in Saved' : other \in lost' =>
           record'[other].type \in {"assistant", "mediaResult"}
    BY <1>1, <1>6 DEF TimelineIInv, RowsInv
  <2>3. 0 \notin lost' /\ 0 \notin Saved'
    BY <1>1, <1>2, <1>6 DEF TimelineIInv, TimelineInv
  <2> QED
    BY <1>1, <1>5, <1>6, <1>8, <2>1, <2>2, <2>3 DEF RowsInv
<1>13. EntriesFollowTurns'
  <2>1. \A a \in Saved \cup reserved : TurnOf(a)' = TurnOf(a)
    BY <1>1, <1>6 DEF TurnOf
  <2> SUFFICES ASSUME NEW a \in Listed' \cap (Saved \cup reserved),
                      NEW b \in Listed' \cap (Saved \cup reserved),
                      entry'[a] < entry'[b]
               PROVE  TurnOf(a) <= TurnOf(b)
    BY <1>1, <1>6, <2>1 DEF EntriesFollowTurns
  <2>2. CASE b = id
    BY <1>2, <1>3, <2>2 DEF TurnOf
  <2>3. CASE b # id
    <3>1. b \in Listed
      BY <1>5, <2>3
    <3>2. entry'[b] = entry[b] /\ entry[b] < entry'[id] /\ entry[b] \in Nat /\ entry'[id] \in Nat
      BY <1>2, <1>3, <1>5, <3>1, TimelineBoundsAssumption
    <3>3. a # id
      BY <3>2
    <3>4. a \in Listed /\ entry'[a] = entry[a]
      BY <1>5, <3>3
    <3> QED
      BY <3>1, <3>2, <3>4 DEF TimelineIInv, EntriesFollowTurns
  <2> QED
    BY <2>2, <2>3
<1>14. ToolsListedInOrder'
  <2>1. Tools' = Tools
    BY <1>1, <1>3, <1>4, <1>5 DEF Tools
  <2> QED
    BY <1>5, <2>1 DEF TimelineIInv, ToolsListedInOrder, Tools
<1> QED
  BY <1>5, <1>10, <1>11, <1>12, <1>13, <1>14 DEF TimelineIInv

-----------------------------------------------------------------------------
\* A tool call is listed when it starts, behind everything.
LEMMA ToolStartStep ==
  ASSUME TimelineIInv, ToolExecutionStart
  PROVE  TimelineIInv'
<1> USE DEF None
<1> DEFINE id == NextId
<1>1. /\ CanDraw /\ serving /\ unlisted = 0 /\ task = "running"
      /\ reserved' = reserved \cup {id} /\ entry' = Appended(id) /\ drawn' = id
      /\ record' = record /\ turn' = turn /\ unlisted' = unlisted /\ serving' = serving
      /\ task' = task /\ live' = live /\ faults' = faults /\ lost' = lost
  BY DEF ToolExecutionStart, LoopFree
<1>2. /\ id \in Id /\ id \in 0..MaxRecords /\ id = drawn + 1
      /\ id \notin Saved \cup Listed \cup reserved \cup lost \cup {unlisted, live}
  BY <1>1, FreshId
<1> HIDE DEF id
<1>3. /\ TypeOK /\ drawn \in Nat /\ turn \in Nat
      /\ Saved \subseteq Id /\ Listed \subseteq Id /\ 0 \notin Id
      /\ \A other \in Listed : entry[other] \in Nat
      /\ \A other \in Saved \cup reserved : TurnOf(other) \in Nat /\ TurnOf(other) <= turn
  BY TimelineFacts
<1>4. /\ entry' \in [Id -> 0..MaxRecords] /\ Listed' = Listed \cup {id} /\ EntriesAreDense'
      /\ \A other \in Listed : entry'[other] = entry[other] /\ entry[other] < entry'[id]
      /\ \A a, b \in Listed' : entry'[a] = entry'[b] => a = b
  BY <1>1, <1>2, <1>3, EntryAppended DEF TypeOK, TimelineIInv, TimelineInv
<1>5. Saved' = Saved
  BY <1>1 DEF Saved
<1>6. TypeOK'
  BY <1>1, <1>2, <1>3, <1>4 DEF TypeOK
<1>7. Saved \ lost \subseteq Listed
  BY <1>1 DEF LoopFree, TimelineIInv, TimelineInv
<1>8. TimelineInv'
  <2>1. 0..drawn \subseteq 0..id /\ 1..drawn \subseteq 1..id /\ id \in 1..id
    BY <1>2, <1>3
  <2>2. {0, live'} \cup lost \subseteq 0..id \ Listed'
    BY <1>1, <1>2, <1>3, <1>4, <2>1 DEF TimelineIInv, TimelineInv
  <2>3. Saved' \cup reserved' \cup Listed' \subseteq 1..id
    BY <1>1, <1>4, <1>5, <2>1 DEF TimelineIInv, TimelineInv
  <2>4. lost' \subseteq Saved'
    BY <1>1, <1>5 DEF TimelineIInv, TimelineInv
  <2> QED
    BY <1>1, <1>4, <1>5, <1>6, <1>7, <2>2, <2>3, <2>4 DEF TimelineInv
<1>9. SessionInv'
  BY <1>1, <1>2, <1>4, <1>5 DEF TimelineIInv, SessionInv
<1>10. RowsInv'
  <2>1. \A other \in Saved' : record'[other].turn <= turn'
    BY <1>1, <1>5 DEF TimelineIInv, RowsInv
  <2>2. \A other \in Saved' : other \in lost' =>
           record'[other].type \in {"assistant", "mediaResult"}
    BY <1>1, <1>5 DEF TimelineIInv, RowsInv
  <2>3. 0 \notin lost' /\ 0 \notin Saved'
    BY <1>1, <1>3, <1>5 DEF TimelineIInv, TimelineInv
  <2> QED
    BY <1>1, <1>4, <1>5, <1>7, <2>1, <2>2, <2>3 DEF RowsInv
<1>11. \A a \in Saved \cup reserved : TurnOf(a)' = TurnOf(a)
  BY <1>1, <1>5 DEF TurnOf
<1>12. \A other \in Id : other = id => TurnOf(other)' = turn
  BY <1>1, <1>2, <1>5 DEF TurnOf
<1>13. EntriesFollowTurns'
  <2> SUFFICES ASSUME NEW a \in Listed' \cap (Saved' \cup reserved'),
                      NEW b \in Listed' \cap (Saved' \cup reserved'),
                      entry'[a] < entry'[b]
               PROVE  TurnOf(a)' <= TurnOf(b)'
    BY DEF EntriesFollowTurns
  <2>1. CASE b = id
    <3>1. TurnOf(b)' = turn
      BY <1>2, <1>12, <2>1
    <3>2. a # id => TurnOf(a)' = TurnOf(a) /\ TurnOf(a) <= turn
      BY <1>1, <1>3, <1>5, <1>11
    <3>3. a = id => TurnOf(a)' = turn
      BY <1>2, <1>12
    <3> QED
      BY <1>3, <3>1, <3>2, <3>3
  <2>2. CASE b # id
    <3>1. b \in Listed \cap (Saved \cup reserved)
      BY <1>1, <1>4, <1>5, <2>2
    <3>2. entry'[b] = entry[b] /\ entry[b] < entry'[id] /\ entry[b] \in Nat /\ entry'[id] \in Nat
      BY <1>2, <1>3, <1>4, <3>1, TimelineBoundsAssumption
    <3>3. a # id
      BY <3>2
    <3>4. a \in Listed \cap (Saved \cup reserved) /\ entry'[a] = entry[a]
      BY <1>1, <1>4, <1>5, <3>3
    <3>5. TurnOf(a) <= TurnOf(b)
      BY <3>1, <3>2, <3>4 DEF TimelineIInv, EntriesFollowTurns
    <3> QED
      BY <1>11, <3>1, <3>4, <3>5
  <2> QED
    BY <2>1, <2>2
<1>14. ToolsListedInOrder'
  <2>1. Tools' \subseteq Tools \cup {id}
    BY <1>1, <1>4 DEF Tools
  <2>2. \A a \in Tools : a \in Listed /\ a \in 1..drawn
    BY DEF Tools, TimelineIInv, TimelineInv
  <2>3. \A a \in Tools : a < id
    BY <1>2, <1>3, <2>2
  <2>4. ASSUME NEW a \in Tools \cup {id}, NEW b \in Tools \cup {id}, a < b
        PROVE  entry'[a] < entry'[b]
    <3>1. a \in Tools
      BY <1>2, <1>3, <2>2, <2>3, <2>4
    <3>2. CASE b = id
      BY <1>4, <2>2, <3>1, <3>2
    <3>3. CASE b \in Tools
      BY <1>4, <2>2, <2>4, <3>1, <3>3 DEF TimelineIInv, ToolsListedInOrder
    <3> QED
      BY <3>2, <3>3
  <2> QED
    BY <2>1, <2>4 DEF ToolsListedInOrder
<1> QED
  BY <1>4, <1>8, <1>9, <1>10, <1>13, <1>14 DEF TimelineIInv

\* A tool call that has started has its place already.
LEMMA ToolEndStep ==
  ASSUME TimelineIInv, NEW id \in reserved, ToolExecutionEnd(id)
  PROVE  TimelineIInv'
<1> USE DEF None
<1>1. /\ TypeOK /\ drawn \in Nat /\ turn \in Nat
      /\ Saved \subseteq Id /\ Listed \subseteq Id /\ 0 \notin Id
      /\ \A other \in Saved : record[other].turn \in Nat
  BY TimelineFacts
<1>2. id \in Listed /\ id \notin Saved /\ id \in Id
  BY <1>1 DEF TimelineIInv, SessionInv
<1>3. /\ serving /\ unlisted = 0 /\ task = "running"
      /\ reserved' = reserved \ {id} /\ record' = Inserted(id, "toolCall", turn) /\ entry' = entry
      /\ turn' = turn /\ unlisted' = unlisted /\ serving' = serving
      /\ task' = task /\ live' = live /\ faults' = faults /\ lost' = lost /\ drawn' = drawn
  BY <1>2 DEF ToolExecutionEnd, LoopFree
<1>4. turn \in 1..MaxTurns
  BY <1>1, <1>3, TimelineBoundsAssumption DEF TimelineIInv, SessionInv, TypeOK
<1>5. /\ record' \in [Id -> Record \cup {NoRecord}] /\ Saved' = Saved \cup {id}
      /\ record'[id].type = "toolCall" /\ record'[id].turn = turn
      /\ \A other \in Id \ {id} : record'[other] = record[other]
  BY <1>1, <1>2, <1>3, <1>4, RowInserted DEF TypeOK
<1>6. Listed' = Listed
  BY <1>3 DEF Listed
<1>7. TypeOK'
  BY <1>1, <1>3, <1>5 DEF TypeOK
<1>8. id \notin lost /\ id # live
  BY <1>2 DEF TimelineIInv, TimelineInv
<1>9. Saved' \ lost \subseteq Listed
  BY <1>2, <1>3, <1>5 DEF TimelineIInv, TimelineInv, LoopFree
<1>10. TimelineInv'
  <2>1. {unlisted', live'} \cup lost' \subseteq 0..drawn' \ Listed'
    BY <1>3, <1>6 DEF TimelineIInv, TimelineInv
  <2>2. Saved' \cup reserved' \cup Listed' \subseteq 1..drawn'
    BY <1>2, <1>3, <1>5, <1>6 DEF TimelineIInv, TimelineInv
  <2>3. lost' \subseteq Saved'
    BY <1>3, <1>5 DEF TimelineIInv, TimelineInv
  <2>4. \A a, b \in Listed' : entry'[a] = entry'[b] => a = b
    BY <1>3, <1>6 DEF TimelineIInv, TimelineInv
  <2> QED
    BY <1>3, <1>6, <1>7, <1>9, <2>1, <2>2, <2>3, <2>4 DEF TimelineInv
<1>11. SessionInv'
  BY <1>3, <1>5, <1>6, <1>8 DEF TimelineIInv, SessionInv
<1>12. RowsInv'
  <2>1. \A other \in Saved' : record'[other].turn <= turn'
    BY <1>1, <1>3, <1>5 DEF TimelineIInv, RowsInv
  <2>2. \A other \in Saved' : other \in lost' =>
           record'[other].type \in {"assistant", "mediaResult"}
    BY <1>1, <1>3, <1>5, <1>8 DEF TimelineIInv, RowsInv
  <2>3. 0 \notin lost' /\ 0 \notin Saved'
    BY <1>1, <1>2, <1>3, <1>5 DEF TimelineIInv, TimelineInv
  <2> QED
    BY <1>2, <1>3, <1>6, <1>9, <2>1, <2>2, <2>3 DEF RowsInv
<1>13. EntriesFollowTurns'
  <2>1. Saved' \cup reserved' = Saved \cup reserved
    BY <1>3, <1>5
  <2>2. \A a \in Saved \cup reserved : TurnOf(a)' = TurnOf(a)
    BY <1>1, <1>2, <1>3, <1>5 DEF TurnOf
  <2> QED
    BY <1>3, <1>6, <2>1, <2>2 DEF TimelineIInv, EntriesFollowTurns
<1>14. ToolsListedInOrder'
  <2>1. Tools' = Tools
    BY <1>1, <1>2, <1>3, <1>5, <1>6 DEF Tools
  <2> QED
    BY <1>3, <2>1 DEF TimelineIInv, ToolsListedInOrder
<1>15. EntriesAreDense'
  BY <1>3, <1>6 DEF TimelineIInv, EntriesAreDense
<1> QED
  BY <1>10, <1>11, <1>12, <1>13, <1>14, <1>15 DEF TimelineIInv

-----------------------------------------------------------------------------
\* Every step keeps the invariant.
LEMMA TimelineStep == TimelineIInv /\ [Next]_vars => TimelineIInv'
<1> SUFFICES ASSUME TimelineIInv, [Next]_vars PROVE TimelineIInv'
  OBVIOUS
<1>1. CASE UNCHANGED vars
  BY <1>1
     DEF vars, tables, session, TimelineIInv, TimelineInv, TypeOK, SessionInv, RowsInv,
         NothingListed, EntriesAreDense, EntriesFollowTurns, ToolsListedInOrder, Tools, TurnOf,
         OfType, Saved, Listed, LoopFree
<1>2. CASE Open
  BY <1>2, BackfillStep, SessionSteps
<1>3. CASE StartTurn
  BY <1>3, StartTurnStep
<1>4. CASE AppendTimeline
  BY <1>4, AppendStep
<1>5. CASE MessageUpdate \/ Settle \/ TaskEnds \/ Stop
  BY <1>5, SessionSteps
<1>6. CASE MessageEnd \/ SaveMediaResult
  BY <1>6, RowSteps
<1>7. CASE ToolExecutionStart
  BY <1>7, ToolStartStep
<1>8. ASSUME NEW id \in reserved, ToolExecutionEnd(id)
      PROVE  TimelineIInv'
  BY <1>8, ToolEndStep
<1>9. CASE Crash
  BY <1>9, CrashStep
<1> QED
  BY <1>1, <1>2, <1>3, <1>4, <1>5, <1>6, <1>7, <1>8, <1>9 DEF Next

\* So it is an invariant.
LEMMA TimelineInvariant == Spec => []TimelineIInv
  BY InitTimeline, TimelineStep, PTL DEF Spec

(* No row that was saved is missing from the timeline, or stands in it     *)
(* twice, unless a crash came between its two statements.                  *)
THEOREM TimelineCorrect == Spec => []TimelineInv
<1>1. TimelineIInv => TimelineInv
  BY DEF TimelineIInv
<1> QED
  BY <1>1, TimelineInvariant, PTL

(* The timeline follows the turns, after every backfill and whatever is    *)
(* saved late.                                                             *)
THEOREM TurnsStayTogether == Spec => []TimelineFollowsTurns
<1>1. TimelineIInv => TimelineFollowsTurns
  BY DEF TimelineIInv, EntriesFollowTurns, TimelineFollowsTurns, TurnOf
<1> QED
  BY <1>1, TimelineInvariant, PTL

-----------------------------------------------------------------------------
(* The thread.                                                             *)

\* What is shown of a row: listed rows by position, then the row that is next.
LEMMA RowsShown ==
  ASSUME TimelineIInv, NEW id \in Saved
  PROVE  /\ id # live
         /\ id \in Listed => Part(id) = 1 /\ Position(id) = entry[id]
         /\ id = unlisted => Part(id) = 1 /\ Position(id) = MaxRecords + 1
         /\ serving => id \in Listed \/ id = unlisted \/ id \in lost
         /\ id \in lost => id # unlisted /\ Part(id) \in {3, 5} /\ Position(id) = id
<1>1. id # live /\ id \in Id
  BY DEF TimelineIInv, SessionInv, Saved
<1>2. id \in Listed => Part(id) = 1 /\ Position(id) = entry[id]
  BY DEF Part, Position, Listed
<1>3. id = unlisted => Part(id) = 1 /\ Position(id) = MaxRecords + 1
  <2>1. id = unlisted => id \notin Listed
    BY DEF TimelineIInv, TimelineInv
  <2> QED
    BY <1>1, <2>1 DEF Part, Position, Listed
<1>4. serving => id \in Listed \/ id = unlisted \/ id \in lost
  BY DEF TimelineIInv, TimelineInv, RowsInv, NothingListed, LoopFree
<1>5. id \in lost => id # unlisted /\ Part(id) \in {3, 5} /\ Position(id) = id
  <2> SUFFICES ASSUME id \in lost
               PROVE  id # unlisted /\ Part(id) \in {3, 5} /\ Position(id) = id
    OBVIOUS
  <2>1. id # unlisted /\ entry[id] = 0 /\ record[id].type \in {"assistant", "mediaResult"}
    BY <1>1 DEF TimelineIInv, TimelineInv, RowsInv, Listed
  <2>2. ~ Streamed(id)
    BY <1>1 DEF Streamed
  <2> QED
    BY <2>1, <2>2 DEF Part, Position
<1> QED
  BY <1>1, <1>2, <1>3, <1>4, <1>5

(* Tool calls are shown in the order in which they started, in every       *)
(* snapshot and after every restart.                                       *)
THEOREM ToolsAreInStartOrder == Spec => []ToolsInStartOrder
<1>1. ASSUME TimelineIInv, serving,
             NEW a \in {id \in Saved : record[id].type = "toolCall"},
             NEW b \in {id \in Saved : record[id].type = "toolCall"}
      PROVE  ShownBefore(a, b) <=> a < b
  <2>1. a \in Listed /\ b \in Listed
    BY <1>1, RowsShown DEF TimelineIInv, RowsInv
  <2>2. ShownBefore(a, b) <=> entry[a] < entry[b]
    BY <1>1, <2>1, RowsShown DEF ShownBefore
  <2>3. a \in Tools /\ b \in Tools
    BY <1>1, <2>1 DEF Tools
  <2>4. /\ a < b => entry[a] < entry[b]
        /\ b < a => entry[b] < entry[a]
    BY <1>1, <2>3 DEF TimelineIInv, ToolsListedInOrder
  <2>5. a \in Nat /\ b \in Nat /\ entry[a] \in Nat /\ entry[b] \in Nat
    BY <1>1, <2>1, TimelineFacts, IdsAreFinite
  <2> QED
    BY <2>2, <2>4, <2>5
<1>2. TimelineIInv => ToolsInStartOrder
  BY <1>1 DEF ToolsInStartOrder
<1> QED
  BY <1>2, TimelineInvariant, PTL

\* What is shown is a row, or the message being streamed.
LEMMA ThreadShown ==
  ASSUME TimelineIInv, NEW id \in Thread
  PROVE  id \in Saved \/ (id = live /\ task = "running" /\ Part(id) = 2 /\ Position(id) = id)
<1>1. CASE id \in Saved
  BY <1>1
<1>2. CASE id \notin Saved
  <2>1. id \in Id /\ Streamed(id)
    BY <1>2 DEF Thread
  <2>2. entry[id] = 0 /\ id # unlisted
    BY <1>2, <2>1, IdsAreFinite DEF TimelineIInv, TimelineInv, Listed, Streamed, None
  <2> QED
    BY <2>1, <2>2 DEF Streamed, Part, Position
<1> QED
  BY <1>1, <1>2

\* Where nothing that is shown moves, the thread stays as it is.
LEMMA NothingMoves ==
  ASSUME \A id \in Thread : Kept(id) =>
            id \in Thread' /\ Part(id)' = Part(id) /\ Position(id)' = Position(id)
  PROVE  ThreadGrows
  BY DEF ThreadGrows, ShownBefore

\* A row's place does not change where its entry and its record do not.
LEMMA RowStays ==
  ASSUME TimelineIInv, TimelineIInv', NEW id \in Saved, id \in Saved',
         record'[id] = record[id], entry'[id] = entry[id],
         id = unlisted <=> id = unlisted'
  PROVE  id \in Thread' /\ Part(id)' = Part(id) /\ Position(id)' = Position(id)
<1>1. id # live /\ id # live'
  BY DEF TimelineIInv, SessionInv
<1>2. Position(id)' = Position(id)
  BY DEF Position
<1>3. Part(id)' = Part(id)
  BY <1>1 DEF Part, Streamed
<1>4. id \in Thread'
  BY DEF Thread, Saved
<1> QED
  BY <1>2, <1>3, <1>4

\* The same for the message being streamed.
LEMMA StreamStays ==
  ASSUME TimelineIInv, NEW id \in Thread, id \notin Saved,
         record'[id] = record[id], entry'[id] = entry[id], live' = live, task' = task,
         unlisted' # id
  PROVE  id \in Thread' /\ Part(id)' = Part(id) /\ Position(id)' = Position(id)
<1>1. id \in Id /\ id = live /\ task = "running" /\ Part(id) = 2 /\ Position(id) = id
  BY ThreadShown DEF Thread
<1>2. entry[id] = 0
  BY <1>1 DEF TimelineIInv, TimelineInv, Listed
<1>3. Streamed(id)'
  BY <1>1 DEF Streamed
<1>4. Part(id)' = 2
  BY <1>2, <1>3 DEF Part
<1>5. Position(id)' = id
  BY <1>2 DEF Position
<1>6. id \in Thread'
  BY <1>1, <1>3 DEF Thread
<1> QED
  BY <1>1, <1>4, <1>5, <1>6

\* Steps at which nothing that stays moves.
LEMMA ThreadStays ==
  ASSUME TimelineIInv, TimelineIInv',
         \A id \in Saved : Kept(id) =>
            /\ id \in Saved' /\ record'[id] = record[id] /\ entry'[id] = entry[id]
            /\ id = unlisted <=> id = unlisted',
         live # None /\ task = "running" /\ task' = "running" =>
            /\ live' = live /\ unlisted' # live
            /\ record'[live] = record[live] /\ entry'[live] = entry[live]
  PROVE  ThreadGrows
<1> SUFFICES ASSUME NEW id \in Thread, Kept(id)
             PROVE  id \in Thread' /\ Part(id)' = Part(id) /\ Position(id)' = Position(id)
  BY NothingMoves
<1>1. CASE id \in Saved
  BY <1>1, RowStays
<1>2. CASE id \notin Saved
  <2>1. id \in Id /\ id # None /\ id = live /\ task = "running"
    BY <1>2, ThreadShown, IdsAreFinite DEF Thread, None
  <2>2. task' = "running"
    BY <1>2 DEF Kept
  <2> QED
    BY <1>2, <2>1, <2>2, StreamStays
<1> QED
  BY <1>1, <1>2

\* Where one record moves, its order with the others must not change.
LEMMA OneMoves ==
  ASSUME NEW m \in Thread, m \in Thread', ~ ShownBefore(m, m), ~ ShownBefore(m, m)',
         \A id \in Thread \ {m} : Kept(id) =>
            /\ id \in Thread' /\ Part(id)' = Part(id) /\ Position(id)' = Position(id)
            /\ ShownBefore(id, m) <=> ShownBefore(id, m)'
            /\ ShownBefore(m, id) <=> ShownBefore(m, id)'
  PROVE  ThreadGrows
<1> DEFINE kept == {id \in Thread : Kept(id)}
<1>1. ThreadGrows <=> /\ kept \subseteq Thread'
                      /\ \A a, b \in kept : ShownBefore(a, b) <=> ShownBefore(a, b)'
  BY DEF ThreadGrows
<1>2. kept \subseteq Thread'
  OBVIOUS
<1>3. ASSUME NEW a \in kept, NEW b \in kept
      PROVE  ShownBefore(a, b) <=> ShownBefore(a, b)'
  <2>1. CASE a = m /\ b = m
    BY <2>1
  <2>2. CASE a = m /\ b # m
    BY <2>2
  <2>3. CASE a # m /\ b = m
    BY <2>3
  <2>4. CASE a # m /\ b # m
    <3>1. /\ Part(a)' = Part(a) /\ Position(a)' = Position(a)
          /\ Part(b)' = Part(b) /\ Position(b)' = Position(b)
      BY <2>4
    <3> QED
      BY <3>1 DEF ShownBefore
  <2> QED
    BY <2>1, <2>2, <2>3, <2>4
<1> QED
  BY <1>1, <1>2, <1>3

\* The row that gets its entry stays the last of the listed ones.
LEMMA AppendKeepsThread ==
  ASSUME TimelineIInv, TimelineIInv', AppendTimeline
  PROVE  ThreadGrows
<1> USE DEF None
<1>1. /\ serving /\ unlisted # 0 /\ entry' = Appended(unlisted) /\ unlisted' = 0
      /\ record' = record /\ task' = task /\ live' = live
  BY DEF AppendTimeline, session
<1>2. PICK m \in Id : m = unlisted
  BY <1>1 DEF TimelineIInv, TimelineInv, TypeOK
<1>3. /\ TypeOK /\ Listed \subseteq Id /\ 0 \notin Id
      /\ m \in Saved /\ m \notin Listed /\ m # live
  BY <1>1, <1>2, TimelineFacts DEF TimelineIInv, TimelineInv, SessionInv
<1>4. /\ entry' \in [Id -> 0..MaxRecords] /\ Listed' = Listed \cup {m}
      /\ \A other \in Listed : entry'[other] = entry[other] /\ entry[other] < entry'[m]
  BY <1>1, <1>2, <1>3, EntryAppended DEF TypeOK, TimelineIInv
<1>5. \A other \in Id \ {m} : entry'[other] = entry[other]
  BY <1>1, <1>2, <1>3 DEF Appended, TypeOK
<1>6. Part(m) = 1 /\ Position(m) = MaxRecords + 1
  BY <1>2, <1>3, RowsShown
<1>7. /\ m \in Saved' /\ m \in Listed'
      /\ Part(m)' = 1 /\ Position(m)' = entry'[m]
  <2>1. m \in Saved' /\ m \in Listed'
    BY <1>1, <1>3, <1>4 DEF Saved
  <2> QED
    BY <2>1 DEF Part, Position, Listed
<1>8. entry'[m] \in Nat /\ MaxRecords + 1 \in Nat
  BY <1>4, TimelineBoundsAssumption
<1>9. ASSUME NEW id \in Thread, id # m
      PROVE  /\ id \in Thread' /\ Part(id)' = Part(id) /\ Position(id)' = Position(id)
             /\ ShownBefore(id, m) <=> ShownBefore(id, m)'
             /\ ShownBefore(m, id) <=> ShownBefore(m, id)'
  <2>1. id \in Id /\ id # 0
    BY <1>3 DEF Thread
  <2>2. record'[id] = record[id] /\ entry'[id] = entry[id]
    BY <1>1, <1>5, <1>9, <2>1
  <2>3. id \in Thread' /\ Part(id)' = Part(id) /\ Position(id)' = Position(id)
    <3>1. CASE id \in Saved
      <4>1. id \in Saved'
        BY <1>1, <3>1 DEF Saved
      <4> QED
        BY <1>1, <1>2, <1>9, <2>1, <2>2, <3>1, <4>1, RowStays
    <3>2. CASE id \notin Saved
      BY <1>1, <2>1, <2>2, <3>2, StreamStays
    <3> QED
      BY <3>1, <3>2
  <2>4. CASE id \in Listed
    <3>1. Part(id) = 1 /\ Position(id) = entry[id]
      BY <2>4 DEF Part, Position, Listed
    <3>2. entry[id] \in Nat /\ entry[id] <= MaxRecords /\ entry[id] < entry'[m]
      BY <1>3, <1>4, <2>4, TimelineBoundsAssumption DEF TypeOK
    <3>3. ShownBefore(id, m) /\ ~ ShownBefore(m, id)
      BY <1>6, <1>8, <3>1, <3>2, TimelineBoundsAssumption DEF ShownBefore
    <3>4. ShownBefore(id, m)' /\ ~ ShownBefore(m, id)'
      BY <1>7, <1>8, <2>3, <3>1, <3>2 DEF ShownBefore
    <3> QED
      BY <2>3, <3>3, <3>4
  <2>5. CASE id \notin Listed
    <3>1. Part(id) \in {2, 3, 4, 5}
      BY <1>2, <1>9, <2>1, <2>5 DEF Part, Listed
    <3>2. ~ ShownBefore(id, m) /\ ShownBefore(m, id)
      BY <1>6, <3>1 DEF ShownBefore
    <3>3. ~ ShownBefore(id, m)' /\ ShownBefore(m, id)'
      BY <1>7, <2>3, <3>1 DEF ShownBefore
    <3> QED
      BY <2>3, <3>2, <3>3
  <2> QED
    BY <2>4, <2>5
<1>10. m \in Thread /\ m \in Thread' /\ ~ ShownBefore(m, m) /\ ~ ShownBefore(m, m)'
  BY <1>3, <1>6, <1>7, <1>8 DEF Thread, ShownBefore
<1> QED
  BY <1>9, <1>10, OneMoves

\* The streamed message becomes the last row.
LEMMA MessageEndKeepsThread ==
  ASSUME TimelineIInv, TimelineIInv', MessageEnd, live # None
  PROVE  ThreadGrows
<1> USE DEF None
<1>1. /\ serving /\ unlisted = 0 /\ task = "running" /\ record' = Inserted(live, "assistant", turn)
      /\ unlisted' = live /\ live' = 0 /\ entry' = entry /\ task' = task
  BY DEF MessageEnd, LoopFree
<1>2. PICK m \in Id : m = live
  BY DEF TimelineIInv, TimelineInv, TypeOK
<1>3. /\ TypeOK /\ Listed \subseteq Id /\ Saved \subseteq Id /\ 0 \notin Id
      /\ m \notin Saved /\ m \notin Listed
  BY <1>2, TimelineFacts DEF TimelineIInv, TimelineInv, SessionInv
<1>4. \A other \in Id \ {m} : record'[other] = record[other]
  BY <1>1, <1>2, <1>3 DEF Inserted, TypeOK
<1>5. m \in Thread /\ Part(m) = 2 /\ Position(m) = m
  <2>1. m \in Thread
    BY <1>1, <1>2 DEF Thread, Streamed
  <2> QED
    BY <1>3, <2>1, ThreadShown
<1>6. m \in Thread' /\ Part(m)' = 1 /\ Position(m)' = MaxRecords + 1
  <2>1. m = unlisted' /\ entry'[m] = 0
    BY <1>1, <1>2, <1>3 DEF Listed
  <2>2. m \in Saved'
    BY <1>1, <2>1 DEF TimelineIInv, TimelineInv
  <2> QED
    BY <2>1, <2>2 DEF Part, Position, Thread
<1>7. ASSUME NEW id \in Thread, id # m
      PROVE  /\ id \in Thread' /\ Part(id)' = Part(id) /\ Position(id)' = Position(id)
             /\ ShownBefore(id, m) <=> ShownBefore(id, m)'
             /\ ShownBefore(m, id) <=> ShownBefore(m, id)'
  <2>1. id \in Id /\ id # 0 /\ id \in Saved
    BY <1>2, <1>3, <1>7, ThreadShown DEF Thread
  <2>2. record'[id] = record[id] /\ entry'[id] = entry[id] /\ id \in Saved'
    BY <1>1, <1>4, <1>7, <2>1 DEF Saved
  <2>3. id \in Thread' /\ Part(id)' = Part(id) /\ Position(id)' = Position(id)
    BY <1>1, <1>2, <1>7, <2>1, <2>2, RowStays
  <2>4. id \in Listed \/ id \in lost
    BY <1>1, <2>1, RowsShown
  <2>5. CASE id \in Listed
    <3>1. Part(id) = 1 /\ Position(id) = entry[id]
      BY <2>5 DEF Part, Position, Listed
    <3>2. entry[id] \in Nat /\ entry[id] <= MaxRecords
      BY <1>3, <2>5, TimelineBoundsAssumption DEF TypeOK
    <3>3. ShownBefore(id, m) /\ ~ ShownBefore(m, id)
      BY <1>5, <3>1 DEF ShownBefore
    <3>4. ShownBefore(id, m)' /\ ~ ShownBefore(m, id)'
      BY <1>6, <2>3, <3>1, <3>2, TimelineBoundsAssumption DEF ShownBefore
    <3> QED
      BY <2>3, <3>3, <3>4
  <2>6. CASE id \in lost
    <3>1. Part(id) \in {3, 5}
      BY <2>1, <2>6, RowsShown
    <3>2. ~ ShownBefore(id, m) /\ ShownBefore(m, id)
      BY <1>5, <3>1 DEF ShownBefore
    <3>3. ~ ShownBefore(id, m)' /\ ShownBefore(m, id)'
      BY <1>6, <2>3, <3>1 DEF ShownBefore
    <3> QED
      BY <2>3, <3>2, <3>3
  <2> QED
    BY <2>4, <2>5, <2>6
<1>8. ~ ShownBefore(m, m) /\ ~ ShownBefore(m, m)'
  BY <1>3, <1>5, <1>6, IdsAreFinite, TimelineBoundsAssumption DEF ShownBefore
<1> QED
  BY <1>5, <1>6, <1>7, <1>8, OneMoves

\* Steps that change neither a row nor an entry that is shown.
LEMMA OthersKeepThread ==
  ASSUME TimelineIInv, TimelineIInv',
         \/ StartTurn \/ MessageUpdate \/ ToolExecutionStart \/ SaveMediaResult
         \/ MessageEnd /\ live = None
         \/ Settle \/ TaskEnds \/ Stop \/ Crash
  PROVE  ThreadGrows
<1> USE DEF None
<1>1. /\ TypeOK /\ Saved \subseteq Id /\ 0 \notin Id
      /\ unlisted # 0 => unlisted \in Saved
      /\ live # 0 => live \in Id
      /\ record \in [Id -> Record \cup {NoRecord}] /\ entry \in [Id -> 0..MaxRecords]
      /\ task = "none" => live = 0
  BY TimelineFacts DEF TimelineIInv, TimelineInv, TypeOK
<1>2. CASE UNCHANGED tables /\ (Settle \/ TaskEnds \/ Stop)
  <2>1. record' = record /\ entry' = entry /\ unlisted' = unlisted /\ Saved' = Saved
    BY <1>2 DEF Settle, TaskEnds, Stop, tables, Saved
  <2>2. task' # "running" \/ live = 0
    BY <1>1, <1>2 DEF Settle, TaskEnds, Stop
  <2> QED
    BY <2>1, <2>2, ThreadStays
<1>3. CASE Crash
  <2>1. record' = record /\ entry' = entry /\ unlisted' = 0 /\ Saved' = Saved /\ task' = "none"
        /\ serving' = FALSE
    BY <1>3 DEF Crash, tables, Saved
  <2>2. \A id \in Saved : Kept(id) => id # unlisted
    BY <2>1 DEF Kept
  <2> QED
    BY <1>1, <2>1, <2>2, ThreadStays
<1>4. CASE MessageUpdate
  <2>1. record' = record /\ entry' = entry /\ unlisted' = unlisted /\ Saved' = Saved /\ live = 0
    BY <1>4 DEF MessageUpdate, tables, Saved
  <2> QED
    BY <2>1, ThreadStays
<1>5. CASE StartTurn \/ ToolExecutionStart \/ SaveMediaResult \/ (MessageEnd /\ live = 0)
  <2>1. CanDraw
    BY <1>5 DEF StartTurn, ToolExecutionStart, SaveMediaResult, MessageEnd
  <2>2. PICK new \in Id : new = NextId
    BY <2>1, FreshId
  <2>3. new \notin Saved /\ new # live
    BY <2>1, <2>2, FreshId
  <2>4. \A id \in Id \ {new} : record'[id] = record[id] /\ entry'[id] = entry[id]
    BY <1>1, <1>5, <2>2
       DEF StartTurn, ToolExecutionStart, SaveMediaResult, MessageEnd, Inserted, Appended, tables
  <2>5. unlisted = 0 /\ unlisted' \in {0, new}
    BY <1>5, <2>2 DEF StartTurn, ToolExecutionStart, SaveMediaResult, MessageEnd, LoopFree
  <2>6. live # 0 => live' = live
    BY <1>5 DEF StartTurn, ToolExecutionStart, SaveMediaResult, MessageEnd, session
  <2>7. ASSUME NEW id \in Saved
        PROVE  /\ id \in Saved' /\ record'[id] = record[id] /\ entry'[id] = entry[id]
               /\ id = unlisted <=> id = unlisted'
    BY <1>1, <2>3, <2>4, <2>5 DEF Saved
  <2>8. live # 0 => /\ live' = live /\ unlisted' # live
                    /\ record'[live] = record[live] /\ entry'[live] = entry[live]
    BY <1>1, <2>3, <2>4, <2>5, <2>6
  <2> QED
    BY <2>7, <2>8, ThreadStays
<1>6. Settle \/ TaskEnds \/ Stop => UNCHANGED tables
  BY DEF Settle, TaskEnds, Stop
<1> QED
  BY <1>2, <1>3, <1>4, <1>5, <1>6

\* A call that has started is shown once it has a row.
LEMMA ToolEndKeepsThread ==
  ASSUME TimelineIInv, TimelineIInv', NEW new \in reserved, ToolExecutionEnd(new)
  PROVE  ThreadGrows
<1>1. TypeOK /\ new \in Id /\ new \in Listed /\ new \notin Saved /\ new # live
  BY DEF TimelineIInv, TimelineInv, SessionInv, Listed
<1>2. /\ record' = Inserted(new, "toolCall", turn) /\ entry' = entry /\ unlisted' = unlisted
      /\ live' = live /\ task' = task /\ unlisted = None
  BY <1>1 DEF ToolExecutionEnd, LoopFree
<1>3. \A id \in Id \ {new} : record'[id] = record[id]
  BY <1>1, <1>2 DEF Inserted, TypeOK
<1>4. \A id \in Saved : id \in Saved' /\ record'[id] = record[id]
  BY <1>1, <1>3 DEF Saved
<1>5. live # None => live \in Id
  BY <1>1 DEF TypeOK
<1> QED
  BY <1>1, <1>2, <1>3, <1>4, <1>5, ThreadStays

(* What a snapshot has shown, later ones show in the same order, through   *)
(* every append, end of a message and crash.                               *)
THEOREM ThreadsAgree == Spec => SnapshotsAgree
<1>1. ASSUME TimelineIInv, TimelineIInv', [Next]_vars, serving
      PROVE  ThreadGrows \/ UNCHANGED vars
  <2>1. ~ Open
    BY <1>1 DEF Open
  <2>2. CASE AppendTimeline
    BY <1>1, <2>2, AppendKeepsThread
  <2>3. CASE MessageEnd /\ live # None
    BY <1>1, <2>3, MessageEndKeepsThread
  <2>4. ASSUME NEW id \in reserved, ToolExecutionEnd(id)
        PROVE  ThreadGrows
    BY <1>1, <2>4, ToolEndKeepsThread
  <2>5. CASE \/ StartTurn \/ MessageUpdate \/ ToolExecutionStart \/ SaveMediaResult
             \/ MessageEnd /\ live = None
             \/ Settle \/ TaskEnds \/ Stop \/ Crash
    BY <1>1, <2>5, OthersKeepThread
  <2> QED
    BY <1>1, <2>1, <2>2, <2>3, <2>4, <2>5 DEF Next
<1>2. TimelineIInv /\ TimelineIInv' /\ [Next]_vars => [serving => ThreadGrows]_vars
  BY <1>1
<1> QED
  BY <1>2, TimelineInvariant, PTL DEF Spec, SnapshotsAgree
=============================================================================
