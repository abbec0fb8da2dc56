------------------------- MODULE AssistantPageProofs -------------------------
(***************************************************************************)
(* AssistantPage, for any conversations and any bounds: what the page shows *)
(* is of the selected conversation, a busy control has its request, and no *)
(* typed message is lost.                                                  *)
(***************************************************************************)
EXTENDS AssistantPage, FiniteSetTheorems, TLAPS

Ui == [selected : Maybe, detail : [id : Maybe, version : 0..MaxVersion], list : Listing,
       historyFails : BOOLEAN, liveError : BOOLEAN, creating : BOOLEAN, deleting : Maybe,
       sending : SUBSET Conversations, optimistic : Maybe, text : Maybe,
       drafts : [Conversations -> Maybe]]
Request == [op : {"none", "list", "load", "create", "send", "delete"}, id : Maybe,
            flag : BOOLEAN, status : {"sent", "ok", "401", "404", "409", "503"},
            version : 0..MaxVersion, list : Listing, made : Maybe]
EventSource == [id : Maybe, phase : {"none", "connecting", "open", "closed"},
                chunk : -1..MaxVersion, check : {"none", "sent", "ok", "401", "404", "503"},
                verdict : {"none", "ok", "404", "503"}]

(* What is shown and typed is of the selected conversation.                *)
GoodUi(u) ==
  /\ u \in Ui
  /\ u.detail.id \in {None, u.selected}
  /\ u.optimistic \in {None, u.selected}
  /\ \A c \in Conversations : u.drafts[c] \in {None, c}
  /\ u.text # None => u.text = u.selected

\* The helpers of the page keep it so.
LEMMA NoDetailType == NoDetail \in [id : Maybe, version : 0..MaxVersion] /\ NoDetail.id = None
<1>1. 0 \in 0..MaxVersion
  BY PageBounds
<1> QED
  BY <1>1 DEF NoDetail, Maybe

LEMMA EmptyGood == ASSUME NEW c \in Maybe PROVE GoodUi(EmptyUi) /\ GoodUi([EmptyUi EXCEPT !.selected = c])
<1>1. EmptyUi \in Ui
  BY NoDetailType DEF Ui, EmptyUi, Maybe, Listing
<1>2. [EmptyUi EXCEPT !.selected = c] \in Ui
  BY <1>1 DEF Ui
<1> QED
  BY <1>1, <1>2, NoDetailType DEF GoodUi, EmptyUi

LEMMA SelectGood == ASSUME NEW u, GoodUi(u), NEW c \in Conversations PROVE GoodUi(Select(u, c))
<1> u \in Ui
  BY DEF GoodUi
<1>1. Select(u, c) \in Ui
  BY NoDetailType DEF Ui, Select, Maybe
<1>2. /\ Select(u, c).selected = c /\ Select(u, c).detail = NoDetail
      /\ Select(u, c).optimistic = None /\ Select(u, c).text = u.drafts[c]
      /\ Select(u, c).drafts = u.drafts
  BY DEF GoodUi, Ui, Select
<1> QED
  BY <1>1, <1>2, NoDetailType DEF GoodUi

LEMMA ClearGood == ASSUME NEW u, GoodUi(u) PROVE GoodUi(Clear(u))
<1>0. u \in Ui
  BY DEF GoodUi
<1>1. Clear(u) \in Ui
  <2>1. None \in Maybe
    BY DEF Maybe
  <2> QED
    BY <1>0, <2>1, NoDetailType DEF Ui, Clear
<1>2. /\ Clear(u).detail = NoDetail /\ Clear(u).optimistic = None /\ Clear(u).text = None
      /\ Clear(u).drafts = u.drafts
  BY DEF GoodUi, Ui, Clear
<1> QED
  BY <1>1, <1>2, NoDetailType DEF GoodUi

LEMMA UnlistGood == ASSUME NEW u, GoodUi(u), NEW c \in Maybe PROVE GoodUi(Unlist(u, c))
  BY DEF GoodUi, Ui, Unlist, Listing

LEMMA SelectNextGood == ASSUME NEW u, GoodUi(u), NEW v \in SelectNext(u) PROVE GoodUi(v)
  BY SelectGood, ClearGood DEF SelectNext

LEMMA RemoveGood ==
  ASSUME NEW u, GoodUi(u), NEW c \in Maybe, NEW v \in Remove(u, c) PROVE GoodUi(v)
  BY UnlistGood, SelectNextGood DEF Remove

LEMMA ShowGood ==
  ASSUME NEW u, GoodUi(u), NEW v \in 0..MaxVersion PROVE GoodUi(Show(u, u.selected, v))
<1>1. StatusOf(v) \in {"no", "idle", "running"}
  BY DEF StatusOf
<1> QED
  BY <1>1 DEF GoodUi, Ui, Show, Detail, Maybe, Listing

-----------------------------------------------------------------------------
(* The requests under way: each conversation has at most one message on    *)
(* its way, and one conversation at most is being created.                 *)
GoodRequests(reqs) ==
  /\ reqs \in [Slots -> Request]
  /\ \A s \in Slots : reqs[s].op \in {"load", "send", "delete"} => reqs[s].id \in Conversations
  /\ \A s \in Slots : reqs[s].op = "create" /\ reqs[s].status = "ok" => reqs[s].made \in Conversations
  /\ \A s, t \in Slots : reqs[s].op = "create" /\ reqs[t].op = "create" => s = t
  /\ \A s, t \in Slots :
        reqs[s].op = "send" /\ reqs[t].op = "send" /\ reqs[s].id = reqs[t].id => s = t

(* What the page has noted of them, and of the messages.                   *)
Agree(u, reqs, lost) ==
  /\ u.creating = (\E s \in Slots : reqs[s].op = "create")
  /\ \A c \in Conversations :
       c \in u.sending <=> \E s \in Slots : reqs[s].op = "send" /\ reqs[s].id = c
  /\ u.deleting # None => \E s \in Slots : reqs[s].op = "delete" /\ reqs[s].id = u.deleting
  /\ \A s \in Slots : reqs[s].op = "send" /\ reqs[s].status = "ok" => reqs[s].id \notin lost
  /\ lost \subseteq Conversations
  /\ \A c \in lost : u.drafts[c] = c \/ \E s \in Slots : reqs[s].op = "send" /\ reqs[s].id = c

Core ==
  /\ GoodUi(ui)
  /\ GoodRequests(requests)
  /\ Agree(ui, requests, unsent)
  /\ stream \in EventSource
  /\ stream.id = ui.selected

Rest ==
  /\ present \subseteq Conversations /\ removed \subseteq Conversations
  /\ version \in [Conversations -> 0..MaxVersion]
  /\ worker \in BOOLEAN /\ session \in BOOLEAN
  /\ page \in {"app", "login"}
  /\ events \in 0..MaxEvents

PageIInv == Core /\ Rest

LEMMA IdleType == Idle \in Request /\ Idle.op = "none"
<1>1. EmptyUi.list \in Listing /\ 0 \in 0..MaxVersion /\ None \in Maybe
  BY PageBounds DEF EmptyUi, Listing, Maybe
<1> QED
  BY <1>1 DEF Idle, Request

LEMMA NewRequestType ==
  ASSUME NEW op \in {"list", "load", "create", "send", "delete"}, NEW c \in Maybe, NEW flag \in BOOLEAN
  PROVE  /\ NewRequest(op, c, flag) \in Request
         /\ NewRequest(op, c, flag).op = op /\ NewRequest(op, c, flag).id = c
         /\ NewRequest(op, c, flag).status = "sent"
<1>1. EmptyUi.list \in Listing /\ 0 \in 0..MaxVersion /\ None \in Maybe
  BY PageBounds DEF EmptyUi, Listing, Maybe
<1> QED
  BY <1>1 DEF NewRequest, Idle, Request

LEMMA SlotsFinite == IsFiniteSet(Slots)
  BY FS_Interval, PageBounds DEF Slots

\* Where there is room a request gets a free slot.
LEMMA IssueFree ==
  ASSUME NEW reqs, Room(reqs, 1), NEW op, NEW c, NEW flag
  PROVE  \E k \in Slots : /\ reqs[k].op = "none"
                          /\ Issue(reqs, op, c, flag) = [reqs EXCEPT ![k] = NewRequest(op, c, flag)]
<1> DEFINE free == {s \in Slots : reqs[s].op = "none"}
<1>1. free # {}
  BY FS_EmptySet DEF Room
<1>2. (CHOOSE s \in Slots : reqs[s].op = "none") \in Slots
      /\ reqs[CHOOSE s \in Slots : reqs[s].op = "none"].op = "none"
  BY <1>1
<1> QED
  BY <1>2 DEF Issue

\* A free slot is room, and a request that has been answered leaves one.
LEMMA FreeRoom == ASSUME NEW reqs, NEW s \in Slots, reqs[s].op = "none" PROVE Room(reqs, 1)
<1> DEFINE free == {t \in Slots : reqs[t].op = "none"}
<1>1. s \in free
  OBVIOUS
<1>2. IsFiniteSet(free)
  BY SlotsFinite, FS_Subset
<1>3. Cardinality(free) \in Nat /\ Cardinality(free) # 0
  BY <1>1, <1>2, FS_CardinalityType, FS_EmptySet
<1>4. Cardinality(free) >= 1
  BY <1>3
<1> QED
  BY <1>4 DEF Room

LEMMA DoneRoom == ASSUME NEW s \in Slots, requests \in [Slots -> Request] PROVE Room(Done(s), 1)
<1>1. Done(s)[s].op = "none"
  BY IdleType DEF Done
<1> QED
  BY <1>1, FreeRoom

\* A list or detail that is asked for concerns no control and no message.
LEMMA IssueQuiet ==
  ASSUME NEW u, NEW reqs, NEW lost, GoodRequests(reqs), Agree(u, reqs, lost), Room(reqs, 1),
         NEW op \in {"list", "load"}, NEW c \in Maybe, op = "load" => c \in Conversations,
         NEW flag \in BOOLEAN
  PROVE  /\ GoodRequests(Issue(reqs, op, c, flag))
         /\ Agree(u, Issue(reqs, op, c, flag), lost)
<1>1. PICK k \in Slots : /\ reqs[k].op = "none"
                         /\ Issue(reqs, op, c, flag) = [reqs EXCEPT ![k] = NewRequest(op, c, flag)]
  BY IssueFree
<1> DEFINE more == Issue(reqs, op, c, flag)
<1>2. /\ NewRequest(op, c, flag) \in Request /\ NewRequest(op, c, flag).op = op
      /\ NewRequest(op, c, flag).id = c
  BY NewRequestType
<1>3. reqs \in [Slots -> Request]
  BY DEF GoodRequests
<1>4. more \in [Slots -> Request] /\ \A s \in Slots : s # k => more[s] = reqs[s]
  BY <1>1, <1>2, <1>3
<1>5. more[k].op = op /\ more[k].id = c
  BY <1>1, <1>2, <1>3
<1> HIDE DEF more
<1>6. GoodRequests(more)
  BY <1>4, <1>5 DEF GoodRequests
<1>7. \A s \in Slots : more[s].op \in {"create", "send", "delete"} \/ reqs[s].op \in {"create", "send", "delete"}
                         => more[s] = reqs[s]
  BY <1>1, <1>4, <1>5
<1>8. Agree(u, more, lost)
  BY <1>7 DEF Agree
<1> QED
  BY <1>6, <1>8 DEF more

\* What the page has noted of its requests is in these fields of its state.
SameNotes(u, v) ==
  v.creating = u.creating /\ v.sending = u.sending /\ v.deleting = u.deleting /\ v.drafts = u.drafts

LEMMA AgreeSame ==
  ASSUME NEW u, NEW v, NEW reqs, NEW lost, Agree(u, reqs, lost), SameNotes(u, v)
  PROVE  Agree(v, reqs, lost)
  BY DEF Agree, SameNotes

LEMMA SelectNotes == ASSUME NEW u, GoodUi(u), NEW c PROVE SameNotes(u, Select(u, c))
  BY DEF GoodUi, Ui, SameNotes, Select

LEMMA UnlistNotes == ASSUME NEW u, GoodUi(u), NEW c PROVE SameNotes(u, Unlist(u, c))
  BY DEF GoodUi, Ui, SameNotes, Unlist

LEMMA ShowNotes == ASSUME NEW u, GoodUi(u), NEW c, NEW v PROVE SameNotes(u, Show(u, c, v))
  BY DEF GoodUi, Ui, SameNotes, Show

LEMMA SelectNextNotes ==
  ASSUME NEW u, GoodUi(u), NEW v \in SelectNext(u) PROVE SameNotes(u, v)
<1>1. SameNotes(u, Clear(u))
  BY DEF GoodUi, Ui, SameNotes, Clear
<1> QED
  BY <1>1, SelectNotes DEF SelectNext

LEMMA RemoveNotes ==
  ASSUME NEW u, GoodUi(u), NEW c \in Maybe, NEW v \in Remove(u, c) PROVE SameNotes(u, v)
<1>1. GoodUi(Unlist(u, c)) /\ SameNotes(u, Unlist(u, c))
  BY UnlistGood, UnlistNotes
<1>2. CASE v = Unlist(u, c)
  BY <1>1, <1>2
<1>3. CASE v \in SelectNext(Unlist(u, c))
  <2>1. SameNotes(Unlist(u, c), v)
    BY <1>1, <1>3, SelectNextNotes
  <2> QED
    BY <1>1, <2>1 DEF SameNotes
<1> QED
  BY <1>2, <1>3 DEF Remove

\* A list or detail that was answered concerns no control and no message.
LEMMA DoneQuiet ==
  ASSUME NEW s \in Slots, requests[s].op \in {"list", "load"}, Core
  PROVE  /\ GoodRequests(Done(s))
         /\ Agree(ui, Done(s), unsent)
         /\ Room(Done(s), 1)
<1> DEFINE less == Done(s)
<1>1. requests \in [Slots -> Request]
  BY DEF Core, GoodRequests
<1>2. less \in [Slots -> Request] /\ \A t \in Slots : t # s => less[t] = requests[t]
  BY <1>1, IdleType DEF Done
<1>3. less[s].op = "none"
  BY <1>1, IdleType DEF Done
<1>4. Room(less, 1)
  BY <1>1, DoneRoom
<1> HIDE DEF less
<1>5. GoodRequests(less)
  BY <1>2, <1>3 DEF GoodRequests, Core
<1>6. \A t \in Slots : less[t].op \in {"create", "send", "delete"} \/ requests[t].op \in {"create", "send", "delete"}
                         => less[t] = requests[t]
  BY <1>2, <1>3
<1>7. Agree(ui, less, unsent)
  BY <1>6 DEF Agree, Core
<1> QED
  BY <1>4, <1>5, <1>7 DEF less

LEMMA SourceType == ASSUME NEW c \in Maybe PROVE Source(c) \in EventSource /\ Source(c).id = c
<1>1. -1 \in -1..MaxVersion
  BY PageBounds
<1> QED
  BY <1>1 DEF Source, EventSource

\* A handler's effects.
LEMMA CommitCore ==
  ASSUME Core, NEW u, NEW reqs, NEW source, NEW lost,
         GoodUi(u), GoodRequests(reqs), Agree(u, reqs, lost),
         source \in EventSource, source.id = ui.selected,
         Commit(u, reqs, source), unsent' = lost
  PROVE  Core' /\ page' = page
<1>1. ui' = u /\ page' = page
  BY DEF Commit
<1>2. CASE u.selected = ui.selected
  BY <1>1, <1>2 DEF Commit, Core
<1>3. CASE u.selected # ui.selected
  <2>1. u.selected \in Maybe
    BY DEF GoodUi, Ui
  <2>2. stream' = Source(u.selected)
    BY <1>3 DEF Commit
  <2>3. GoodRequests(requests') /\ Agree(u, requests', lost)
    <3>1. CASE u.selected = None
      BY <1>3, <3>1 DEF Commit
    <3>2. CASE u.selected # None
      <4>1. Room(reqs, 1) /\ requests' = Issue(reqs, "load", u.selected, FALSE)
        BY <1>3, <3>2 DEF Commit
      <4>2. u.selected \in Conversations
        BY <2>1, <3>2 DEF Maybe
      <4> QED
        BY <2>1, <4>1, <4>2, IssueQuiet
    <3> QED
      BY <3>1, <3>2
  <2> QED
    BY <1>1, <2>1, <2>2, <2>3, SourceType DEF Core
<1> QED
  BY <1>1, <1>2, <1>3

LEMMA RedirectCore == ASSUME Redirect PROVE Core' /\ page' = "login"
<1>1. None \in Maybe
  BY DEF Maybe
<1>2. GoodUi(ui') /\ ui' = EmptyUi
  BY EmptyGood DEF Redirect, Maybe
<1>3. requests' \in [Slots -> Request] /\ \A s \in Slots : requests'[s].op = "none"
  BY IdleType DEF Redirect
<1>4. GoodRequests(requests')
  BY <1>3 DEF GoodRequests
<1>5. Agree(EmptyUi, requests', {})
  BY <1>3 DEF Agree, EmptyUi
<1>6. stream' \in EventSource /\ stream'.id = None
  BY <1>1, SourceType DEF Redirect
<1>7. unsent' = {} /\ page' = "login"
  BY DEF Redirect
<1> QED
  BY <1>2, <1>4, <1>5, <1>6, <1>7 DEF Core, EmptyUi

-----------------------------------------------------------------------------
(* The owner *)

\* One request more than those under way.
Added(more, op, c) ==
  \E k \in Slots :
    /\ requests[k].op = "none"
    /\ more[k].op = op /\ more[k].id = c /\ more[k].status = "sent"
    /\ \A s \in Slots : s # k => more[s] = requests[s]

\* A control's request makes the control busy, and a message's is its only one.
LEMMA IssueControl ==
  ASSUME Core, NEW op \in {"create", "send", "delete"}, NEW c \in Maybe, NEW flag \in BOOLEAN,
         Room(requests, 1), op # "create" => c \in Conversations,
         op = "create" => ~ui.creating, op = "send" => c \notin ui.sending
  PROVE  /\ GoodRequests(Issue(requests, op, c, flag))
         /\ Added(Issue(requests, op, c, flag), op, c)
<1>1. PICK k \in Slots :
        /\ requests[k].op = "none"
        /\ Issue(requests, op, c, flag) = [requests EXCEPT ![k] = NewRequest(op, c, flag)]
  BY IssueFree
<1> DEFINE more == Issue(requests, op, c, flag)
<1>2. /\ NewRequest(op, c, flag) \in Request /\ NewRequest(op, c, flag).op = op
      /\ NewRequest(op, c, flag).id = c /\ NewRequest(op, c, flag).status = "sent"
  BY NewRequestType
<1>3. requests \in [Slots -> Request]
  BY DEF Core, GoodRequests
<1>4. more \in [Slots -> Request] /\ \A s \in Slots : s # k => more[s] = requests[s]
  BY <1>1, <1>2, <1>3
<1>5. more[k].op = op /\ more[k].id = c /\ more[k].status = "sent"
  BY <1>1, <1>2, <1>3
<1> HIDE DEF more
<1>6. op = "create" => \A s \in Slots : requests[s].op # "create"
  BY DEF Core, Agree
<1>7. op = "send" => \A s \in Slots : ~(requests[s].op = "send" /\ requests[s].id = c)
  BY DEF Core, Agree
<1>8. GoodRequests(more)
  BY <1>4, <1>5, <1>6, <1>7 DEF GoodRequests, Core
<1>9. Added(more, op, c)
  BY <1>1, <1>4, <1>5 DEF Added
<1> QED
  BY <1>8, <1>9 DEF more

LEMMA OpenPageCore == ASSUME Core, Rest, NEW c \in Maybe, OpenPage(c) PROVE Core'
<1> DEFINE none == [s \in Slots |-> Idle]
           listing == Issue(none, "list", None, c = None)
           u == [EmptyUi EXCEPT !.selected = c]
<1>1. None \in Maybe /\ (c # None => c \in Conversations)
  BY DEF Maybe
<1>2. none \in [Slots -> Request] /\ \A s \in Slots : none[s].op = "none"
  BY IdleType
<1>3. GoodRequests(none)
  BY <1>2 DEF GoodRequests
<1>4. GoodUi(u)
  BY EmptyGood
<1>5. Agree(u, none, {})
  BY <1>2 DEF Agree, EmptyUi
<1>6. Room(none, 1)
  <2>1. 1 \in Slots
    BY PageBounds DEF Slots
  <2> HIDE DEF none
  <2> QED
    BY <1>2, <2>1, FreeRoom
<1>7. GoodRequests(listing) /\ Agree(u, listing, {})
  BY <1>1, <1>3, <1>5, <1>6, IssueQuiet
<1>8. Room(listing, 1)
  <2>1. (c = None) \in BOOLEAN
    OBVIOUS
  <2> HIDE DEF none
  <2>2. PICK k \in Slots : /\ none[k].op = "none"
                           /\ listing = [none EXCEPT ![k] = NewRequest("list", None, c = None)]
    BY <1>6, IssueFree
  <2>3. PICK t \in Slots : t # k
    <3>1. 1 \in Slots /\ 2 \in Slots
      BY PageBounds DEF Slots
    <3> QED
      BY <3>1
  <2>4. listing[t] = none[t]
    BY <1>2, <2>2, <2>3
  <2> HIDE DEF listing
  <2> QED
    BY <1>2, <2>4, FreeRoom
<1> HIDE DEF listing, none, u
<1>9. c # None => /\ GoodRequests(Issue(listing, "load", c, FALSE))
                  /\ Agree(u, Issue(listing, "load", c, FALSE), {})
  BY <1>1, <1>7, <1>8, IssueQuiet
<1>10. GoodRequests(requests') /\ Agree(u, requests', {})
  BY <1>7, <1>9 DEF OpenPage, listing, none
<1>11. ui' = u /\ u.selected = c /\ stream' = Source(c) /\ unsent' = {}
  BY DEF OpenPage, u, EmptyUi
<1> QED
  BY <1>4, <1>10, <1>11, SourceType DEF Core

LEMMA SelectCore == ASSUME Core, NEW c \in Conversations, SelectConversation(c) PROVE Core'
<1>1. GoodUi(Select(ui, c)) /\ Agree(Select(ui, c), requests, unsent)
  BY SelectGood, SelectNotes, AgreeSame DEF Core
<1> QED
  BY <1>1, CommitCore DEF Core, SelectConversation

LEMMA CreateCore == ASSUME Core, CreateConversation PROVE Core'
<1> DEFINE u == [ui EXCEPT !.creating = TRUE]
           more == Issue(requests, "create", ui.selected, FALSE)
<1>1. GoodUi(u) /\ ui.selected \in Maybe
  BY DEF Core, GoodUi, Ui
<1>2. GoodRequests(more) /\ Added(more, "create", ui.selected)
  <2>1. ~ui.creating /\ Room(requests, 1)
    BY DEF CreateConversation
  <2> QED
    BY <1>1, <2>1, IssueControl
<1>3. /\ u.creating = TRUE /\ u.sending = ui.sending /\ u.deleting = ui.deleting
      /\ u.drafts = ui.drafts
  BY DEF Core, GoodUi, Ui
<1>4. Commit(u, more, stream) /\ unsent' = unsent
  BY DEF CreateConversation
<1> HIDE DEF u, more
<1>5. Agree(u, more, unsent)
  <2>1. PICK k \in Slots : /\ requests[k].op = "none" /\ more[k].op = "create"
                           /\ \A s \in Slots : s # k => more[s] = requests[s]
    BY <1>2 DEF Added
  <2>2. \A s \in Slots : more[s].op \in {"send", "delete"} \/ requests[s].op \in {"send", "delete"}
                         => more[s] = requests[s]
    BY <2>1
  <2>3. u.creating = (\E s \in Slots : more[s].op = "create")
    BY <1>3, <2>1
  <2> QED
    BY <1>3, <2>2, <2>3 DEF Agree, Core
<1> QED
  BY <1>1, <1>2, <1>4, <1>5, CommitCore DEF Core

LEMMA TypeTextCore == ASSUME Core, TypeText PROVE Core'
<1> DEFINE c == ui.selected
<1>1. c \in Conversations
  BY DEF Core, GoodUi, Ui, Maybe, TypeText, ComposerEnabled
<1>2. GoodUi(ui')
  BY <1>1 DEF Core, GoodUi, Ui, Maybe, TypeText
<1>3. /\ ui'.creating = ui.creating /\ ui'.sending = ui.sending /\ ui'.deleting = ui.deleting
      /\ ui'.selected = c /\ ui'.drafts = [ui.drafts EXCEPT ![c] = c]
      /\ unsent' = unsent \cup {c} /\ requests' = requests /\ stream' = stream
      /\ c \notin ui.sending
  BY DEF Core, GoodUi, Ui, TypeText, ComposerEnabled
<1>4. ui.drafts \in [Conversations -> Maybe]
  BY DEF Core, GoodUi, Ui
<1> HIDE DEF c
<1>5. \A s \in Slots : ~(requests[s].op = "send" /\ requests[s].id = c)
  BY <1>1, <1>3 DEF Core, Agree
<1>6. Agree(ui', requests, unsent')
  BY <1>1, <1>3, <1>4, <1>5 DEF Agree, Core
<1> QED
  BY <1>2, <1>3, <1>6 DEF Core, c

LEMMA SendCore == ASSUME Core, SendTurn PROVE Core'
<1> DEFINE c == ui.selected
           u == [ui EXCEPT !.drafts[c] = None, !.sending = @ \cup {c}, !.optimistic = c,
                           !.text = None]
           more == Issue(requests, "send", c, FALSE)
<1>1. c \in Conversations /\ c \notin ui.sending /\ c \in Maybe /\ None \in Maybe
  BY DEF Core, GoodUi, Ui, Maybe, SendTurn, ComposerEnabled
<1>2. GoodUi(u)
  BY <1>1 DEF Core, GoodUi, Ui
<1>3. GoodRequests(more) /\ Added(more, "send", c)
  <2>1. Room(requests, 1)
    BY DEF SendTurn
  <2> HIDE DEF c
  <2> QED
    BY <1>1, <2>1, IssueControl
<1>4. /\ u.creating = ui.creating /\ u.sending = ui.sending \cup {c} /\ u.deleting = ui.deleting
      /\ \A d \in Conversations : d # c => u.drafts[d] = ui.drafts[d]
  BY DEF Core, GoodUi, Ui
<1>5. Commit(u, more, stream) /\ unsent' = unsent
  BY DEF SendTurn
<1> HIDE DEF u, more, c
<1>6. Agree(u, more, unsent)
  <2>1. PICK k \in Slots : /\ requests[k].op = "none"
                           /\ more[k].op = "send" /\ more[k].id = c /\ more[k].status = "sent"
                           /\ \A s \in Slots : s # k => more[s] = requests[s]
    BY <1>3 DEF Added
  <2>2. u.creating = (\E s \in Slots : more[s].op = "create")
    BY <1>4, <2>1 DEF Agree, Core
  <2>3. \A d \in Conversations :
          d \in u.sending <=> \E s \in Slots : more[s].op = "send" /\ more[s].id = d
    BY <1>4, <2>1 DEF Agree, Core
  <2>4. u.deleting # None => \E s \in Slots : more[s].op = "delete" /\ more[s].id = u.deleting
    BY <1>4, <2>1 DEF Agree, Core
  <2>5. \A s \in Slots : more[s].op = "send" /\ more[s].status = "ok" => more[s].id \notin unsent
    BY <2>1 DEF Agree, Core
  <2>6. \A d \in unsent : u.drafts[d] = d \/ \E s \in Slots : more[s].op = "send" /\ more[s].id = d
    <3> TAKE d \in unsent
    <3>1. CASE d = c
      BY <2>1, <3>1
    <3>2. CASE d # c
      BY <1>4, <2>1, <3>2 DEF Agree, Core
    <3> QED
      BY <3>1, <3>2
  <2> QED
    BY <2>2, <2>3, <2>4, <2>5, <2>6 DEF Agree, Core
<1> QED
  BY <1>2, <1>3, <1>5, <1>6, CommitCore DEF Core

LEMMA DeleteCore == ASSUME Core, NEW c \in Conversations, DeleteConversation(c) PROVE Core'
<1> DEFINE u == [ui EXCEPT !.deleting = c]
           more == Issue(requests, "delete", c, ui.selected = c)
<1>1. GoodUi(u) /\ c \in Maybe
  BY DEF Core, GoodUi, Ui, Maybe
<1>2. GoodRequests(more) /\ Added(more, "delete", c)
  <2>1. Room(requests, 1) /\ (ui.selected = c) \in BOOLEAN
    BY DEF DeleteConversation
  <2> QED
    BY <1>1, <2>1, IssueControl
<1>3. /\ u.creating = ui.creating /\ u.sending = ui.sending /\ u.deleting = c
      /\ u.drafts = ui.drafts
  BY DEF Core, GoodUi, Ui
<1>4. Commit(u, more, stream) /\ unsent' = unsent
  BY DEF DeleteConversation
<1> HIDE DEF u, more
<1>5. Agree(u, more, unsent)
  <2>1. PICK k \in Slots : /\ requests[k].op = "none" /\ more[k].op = "delete" /\ more[k].id = c
                           /\ \A s \in Slots : s # k => more[s] = requests[s]
    BY <1>2 DEF Added
  <2>2. \A s \in Slots : more[s].op \in {"send", "create"} \/ requests[s].op \in {"send", "create"}
                         => more[s] = requests[s]
    BY <2>1
  <2> QED
    BY <1>3, <2>1, <2>2 DEF Agree, Core
<1> QED
  BY <1>1, <1>2, <1>4, <1>5, CommitCore DEF Core

LEMMA RetryCore == ASSUME Core, RetryHistory PROVE Core'
<1>1. None \in Maybe
  BY DEF Maybe
<1>2. /\ GoodRequests(Issue(requests, "list", None, FALSE))
      /\ Agree(ui, Issue(requests, "list", None, FALSE), unsent)
  BY <1>1, IssueQuiet DEF Core, RetryHistory
<1> QED
  BY <1>2, CommitCore DEF Core, RetryHistory

LEMMA OwnerCore == ASSUME Core, Rest, Owner PROVE Core'
<1>1. ASSUME NEW c \in Maybe, OpenPage(c) PROVE Core'
  BY <1>1, OpenPageCore
<1>2. CASE OpenWithoutSession
  BY <1>2, RedirectCore DEF OpenWithoutSession
<1>3. ASSUME NEW c \in Conversations, SelectConversation(c) \/ DeleteConversation(c) PROVE Core'
  BY <1>3, SelectCore, DeleteCore
<1>4. CASE CreateConversation \/ TypeText \/ SendTurn \/ RetryHistory
  BY <1>4, CreateCore, TypeTextCore, SendCore, RetryCore
<1>5. CASE SessionEnds \/ SignIn
  BY <1>5 DEF SessionEnds, SignIn, Core
<1> QED
  BY <1>1, <1>2, <1>3, <1>4, <1>5 DEF Owner

-----------------------------------------------------------------------------
(* The server side *)

\* An answer is written into the request it answers.
LEMMA AnsweredCore ==
  ASSUME Core, requests' \in [Slots -> Request],
         \A t \in Slots : requests'[t].op = requests[t].op /\ requests'[t].id = requests[t].id,
         \A t \in Slots : requests'[t].op = "create" /\ requests'[t].status = "ok"
                           => requests'[t].made \in Conversations,
         \A t \in Slots : requests'[t].op = "send" /\ requests'[t].status = "ok"
                           => requests'[t].id \notin unsent',
         unsent' \subseteq unsent, UNCHANGED <<ui, stream>>
  PROVE  Core'
<1>1. GoodRequests(requests')
  BY DEF GoodRequests, Core
<1>2. Agree(ui, requests', unsent')
  BY DEF Agree, Core
<1> QED
  BY <1>1, <1>2 DEF Core

\* The same, of one request whose new state is r.
LEMMA ReplyCore ==
  ASSUME Core, NEW s \in Slots, NEW r \in Request,
         r.op = requests[s].op, r.id = requests[s].id,
         r.op = "create" /\ r.status = "ok" => r.made \in Conversations,
         r.op = "send" /\ r.status = "ok" => r.id \notin unsent',
         requests' = [requests EXCEPT ![s] = r],
         unsent' \subseteq unsent, UNCHANGED <<ui, stream>>
  PROVE  Core'
<1>1. requests \in [Slots -> Request]
  BY DEF Core, GoodRequests
<1>2. /\ requests' \in [Slots -> Request] /\ requests'[s] = r
      /\ \A t \in Slots : t # s => requests'[t] = requests[t]
  BY <1>1
<1>3. \A t \in Slots : requests'[t].op = requests[t].op /\ requests'[t].id = requests[t].id
  BY <1>2
<1>4. \A t \in Slots : requests'[t].op = "create" /\ requests'[t].status = "ok"
                         => requests'[t].made \in Conversations
  BY <1>2 DEF Core, GoodRequests
<1>5. \A t \in Slots : requests'[t].op = "send" /\ requests'[t].status = "ok"
                         => requests'[t].id \notin unsent'
  BY <1>2 DEF Core, Agree
<1> QED
  BY <1>2, <1>3, <1>4, <1>5, AnsweredCore

LEMMA AnswerCore ==
  ASSUME Core, NEW s \in Slots, NEW status \in {"401", "404", "409", "503"}, Answer(s, status),
         UNCHANGED <<ui, stream, unsent>>
  PROVE  Core'
<1> DEFINE r == [requests[s] EXCEPT !.status = status]
<1>1. requests \in [Slots -> Request] /\ requests[s] \in Request
  BY DEF Core, GoodRequests
<1>2. /\ r \in Request /\ r.op = requests[s].op /\ r.id = requests[s].id /\ r.status # "ok"
      /\ requests' = [requests EXCEPT ![s] = r]
  BY <1>1 DEF Request, Answer
<1> HIDE DEF r
<1> QED
  BY <1>2, ReplyCore

\* Of the four operations that are answered with more than their status.
LEMMA ServeListCore == ASSUME Core, Rest, NEW s \in Slots, ServeList(s) PROVE Core'
<1> DEFINE r == [requests[s] EXCEPT !.status = "ok", !.list = Listed]
<1>1. requests \in [Slots -> Request] /\ requests[s] \in Request
  BY DEF Core, GoodRequests
<1>2. Listed \in Listing
  BY DEF Listed, Listing, StatusOf
<1>3. /\ r \in Request /\ r.op = "list" /\ r.op = requests[s].op /\ r.id = requests[s].id
      /\ requests' = [requests EXCEPT ![s] = r] /\ UNCHANGED <<ui, stream, unsent>>
  BY <1>1, <1>2 DEF Request, ServeList, Pending
<1> HIDE DEF r
<1> QED
  BY <1>3, ReplyCore

LEMMA ServeLoadCore == ASSUME Core, Rest, NEW s \in Slots, ServeLoad(s) PROVE Core'
<1> DEFINE c == requests[s].id
           r == [requests[s] EXCEPT !.status = "ok", !.version = version[c]]
<1>1. requests \in [Slots -> Request] /\ requests[s] \in Request
  BY DEF Core, GoodRequests
<1>2. CASE c \in present
  <2>1. version[c] \in 0..MaxVersion
    BY <1>2 DEF Rest
  <2>2. /\ r \in Request /\ r.op = "load" /\ r.op = requests[s].op /\ r.id = requests[s].id
        /\ requests' = [requests EXCEPT ![s] = r] /\ UNCHANGED <<ui, stream, unsent>>
    BY <1>1, <1>2, <2>1 DEF Request, ServeLoad, Pending
  <2> HIDE DEF r
  <2> QED
    BY <2>2, ReplyCore
<1>3. CASE c \notin present
  BY <1>3, AnswerCore DEF ServeLoad
<1> QED
  BY <1>2, <1>3

LEMMA ServeCreateCore == ASSUME Core, Rest, NEW s \in Slots, ServeCreate(s) PROVE Core'
<1>1. requests \in [Slots -> Request] /\ requests[s] \in Request
  BY DEF Core, GoodRequests
<1>2. PICK c \in Conversations : requests' = [requests EXCEPT ![s].status = "ok", ![s].made = c]
  BY DEF ServeCreate
<1> DEFINE r == [requests[s] EXCEPT !.status = "ok", !.made = c]
<1>3. /\ r \in Request /\ r.op = "create" /\ r.op = requests[s].op /\ r.id = requests[s].id
      /\ r.made \in Conversations
      /\ requests' = [requests EXCEPT ![s] = r] /\ UNCHANGED <<ui, stream, unsent>>
  BY <1>1, <1>2 DEF Request, ServeCreate, Pending, Maybe
<1> HIDE DEF r
<1> QED
  BY <1>3, ReplyCore

LEMMA ServeSendCore == ASSUME Core, Rest, NEW s \in Slots, ServeSend(s) PROVE Core'
<1> DEFINE c == requests[s].id
           r == [requests[s] EXCEPT !.status = "ok", !.version = version[c] + 1]
           accepted == c \in present /\ version[c] < MaxVersion
<1>1. requests \in [Slots -> Request] /\ requests[s] \in Request
  BY DEF Core, GoodRequests
<1>2. CASE /\ accepted /\ unsent' = unsent \ {c}
           /\ requests' = [requests EXCEPT ![s].status = "ok", ![s].version = version[c] + 1]
  <2>1. version[c] \in 0..MaxVersion /\ version[c] < MaxVersion
    BY <1>2 DEF Rest
  <2>2. version[c] + 1 \in 0..MaxVersion
    BY <2>1, PageBounds
  <2>3. /\ r \in Request /\ r.op = "send" /\ r.op = requests[s].op /\ r.id = requests[s].id
        /\ requests' = [requests EXCEPT ![s] = r] /\ UNCHANGED <<ui, stream>>
    BY <1>1, <1>2, <2>2 DEF Request, ServeSend, Pending
  <2>4. r.id \notin unsent' /\ unsent' \subseteq unsent
    BY <1>2, <2>3
  <2> HIDE DEF r
  <2> QED
    BY <2>3, <2>4, ReplyCore
<1>3. CASE (\E status \in {"404", "409", "503"} : Answer(s, status)) /\ unsent' = unsent
  BY <1>3, AnswerCore DEF ServeSend
<1> QED
  BY <1>2, <1>3 DEF ServeSend

LEMMA ServeDeleteCore == ASSUME Core, Rest, NEW s \in Slots, ServeDelete(s) PROVE Core'
<1> DEFINE r == [requests[s] EXCEPT !.status = "ok"]
<1>1. requests \in [Slots -> Request] /\ requests[s] \in Request
  BY DEF Core, GoodRequests
<1>2. CASE Answer(s, "ok")
  <2>1. /\ r \in Request /\ r.op = "delete" /\ r.op = requests[s].op /\ r.id = requests[s].id
        /\ requests' = [requests EXCEPT ![s] = r] /\ UNCHANGED <<ui, stream, unsent>>
    BY <1>1, <1>2 DEF Request, ServeDelete, Pending, Answer
  <2> HIDE DEF r
  <2> QED
    BY <2>1, ReplyCore
<1>3. CASE \E status \in {"404", "409"} : Answer(s, status)
  BY <1>3, AnswerCore DEF ServeDelete
<1> QED
  BY <1>2, <1>3 DEF ServeDelete

LEMMA ServeCore == ASSUME Core, Rest, NEW s \in Slots, Serve(s) \/ AnswerLost(s) PROVE Core'
<1>1. CASE ServeRefused(s)
  BY <1>1, AnswerCore DEF ServeRefused, Refused
<1>2. CASE AnswerLost(s)
  BY <1>2, AnswerCore DEF AnswerLost
<1> QED
  BY <1>1, <1>2, ServeListCore, ServeLoadCore, ServeCreateCore, ServeSendCore, ServeDeleteCore DEF Serve

LEMMA ElsewhereCore == ASSUME Core, Rest, Elsewhere PROVE Core'
  BY DEF Elsewhere, TurnEnds, OtherDeviceSends, OtherDeviceDeletes, WorkerStops, WorkerReturns, Core

-----------------------------------------------------------------------------
(* The answers *)

LEMMA ListAnsweredCore == ASSUME Core, NEW s \in Slots, ListAnswered(s) PROVE Core'
<1> DEFINE u == [ui EXCEPT !.list = requests[s].list, !.historyFails = FALSE]
           failing == [ui EXCEPT !.historyFails = TRUE]
<1>1. GoodRequests(Done(s)) /\ Agree(ui, Done(s), unsent)
  BY DoneQuiet DEF ListAnswered, Answered
<1>2. CASE Status(s) = "401"
  BY <1>2, RedirectCore DEF ListAnswered
<1>3. CASE Status(s) = "503"
  <2>1. GoodUi(failing) /\ SameNotes(ui, failing)
    BY DEF Core, GoodUi, Ui, SameNotes
  <2>2. Commit(failing, Done(s), stream) /\ unsent' = unsent
    BY <1>3 DEF ListAnswered
  <2> HIDE DEF failing
  <2> QED
    BY <1>1, <2>1, <2>2, AgreeSame, CommitCore DEF Core
<1>4. CASE Status(s) \notin {"401", "503"}
  <2>1. requests[s].list \in Listing
    BY DEF Core, GoodRequests, Request
  <2>2. GoodUi(u) /\ SameNotes(ui, u)
    BY <2>1 DEF Core, GoodUi, Ui, SameNotes
  <2>3. unsent' = unsent /\ \E next \in SelectNext(u) \cup {u} : Commit(next, Done(s), stream)
    BY <1>4 DEF ListAnswered
  <2> HIDE DEF u
  <2>4. PICK next \in SelectNext(u) \cup {u} : Commit(next, Done(s), stream)
    BY <2>3
  <2>5. GoodUi(next) /\ SameNotes(u, next)
    BY <2>2, SelectNextGood, SelectNextNotes DEF SameNotes
  <2>6. Agree(next, Done(s), unsent)
    BY <1>1, <2>2, <2>5, AgreeSame
  <2> QED
    BY <1>1, <2>3, <2>4, <2>5, <2>6, CommitCore DEF Core
<1> QED
  BY <1>2, <1>3, <1>4

LEMMA LoadAnsweredCore == ASSUME Core, NEW s \in Slots, LoadAnswered(s) PROVE Core'
<1> DEFINE c == requests[s].id
           v == requests[s].version
<1>1. GoodRequests(Done(s)) /\ Agree(ui, Done(s), unsent) /\ Room(Done(s), 1)
  BY DoneQuiet DEF LoadAnswered, Answered
<1>2. c \in Maybe /\ v \in 0..MaxVersion /\ None \in Maybe
  BY DEF Core, GoodRequests, Request, Maybe
<1>3. CASE (ui.selected # c \/ Status(s) = "503") /\ Commit(ui, Done(s), stream) /\ unsent' = unsent
  BY <1>1, <1>3, CommitCore DEF Core
<1>4. CASE Redirect
  BY <1>4, RedirectCore
<1>5. CASE ui.selected = c /\ Commit(Show(ui, c, v), Done(s), stream) /\ unsent' = unsent
  <2>1. GoodUi(Show(ui, c, v)) /\ SameNotes(ui, Show(ui, c, v))
    BY <1>2, <1>5, ShowGood, ShowNotes DEF Core
  <2> QED
    BY <1>1, <1>5, <2>1, AgreeSame, CommitCore DEF Core
<1>6. CASE unsent' = unsent /\ \E u \in Remove(ui, c) : Commit(u, Issue(Done(s), "list", None, FALSE), stream)
  <2>1. PICK u \in Remove(ui, c) : Commit(u, Issue(Done(s), "list", None, FALSE), stream)
    BY <1>6
  <2>2. GoodUi(u) /\ SameNotes(ui, u)
    BY <1>2, RemoveGood, RemoveNotes DEF Core
  <2>3. Agree(u, Done(s), unsent)
    BY <1>1, <2>2, AgreeSame
  <2>4. /\ GoodRequests(Issue(Done(s), "list", None, FALSE))
        /\ Agree(u, Issue(Done(s), "list", None, FALSE), unsent)
    BY <1>1, <1>2, <2>3, IssueQuiet
  <2> DEFINE more == Issue(Done(s), "list", None, FALSE)
  <2> HIDE DEF more
  <2>5. Commit(u, more, stream) /\ GoodRequests(more) /\ Agree(u, more, unsent)
    BY <2>1, <2>4 DEF more
  <2>6. stream \in EventSource /\ stream.id = ui.selected
    BY DEF Core
  <2> QED
    BY <1>6, <2>2, <2>5, <2>6, CommitCore
<1>7. CASE /\ unsent' = unsent
           /\ \E u \in Remove(ui, c) : Commit([u EXCEPT !.historyFails = TRUE], Done(s), stream)
  <2>1. PICK u \in Remove(ui, c) : Commit([u EXCEPT !.historyFails = TRUE], Done(s), stream)
    BY <1>7
  <2> DEFINE failing == [u EXCEPT !.historyFails = TRUE]
  <2>2. GoodUi(u) /\ SameNotes(ui, u)
    BY <1>2, RemoveGood, RemoveNotes DEF Core
  <2>3. GoodUi(failing) /\ SameNotes(ui, failing)
    BY <2>2 DEF GoodUi, Ui, SameNotes
  <2>4. Commit(failing, Done(s), stream)
    BY <2>1
  <2> HIDE DEF failing
  <2>5. Agree(failing, Done(s), unsent)
    BY <1>1, <2>3, AgreeSame
  <2> QED
    BY <1>1, <1>7, <2>3, <2>4, <2>5, CommitCore DEF Core
<1> QED
  BY <1>3, <1>4, <1>5, <1>6, <1>7 DEF LoadAnswered

\* Once a request is answered its slot is free and the others are as before.
LEMMA DoneGood ==
  ASSUME Core, NEW s \in Slots
  PROVE  /\ GoodRequests(Done(s)) /\ Room(Done(s), 1)
         /\ Done(s)[s].op = "none" /\ \A t \in Slots : t # s => Done(s)[t] = requests[t]
<1> DEFINE less == Done(s)
<1>1. requests \in [Slots -> Request]
  BY DEF Core, GoodRequests
<1>2. less \in [Slots -> Request] /\ \A t \in Slots : t # s => less[t] = requests[t]
  BY <1>1, IdleType DEF Done
<1>3. less[s].op = "none"
  BY <1>1, IdleType DEF Done
<1>4. Room(less, 1)
  BY <1>1, DoneRoom
<1> HIDE DEF less
<1>5. GoodRequests(less)
  BY <1>2, <1>3 DEF GoodRequests, Core
<1> QED
  BY <1>2, <1>3, <1>4, <1>5 DEF less

LEMMA CreateAnsweredCore == ASSUME Core, NEW s \in Slots, CreateAnswered(s) PROVE Core'
<1> DEFINE u == [ui EXCEPT !.creating = FALSE]
           made == requests[s].made
           shown == [u EXCEPT !.list[made] = "idle"]
           less == Done(s)
<1>1. /\ GoodRequests(less) /\ less[s].op = "none"
      /\ \A t \in Slots : t # s => less[t] = requests[t]
  BY DoneGood
<1>2. requests[s].op = "create"
  BY DEF CreateAnswered, Answered
<1>3. GoodUi(u)
  BY DEF Core, GoodUi, Ui
<1>4. /\ u.creating = FALSE /\ u.sending = ui.sending /\ u.deleting = ui.deleting
      /\ u.drafts = ui.drafts
  BY DEF Core, GoodUi, Ui
<1>5. Agree(u, less, unsent)
  <2> HIDE DEF u, less
  <2>1. \A t \in Slots : less[t].op # "create"
    BY <1>1, <1>2 DEF Core, GoodRequests
  <2>2. \A t \in Slots : less[t].op \in {"send", "delete"} \/ requests[t].op \in {"send", "delete"}
                         => less[t] = requests[t]
    BY <1>1, <1>2
  <2>3. u.creating = (\E t \in Slots : less[t].op = "create")
    BY <1>4, <2>1
  <2> QED
    BY <1>4, <2>2, <2>3 DEF Agree, Core
<1>6. CASE Redirect
  BY <1>6, RedirectCore
<1>7. CASE Commit(u, less, stream) /\ unsent' = unsent
  <2> HIDE DEF u, less
  <2> QED
    BY <1>1, <1>3, <1>5, <1>7, CommitCore DEF Core
<1>8. CASE /\ Status(s) = "ok" /\ unsent' = unsent
           /\ \E next \in {Select(shown, made), shown} : Commit(next, less, stream)
  <2>1. made \in Conversations
    BY <1>2, <1>8 DEF Core, GoodRequests, Status
  <2>2. GoodUi(shown) /\ SameNotes(u, shown)
    <3> HIDE DEF u
    <3> QED
      BY <1>3, <2>1 DEF GoodUi, Ui, SameNotes, Listing
  <2>3. GoodUi(Select(shown, made)) /\ SameNotes(shown, Select(shown, made))
    BY <2>1, <2>2, SelectGood, SelectNotes
  <2> HIDE DEF u, less, shown
  <2>4. Agree(shown, less, unsent) /\ Agree(Select(shown, made), less, unsent)
    BY <1>5, <2>2, <2>3, AgreeSame
  <2> QED
    BY <1>1, <1>8, <2>2, <2>3, <2>4, CommitCore DEF Core
<1> QED
  BY <1>6, <1>7, <1>8 DEF CreateAnswered

LEMMA SendAnsweredCore == ASSUME Core, NEW s \in Slots, SendAnswered(s) PROVE Core'
<1> DEFINE c == requests[s].id
           failed == Status(s) # "ok"
           u == AfterSend(ui, c, failed)
           restored == [u EXCEPT !.text = c, !.optimistic = None]
           started == [u EXCEPT !.detail = IF @.id = c THEN Detail(c, requests[s].version) ELSE @]
           less == Done(s)
           more == Issue(less, "load", c, FALSE)
<1>1. /\ GoodRequests(less) /\ Room(less, 1) /\ less[s].op = "none"
      /\ \A t \in Slots : t # s => less[t] = requests[t]
  BY DoneGood
<1>2. requests[s].op = "send" /\ c \in Conversations /\ c \in Maybe /\ None \in Maybe
      /\ requests[s].version \in 0..MaxVersion
  BY DEF SendAnswered, Answered, Core, GoodRequests, Request, Maybe
<1>3. GoodUi(u)
  <2> HIDE DEF c
  <2> QED
    BY <1>2 DEF Core, GoodUi, Ui, AfterSend
<1>4. /\ u.creating = ui.creating /\ u.sending = ui.sending \ {c} /\ u.deleting = ui.deleting
      /\ u.selected = ui.selected /\ (failed => u.drafts[c] = c)
      /\ \A d \in Conversations : d # c => u.drafts[d] = ui.drafts[d]
  <2> HIDE DEF c
  <2> QED
    BY <1>2 DEF Core, GoodUi, Ui, AfterSend
<1>5. ~failed => c \notin unsent
  BY <1>2 DEF Core, Agree, Status
<1>6. Agree(u, less, unsent)
  <2>0. \A t \in Slots : requests[t].op = "send" /\ requests[t].id = c => t = s
    BY <1>2 DEF Core, GoodRequests
  <2> HIDE DEF u, less, failed, c
  <2>1. \A t \in Slots : less[t].op \in {"create", "delete"} \/ requests[t].op \in {"create", "delete"}
                         => less[t] = requests[t]
    BY <1>1, <1>2
  <2>2. u.creating = (\E t \in Slots : less[t].op = "create")
    BY <1>4, <2>1 DEF Agree, Core
  <2>3. \A d \in Conversations :
          d \in u.sending <=> \E t \in Slots : less[t].op = "send" /\ less[t].id = d
    <3> TAKE d \in Conversations
    <3>1. CASE d = c
      BY <1>1, <1>4, <2>0, <3>1
    <3>2. CASE d # c
      <4>1. d \in u.sending <=> \E t \in Slots : requests[t].op = "send" /\ requests[t].id = d
        BY <1>4, <3>2 DEF Agree, Core
      <4>2. requests[s].id = c
        BY DEF c
      <4> QED
        BY <1>1, <3>2, <4>1, <4>2
    <3> QED
      BY <3>1, <3>2
  <2>4. u.deleting # None => \E t \in Slots : less[t].op = "delete" /\ less[t].id = u.deleting
    BY <1>4, <2>1 DEF Agree, Core
  <2>5. \A t \in Slots : less[t].op = "send" /\ less[t].status = "ok" => less[t].id \notin unsent
    BY <1>1 DEF Agree, Core
  <2>6. \A d \in unsent : u.drafts[d] = d \/ \E t \in Slots : less[t].op = "send" /\ less[t].id = d
    <3> TAKE d \in unsent
    <3>1. CASE d = c
      BY <1>4, <1>5, <3>1
    <3>2. CASE d # c
      <4>1. d \in Conversations
        BY DEF Agree, Core
      <4>2. u.drafts[d] = d \/ \E t \in Slots : requests[t].op = "send" /\ requests[t].id = d
        BY <1>4, <3>2, <4>1 DEF Agree, Core
      <4>3. requests[s].id = c
        BY DEF c
      <4> QED
        BY <1>1, <3>2, <4>2, <4>3
    <3> QED
      BY <3>1, <3>2
  <2> QED
    BY <2>2, <2>3, <2>4, <2>5, <2>6 DEF Agree, Core
<1>7. GoodRequests(more) /\ Agree(u, more, unsent)
  <2> HIDE DEF u, less, c
  <2> QED
    BY <1>1, <1>2, <1>6, IssueQuiet
<1>8. CASE Redirect
  BY <1>8, RedirectCore
<1>9. CASE Commit(u, less, stream) /\ unsent' = unsent
  <2> HIDE DEF u, less
  <2> QED
    BY <1>1, <1>3, <1>6, <1>9, CommitCore DEF Core
<1>10. CASE /\ ui.selected = c /\ unsent' = unsent
            /\ Commit(restored, more, stream) \/ Commit(restored, less, stream)
  <2>1. GoodUi(restored) /\ SameNotes(u, restored)
    <3> HIDE DEF u, c
    <3> QED
      BY <1>2, <1>3, <1>4, <1>10 DEF GoodUi, Ui, SameNotes
  <2> HIDE DEF u, less, more, restored
  <2>2. Agree(restored, less, unsent) /\ Agree(restored, more, unsent)
    BY <1>6, <1>7, <2>1, AgreeSame
  <2> QED
    BY <1>1, <1>7, <1>10, <2>1, <2>2, CommitCore DEF Core
<1>11. CASE unsent' = unsent /\ Commit(started, more, stream)
  <2>1. GoodUi(started) /\ SameNotes(u, started)
    <3> HIDE DEF u, c
    <3> QED
      BY <1>2, <1>3 DEF GoodUi, Ui, SameNotes, Detail
  <2> HIDE DEF u, less, more, started
  <2>2. Agree(started, more, unsent)
    BY <1>7, <2>1, AgreeSame
  <2> QED
    BY <1>7, <1>11, <2>1, <2>2, CommitCore DEF Core
<1> QED
  BY <1>8, <1>9, <1>10, <1>11 DEF SendAnswered

LEMMA DeleteAnsweredCore == ASSUME Core, NEW s \in Slots, DeleteAnswered(s) PROVE Core'
<1> DEFINE c == requests[s].id
           u == [ui EXCEPT !.deleting = IF @ = c THEN None ELSE @]
           bare == [u EXCEPT !.drafts[c] = None]
           left == Unlist(bare, c)
           less == Done(s)
<1>1. /\ GoodRequests(less) /\ less[s].op = "none"
      /\ \A t \in Slots : t # s => less[t] = requests[t]
  BY DoneGood
<1>2. requests[s].op = "delete" /\ c \in Conversations /\ c \in Maybe /\ None \in Maybe
  BY DEF DeleteAnswered, Answered, Core, GoodRequests, Maybe
<1>3. GoodUi(u)
  BY <1>2 DEF Core, GoodUi, Ui
<1>4. /\ u.creating = ui.creating /\ u.sending = ui.sending /\ u.drafts = ui.drafts
      /\ u.deleting = IF ui.deleting = c THEN None ELSE ui.deleting
  BY DEF Core, GoodUi, Ui
<1>5. /\ u.creating = (\E t \in Slots : less[t].op = "create")
      /\ \A d \in Conversations :
           d \in u.sending <=> \E t \in Slots : less[t].op = "send" /\ less[t].id = d
      /\ u.deleting # None => \E t \in Slots : less[t].op = "delete" /\ less[t].id = u.deleting
  <2>0. requests[s].id = c
    OBVIOUS
  <2> HIDE DEF u, less, c
  <2>1. \A t \in Slots : less[t].op \in {"create", "send"} \/ requests[t].op \in {"create", "send"}
                         => less[t] = requests[t]
    BY <1>1, <1>2
  <2>2. u.creating = (\E t \in Slots : less[t].op = "create")
    BY <1>4, <2>1 DEF Agree, Core
  <2>3. \A d \in Conversations :
          d \in u.sending <=> \E t \in Slots : less[t].op = "send" /\ less[t].id = d
    BY <1>4, <2>1 DEF Agree, Core
  <2>4. u.deleting # None => \E t \in Slots : less[t].op = "delete" /\ less[t].id = u.deleting
    BY <1>1, <1>4, <2>0 DEF Agree, Core
  <2> QED
    BY <2>2, <2>3, <2>4
<1>6. \A t \in Slots : less[t].op = "send" \/ requests[t].op = "send" => less[t] = requests[t]
  BY <1>1, <1>2
<1>7. Agree(u, less, unsent)
  <2> HIDE DEF u, less, c
  <2>1. \A d \in unsent : u.drafts[d] = d \/ \E t \in Slots : less[t].op = "send" /\ less[t].id = d
    BY <1>4, <1>6 DEF Agree, Core
  <2>2. \A t \in Slots : less[t].op = "send" /\ less[t].status = "ok" => less[t].id \notin unsent
    BY <1>6 DEF Agree, Core
  <2>3. unsent \subseteq Conversations
    BY DEF Agree, Core
  <2> QED
    BY <1>5, <2>1, <2>2, <2>3 DEF Agree
<1>8. CASE Redirect
  BY <1>8, RedirectCore
<1>9. CASE Commit(u, less, stream) /\ unsent' = unsent
  <2> HIDE DEF u, less
  <2> QED
    BY <1>1, <1>3, <1>7, <1>9, CommitCore DEF Core
<1>10. CASE /\ unsent' = unsent \ {c}
            /\ \E next \in SelectNext(left) \cup {left} : Commit(next, less, stream)
  <2>1. GoodUi(bare)
    <3> HIDE DEF u, c
    <3> QED
      BY <1>2, <1>3 DEF GoodUi, Ui
  <2>2. /\ bare.creating = u.creating /\ bare.sending = u.sending /\ bare.deleting = u.deleting
        /\ \A d \in Conversations : d # c => bare.drafts[d] = u.drafts[d]
    <3> HIDE DEF u, c
    <3> QED
      BY <1>3 DEF GoodUi, Ui
  <2> HIDE DEF u, less, bare, c
  <2>3. Agree(bare, less, unsent \ {c})
    <3>1. \A d \in unsent \ {c} :
            bare.drafts[d] = d \/ \E t \in Slots : less[t].op = "send" /\ less[t].id = d
      BY <1>4, <1>6, <2>2 DEF Agree, Core
    <3>2. \A t \in Slots : less[t].op = "send" /\ less[t].status = "ok" => less[t].id \notin unsent \ {c}
      BY <1>6 DEF Agree, Core
    <3>3. unsent \ {c} \subseteq Conversations
      BY DEF Agree, Core
    <3> QED
      BY <1>5, <2>2, <3>1, <3>2, <3>3 DEF Agree
  <2>4. GoodUi(left) /\ SameNotes(bare, left)
    BY <1>2, <2>1, UnlistGood, UnlistNotes
  <2> HIDE DEF left
  <2>5. PICK next \in SelectNext(left) \cup {left} : Commit(next, less, stream)
    BY <1>10
  <2>6. GoodUi(next) /\ SameNotes(left, next)
    BY <2>4, SelectNextGood, SelectNextNotes DEF SameNotes
  <2>7. Agree(next, less, unsent \ {c})
    BY <2>3, <2>4, <2>6, AgreeSame
  <2> QED
    BY <1>1, <1>10, <2>5, <2>6, <2>7, CommitCore DEF Core
<1> QED
  BY <1>8, <1>9, <1>10 DEF DeleteAnswered

LEMMA ApplyCore == ASSUME Core, NEW s \in Slots, Apply(s) PROVE Core'
  BY ListAnsweredCore, LoadAnsweredCore, CreateAnsweredCore, SendAnsweredCore, DeleteAnsweredCore DEF Apply

-----------------------------------------------------------------------------
(* The event stream *)

LEMMA FailedCore ==
  ASSUME Core, NEW phase \in {"connecting", "closed"}, Failed(phase), UNCHANGED <<requests, unsent>>
  PROVE  Core'
<1>1. -1 \in -1..MaxVersion
  BY PageBounds
<1>2. stream' \in EventSource /\ stream'.id = stream.id
  BY <1>1 DEF Failed, Core, EventSource
<1>3. GoodUi(ui') /\ SameNotes(ui, ui') /\ ui'.selected = ui.selected
  BY DEF Failed, Core, GoodUi, Ui, SameNotes
<1>4. Agree(ui', requests, unsent)
  BY <1>3, AgreeSame DEF Core
<1> QED
  BY <1>2, <1>3, <1>4 DEF Core

LEMMA WriteCore ==
  ASSUME Core, Rest, StreamOpens \/ StreamWrites
  PROVE  Core'
<1>1. /\ stream.id \in present
      /\ \/ stream' = [stream EXCEPT !.chunk = version[stream.id]]
         \/ stream' = [stream EXCEPT !.phase = "open", !.chunk = version[stream.id]]
      /\ UNCHANGED <<ui, requests, unsent>>
  BY DEF StreamOpens, StreamWrites, OnStream
<1>2. version[stream.id] \in -1..MaxVersion
  <2>1. version[stream.id] \in 0..MaxVersion
    BY <1>1 DEF Rest, StreamOpens, StreamWrites
  <2> QED
    BY <2>1, PageBounds
<1>3. stream' \in EventSource /\ stream'.id = stream.id
  BY <1>1, <1>2 DEF Core, EventSource
<1> QED
  BY <1>1, <1>3 DEF Core

LEMMA SnapshotCore == ASSUME Core, SnapshotArrives PROVE Core'
<1> DEFINE v == stream.chunk
           shown == Show(ui, ui.selected, v)
           u == [shown EXCEPT !.liveError = FALSE]
           source == [stream EXCEPT !.chunk = -1]
<1>1. stream.id = ui.selected /\ v \in 0..MaxVersion
  <2>1. v \in -1..MaxVersion /\ v # -1
    BY DEF Core, EventSource, SnapshotArrives
  <2> QED
    BY <2>1, PageBounds DEF Core
<1>2. GoodUi(shown) /\ SameNotes(ui, shown)
  BY <1>1, ShowGood, ShowNotes DEF Core
<1>3. GoodUi(u) /\ SameNotes(ui, u)
  <2> HIDE DEF shown
  <2> QED
    BY <1>2 DEF GoodUi, Ui, SameNotes
<1>4. source \in EventSource /\ source.id = ui.selected
  <2>1. -1 \in -1..MaxVersion
    BY PageBounds
  <2> QED
    BY <1>1, <2>1 DEF Core, EventSource
<1>5. Commit(u, requests, source) /\ unsent' = unsent
  BY <1>1 DEF SnapshotArrives
<1> HIDE DEF u, source
<1>6. Agree(u, requests, unsent)
  BY <1>3, AgreeSame DEF Core
<1> QED
  BY <1>3, <1>4, <1>5, <1>6, CommitCore DEF Core

LEMMA CheckServedCore == ASSUME Core, ServeCheck \/ CheckLost PROVE Core'
<1>1. UNCHANGED <<ui, requests, unsent>>
  BY DEF ServeCheck, CheckLost, OnStream
<1>2. stream' \in EventSource /\ stream'.id = stream.id
  BY DEF ServeCheck, CheckLost, Refused, Core, EventSource
<1> QED
  BY <1>1, <1>2 DEF Core

LEMMA CheckCore == ASSUME Core, CheckAnswered PROVE Core'
<1> DEFINE settled == Checked
           closed == [settled EXCEPT !.phase = "closed"]
           failing == [ui EXCEPT !.liveError = TRUE]
           more == Issue(requests, "list", None, FALSE)
<1>0. CASE stream.check = "401"
  BY <1>0, RedirectCore DEF CheckAnswered
<1> SUFFICES ASSUME stream.check # "401" PROVE Core'
  BY <1>0
<1>1. /\ settled \in EventSource /\ settled.id = ui.selected
      /\ closed \in EventSource /\ closed.id = ui.selected
  <2>1. stream \in EventSource /\ stream.id = ui.selected
    BY DEF Core
  <2>2. stream.check \in {"ok", "404", "503"}
    BY <2>1 DEF CheckAnswered, EventSource
  <2>3. settled \in EventSource /\ settled.id = ui.selected
    BY <2>1, <2>2 DEF Checked, EventSource
  <2> HIDE DEF settled
  <2> QED
    BY <2>3 DEF EventSource
<1>2. GoodUi(failing) /\ SameNotes(ui, failing)
  BY DEF Core, GoodUi, Ui, SameNotes
<1>3. Agree(failing, requests, unsent)
  BY <1>2, AgreeSame DEF Core
<1>4. CASE Redirect
  BY <1>4, RedirectCore
<1>5. CASE unsent' = unsent /\ \E u \in {ui, failing} : Commit(u, requests, settled)
  <2> HIDE DEF settled, failing
  <2> QED
    BY <1>1, <1>2, <1>3, <1>5, CommitCore DEF Core
<1>6. CASE /\ Room(requests, 1) /\ unsent' = unsent
           /\ \E u \in Remove(ui, stream.id) : Commit(u, more, closed)
  <2>1. PICK u \in Remove(ui, stream.id) : Commit(u, more, closed)
    BY <1>6
  <2>2. stream.id \in Maybe /\ None \in Maybe
    BY DEF Core, EventSource, Maybe
  <2>3. GoodUi(u) /\ SameNotes(ui, u)
    BY <2>2, RemoveGood, RemoveNotes DEF Core
  <2>4. Agree(u, requests, unsent)
    BY <2>3, AgreeSame DEF Core
  <2>5. GoodRequests(more) /\ Agree(u, more, unsent)
    BY <1>6, <2>2, <2>4, IssueQuiet DEF Core
  <2> HIDE DEF more, closed
  <2> QED
    BY <1>1, <1>6, <2>1, <2>3, <2>5, CommitCore
<1> QED
  BY <1>4, <1>5, <1>6 DEF CheckAnswered

LEMMA StreamCore == ASSUME Core, Rest, EventStream PROVE Core'
<1>1. CASE ServeCheck \/ CheckLost \/ CheckAnswered
  BY <1>1, CheckCore, CheckServedCore
<1>2. CASE StreamRefused \/ StreamEnds \/ StreamLifetimeEnds \/ StreamBreaks
  BY <1>2, FailedCore DEF StreamRefused, StreamEnds, StreamLifetimeEnds, StreamBreaks, OnStream
<1> QED
  BY <1>1, <1>2, WriteCore, SnapshotCore DEF EventStream

-----------------------------------------------------------------------------
(* The other variables *)

LEMMA EventType == ASSUME events \in 0..MaxEvents, Event PROVE events' \in 0..MaxEvents
  BY PageBounds DEF Event

LEMMA VersionType ==
  ASSUME Rest, NEW c, version[c] < MaxVersion, version' = [version EXCEPT ![c] = @ + 1]
  PROVE  version' \in [Conversations -> 0..MaxVersion]
<1>1. CASE c \in Conversations
  <2>1. version[c] \in 0..MaxVersion /\ version \in [Conversations -> 0..MaxVersion]
    BY <1>1 DEF Rest
  <2>2. version[c] + 1 \in 0..MaxVersion
    BY <2>1, PageBounds
  <2> QED
    BY <2>1, <2>2
<1>2. CASE c \notin Conversations
  BY <1>2 DEF Rest
<1> QED
  BY <1>1, <1>2

LEMMA PageType == ASSUME Rest, page' \in {page, "login"} PROVE page' \in {"app", "login"}
  BY DEF Rest

LEMMA OwnerRest == ASSUME Rest, Owner PROVE Rest'
<1>1. ASSUME NEW c \in Maybe, OpenPage(c) PROVE Rest'
  BY <1>1, EventType DEF OpenPage, Rest, server
<1>2. CASE OpenWithoutSession
  BY <1>2 DEF OpenWithoutSession, Redirect, Rest, server
<1>3. ASSUME Click, page' = page PROVE Rest'
  BY <1>3, EventType DEF Click, Rest, server
<1>4. CASE TypeText
  BY <1>4 DEF TypeText, OnPage, Rest, server
<1>5. CASE SessionEnds \/ SignIn
  BY <1>5, EventType DEF SessionEnds, SignIn, Rest, server
<1>6. ASSUME NEW c \in Conversations, SelectConversation(c) \/ DeleteConversation(c) PROVE Rest'
  BY <1>3, <1>6 DEF SelectConversation, DeleteConversation, Commit
<1>7. CASE CreateConversation \/ SendTurn \/ RetryHistory
  BY <1>3, <1>7 DEF CreateConversation, SendTurn, RetryHistory, Commit
<1> QED
  BY <1>1, <1>2, <1>4, <1>5, <1>6, <1>7 DEF Owner

LEMMA ServeRest == ASSUME Core, Rest, NEW s \in Slots, Serve(s) \/ AnswerLost(s) PROVE Rest'
<1>1. CASE ServeRefused(s) \/ ServeList(s) \/ ServeLoad(s)
  BY <1>1 DEF ServeRefused, ServeList, ServeLoad, Rest, server
<1>2. CASE ServeCreate(s)
  BY <1>2 DEF ServeCreate, Rest
<1>3. CASE ServeSend(s)
  <2>1. CASE UNCHANGED version
    BY <1>3, <2>1 DEF ServeSend, Rest
  <2>2. CASE version[requests[s].id] < MaxVersion /\ version' = [version EXCEPT ![requests[s].id] = @ + 1]
    BY <1>3, <2>2, VersionType DEF ServeSend, Rest
  <2> QED
    BY <1>3, <2>1, <2>2 DEF ServeSend
<1>4. CASE ServeDelete(s)
  <2>1. requests[s].id \in Conversations
    BY <1>4 DEF Core, GoodRequests, ServeDelete, Pending
  <2> QED
    BY <1>4, <2>1 DEF ServeDelete, Rest
<1>5. CASE AnswerLost(s)
  BY <1>5, EventType DEF AnswerLost, Rest, server
<1> QED
  BY <1>1, <1>2, <1>3, <1>4, <1>5 DEF Serve

LEMMA ElsewhereRest == ASSUME Rest, Elsewhere PROVE Rest'
<1>1. ASSUME NEW c \in Conversations, TurnEnds(c) PROVE Rest'
  BY <1>1, VersionType DEF TurnEnds, Rest
<1>2. ASSUME NEW c \in Conversations, OtherDeviceSends(c) PROVE Rest'
  BY <1>2, VersionType, EventType DEF OtherDeviceSends, Rest
<1>3. ASSUME NEW c \in Conversations, OtherDeviceDeletes(c) PROVE Rest'
  BY <1>3, EventType DEF OtherDeviceDeletes, Rest
<1>4. CASE WorkerStops \/ WorkerReturns
  BY <1>4, EventType DEF WorkerStops, WorkerReturns, Rest, server
<1> QED
  BY <1>1, <1>2, <1>3, <1>4 DEF Elsewhere

\* A handler changes the page and nothing else of these.
LEMMA HandlerRest ==
  ASSUME Rest, UNCHANGED <<server, worker, session>>, events' = events \/ Event,
         page' \in {page, "login"}
  PROVE  Rest'
  BY EventType, PageType DEF Rest, server

LEMMA CommitPage == ASSUME NEW u, NEW reqs, NEW source, Commit(u, reqs, source) PROVE page' = page
  BY DEF Commit

LEMMA RedirectPage == ASSUME Redirect PROVE page' = "login"
  BY DEF Redirect

LEMMA ApplyPage == ASSUME NEW s \in Slots, Apply(s) PROVE page' \in {page, "login"}
<1>1. CASE ListAnswered(s)
  BY <1>1, CommitPage, RedirectPage DEF ListAnswered
<1>2. CASE LoadAnswered(s)
  BY <1>2, CommitPage, RedirectPage DEF LoadAnswered
<1>3. CASE CreateAnswered(s)
  BY <1>3, CommitPage, RedirectPage DEF CreateAnswered
<1>4. CASE SendAnswered(s)
  BY <1>4, CommitPage, RedirectPage DEF SendAnswered
<1>5. CASE DeleteAnswered(s)
  BY <1>5, CommitPage, RedirectPage DEF DeleteAnswered
<1> QED
  BY <1>1, <1>2, <1>3, <1>4, <1>5 DEF Apply

LEMMA ApplyRest == ASSUME Rest, NEW s \in Slots, Apply(s) PROVE Rest'
<1>1. UNCHANGED <<server, worker, session>> /\ events' = events
  BY DEF Apply, ListAnswered, LoadAnswered, CreateAnswered, SendAnswered, DeleteAnswered, OnPage
<1> QED
  BY <1>1, ApplyPage, HandlerRest

LEMMA StreamRest == ASSUME Rest, EventStream PROVE Rest'
<1>1. CASE StreamRefused \/ StreamOpens \/ StreamWrites \/ StreamEnds \/ ServeCheck
  BY <1>1 DEF StreamRefused, StreamOpens, StreamWrites, StreamEnds, ServeCheck, OnStream, Rest, server
<1>2. CASE StreamLifetimeEnds \/ StreamBreaks \/ CheckLost
  BY <1>2, EventType DEF StreamLifetimeEnds, StreamBreaks, CheckLost, OnStream, Rest, server
<1>3. CASE SnapshotArrives
  <2>1. UNCHANGED <<server, worker, session>> /\ events' = events
    BY <1>3 DEF SnapshotArrives, OnPage
  <2>2. page' = page
    BY <1>3, CommitPage DEF SnapshotArrives
  <2> QED
    BY <2>1, <2>2, HandlerRest
<1>4. CASE CheckAnswered
  <2>1. UNCHANGED <<server, worker, session>> /\ events' = events
    BY <1>4 DEF CheckAnswered, OnPage
  <2>2. page' \in {page, "login"}
    BY <1>4, CommitPage, RedirectPage DEF CheckAnswered
  <2> QED
    BY <2>1, <2>2, HandlerRest
<1> QED
  BY <1>1, <1>2, <1>3, <1>4 DEF EventStream

-----------------------------------------------------------------------------
(* The invariant and what follows from it *)

LEMMA InitPage == Init => PageIInv
<1> SUFFICES ASSUME Init PROVE PageIInv
  OBVIOUS
<1>1. None \in Maybe
  BY DEF Maybe
<1>2. GoodUi(ui) /\ ui = EmptyUi
  BY EmptyGood, <1>1 DEF Init
<1>3. requests \in [Slots -> Request] /\ \A s \in Slots : requests[s].op = "none"
  BY IdleType DEF Init
<1>4. GoodRequests(requests)
  BY <1>3 DEF GoodRequests
<1>5. Agree(EmptyUi, requests, {})
  BY <1>3 DEF Agree, EmptyUi
<1>6. stream \in EventSource /\ stream.id = None
  BY <1>1, SourceType DEF Init
<1>7. Core
  BY <1>2, <1>4, <1>5, <1>6 DEF Core, EmptyUi, Init
<1>8. 0 \in 0..MaxVersion /\ 0 \in 0..MaxEvents
  BY PageBounds
<1>9. Rest
  BY <1>8 DEF Rest, Init
<1> QED
  BY <1>7, <1>9 DEF PageIInv

LEMMA NextPage == PageIInv /\ [Next]_vars => PageIInv'
<1> SUFFICES ASSUME PageIInv, [Next]_vars PROVE PageIInv'
  OBVIOUS
<1>1. Core /\ Rest
  BY DEF PageIInv
<1>2. CASE Owner
  BY <1>1, <1>2, OwnerCore, OwnerRest DEF PageIInv
<1>3. CASE Elsewhere
  BY <1>1, <1>3, ElsewhereCore, ElsewhereRest DEF PageIInv
<1>4. CASE EventStream
  BY <1>1, <1>4, StreamCore, StreamRest DEF PageIInv
<1>5. ASSUME NEW s \in Slots, Serve(s) \/ AnswerLost(s) PROVE PageIInv'
  BY <1>1, <1>5, ServeCore, ServeRest DEF PageIInv
<1>6. ASSUME NEW s \in Slots, Apply(s) PROVE PageIInv'
  BY <1>1, <1>6, ApplyCore, ApplyRest DEF PageIInv
<1>7. CASE UNCHANGED vars
  <2>1. Core'
    BY <1>1, <1>7 DEF Core, vars
  <2>2. Rest'
    BY <1>1, <1>7 DEF Rest, vars, server
  <2> QED
    BY <2>1, <2>2 DEF PageIInv
<1> QED
  BY <1>2, <1>3, <1>4, <1>5, <1>6, <1>7 DEF Next

LEMMA PageInvariant == Spec => []PageIInv
  BY InitPage, NextPage, PTL DEF Spec

LEMMA PageTypes == PageIInv => TypeOK
<1> SUFFICES ASSUME PageIInv PROVE TypeOK
  OBVIOUS
<1>1. ui \in Ui /\ requests \in [Slots -> Request] /\ stream \in EventSource /\ unsent \subseteq Conversations
  BY DEF PageIInv, Core, GoodUi, GoodRequests, Agree
<1>2. Rest
  BY DEF PageIInv
<1> QED
  BY <1>1, <1>2 DEF TypeOK, Ui, Request, EventSource, Rest

(* On every page a control is busy exactly while its request is in flight  *)
(* (createConversation, sendTurn, deleteConversation and their `finally`). *)
THEOREM PageCorrect == Spec => []PageInv
<1>1. PageIInv => PageInv
  BY PageTypes DEF PageIInv, Core, Agree, PageInv, BusyControlsHaveRequests
<1> QED
  BY <1>1, PageInvariant, PTL

(* In whatever order answers, snapshots and clicks come, the page shows and *)
(* streams the conversation that is selected (applySnapshot,                *)
(* loadConversation, the effect of selectedId).                             *)
THEOREM PageShowsTheSelection == Spec => []ShowsTheSelection
<1>1. PageIInv => ShowsTheSelection
  BY DEF PageIInv, Core, GoodUi, ShowsTheSelection
<1> QED
  BY <1>1, PageInvariant, PTL

(* A message stays with the conversation it was typed in (sendTurn,        *)
(* updateText, selectConversation).                                        *)
THEOREM MessagesStay == Spec => []MessagesStayInTheirConversation
<1>1. PageIInv => MessagesStayInTheirConversation
  BY DEF PageIInv, Core, GoodUi, MessagesStayInTheirConversation
<1> QED
  BY <1>1, PageInvariant, PTL

(* What was typed and not accepted is a draft or on its way, whatever      *)
(* answers are lost or refused (sendTurn's error paths).                   *)
THEOREM TypedIsKept == Spec => []NothingTypedIsLost
<1>1. PageIInv => NothingTypedIsLost
  BY DEF PageIInv, Core, Agree, NothingTypedIsLost
<1> QED
  BY <1>1, PageInvariant, PTL
=============================================================================
