---------------------------- MODULE AssistantPage ----------------------------
(***************************************************************************)
(* The owner's Assistant page (src/components/assistant.tsx), the session  *)
(* check and stream forwarding between it and the worker                   *)
(* (src/lib/assistant-worker.ts), and the worker's HTTP surface            *)
(* (worker/src/server.ts) as the page sees it.                             *)
(*                                                                         *)
(* A conversation's saved state is its version: the number of turn starts  *)
(* and ends so far, so that an odd version is one with a running turn.     *)
(* A message is represented by the conversation it was typed in.           *)
(* React commits a handler's state and runs its effects before the next    *)
(* event, so a handler and its effects are one action.                     *)
(***************************************************************************)
EXTENDS Integers, FiniteSets

CONSTANTS Conversations, \* ids a conversation can get
          None,          \* no conversation
          MaxVersion,    \* bound: turn starts and ends of a conversation
          MaxRequests,   \* bound: requests in flight
          MaxEvents      \* bound: the owner's clicks, other devices' calls and failures

ASSUME NoneIsNoConversation == None \notin Conversations
\* Opening the page takes two requests.
ASSUME PageBounds == MaxVersion \in Nat /\ MaxRequests \in Nat \ {0, 1} /\ MaxEvents \in Nat

VARIABLES
  present,   \* conversations the worker has
  removed,   \* and those deleted
  version,   \* the saved state of each
  worker,    \* the worker answers
  session,   \* the browser's session is valid
  page,      \* "app", or "login" once redirected
  ui,        \* the page's state
  requests,  \* its requests in flight
  stream,    \* its event source, the forwarded stream and the reconnect check
  unsent,    \* history: conversations with a typed message no one accepted
  events     \* bound counter

server == <<present, removed, version>>
vars == <<present, removed, version, worker, session, page, ui, requests, stream, unsent, events>>

Maybe == Conversations \cup {None}
Slots == 1..MaxRequests
Listing == [Conversations -> {"no", "idle", "running"}]
Running(v) == v % 2 = 1
StatusOf(v) == IF Running(v) THEN "running" ELSE "idle"
Listed == [c \in Conversations |-> IF c \in present THEN StatusOf(version[c]) ELSE "no"]

NoDetail == [id |-> None, version |-> 0]
Detail(c, v) == [id |-> c, version |-> v]

EmptyUi ==
  [selected |-> None, detail |-> NoDetail, list |-> [c \in Conversations |-> "no"],
   historyFails |-> FALSE, liveError |-> FALSE, creating |-> FALSE, deleting |-> None,
   sending |-> {}, optimistic |-> None, text |-> None,
   drafts |-> [c \in Conversations |-> None]]

\* id is the conversation a request names or was made from, made the one it
\* created, flag what the page noted at the click.
Idle == [op |-> "none", id |-> None, flag |-> FALSE, status |-> "sent", version |-> 0,
         list |-> EmptyUi.list, made |-> None]
NewRequest(op, c, flag) == [Idle EXCEPT !.op = op, !.id = c, !.flag = flag]

\* The requests with one more in a free slot, and whether there is room for n.
Room(reqs, n) == Cardinality({s \in Slots : reqs[s].op = "none"}) >= n
Issue(reqs, op, c, flag) ==
  [reqs EXCEPT ![CHOOSE s \in Slots : reqs[s].op = "none"] = NewRequest(op, c, flag)]
Done(s) == [requests EXCEPT ![s] = Idle]

\* The event source of conversation c: chunk is a snapshot on its way (none is
\* -1), check the request of verifyReconnect and its answer, verdict (history)
\* what the last one said after the source had given up.
Source(c) == [id |-> c, phase |-> IF c = None THEN "none" ELSE "connecting",
              chunk |-> -1, check |-> "none", verdict |-> "none"]

TypeOK ==
  /\ present \subseteq Conversations /\ removed \subseteq Conversations
  /\ version \in [Conversations -> 0..MaxVersion]
  /\ worker \in BOOLEAN /\ session \in BOOLEAN
  /\ page \in {"app", "login"}
  /\ ui \in [selected : Maybe, detail : [id : Maybe, version : 0..MaxVersion], list : Listing,
             historyFails : BOOLEAN, liveError : BOOLEAN, creating : BOOLEAN, deleting : Maybe,
             sending : SUBSET Conversations, optimistic : Maybe, text : Maybe,
             drafts : [Conversations -> Maybe]]
  /\ requests \in [Slots -> [op : {"none", "list", "load", "create", "send", "delete"}, id : Maybe,
                             flag : BOOLEAN, status : {"sent", "ok", "401", "404", "409", "503"},
                             version : 0..MaxVersion, list : Listing, made : Maybe]]
  /\ stream \in [id : Maybe, phase : {"none", "connecting", "open", "closed"},
                 chunk : -1..MaxVersion, check : {"none", "sent", "ok", "401", "404", "503"},
                 verdict : {"none", "ok", "404", "503"}]
  /\ unsent \subseteq Conversations
  /\ events \in 0..MaxEvents

Event == events < MaxEvents /\ events' = events + 1

-----------------------------------------------------------------------------
(* The page's helpers *)

SelectKeepsText(u, c) ==
  [u EXCEPT !.selected = c, !.detail = NoDetail, !.liveError = FALSE, !.optimistic = None]

Select(u, c) ==
  [u EXCEPT !.selected = c, !.detail = NoDetail, !.liveError = FALSE, !.optimistic = None,
            !.text = u.drafts[c]]

Clear(u) ==
  [u EXCEPT !.selected = None, !.detail = NoDetail, !.liveError = FALSE, !.optimistic = None,
            !.text = None]

\* The states after conversation c leaves the history: the first of those that
\* remain is selected instead. Their order is left open.
SelectNext(u) ==
  LET remaining == {c \in Conversations : u.list[c] # "no"}
  IN IF remaining = {} THEN {Clear(u)} ELSE {Select(u, c) : c \in remaining}

Unlist(u, c) == [u EXCEPT !.list[c] = "no"]

Remove(u, c) ==
  IF u.selected = c THEN SelectNext(Unlist(u, c)) ELSE {Unlist(u, c)}

\* The detail of conversation c at version v replaces what is shown of it.
Show(u, c, v) ==
  [u EXCEPT !.detail = Detail(c, v), !.list[c] = StatusOf(v), !.optimistic = None]

\* A handler's new state with the effects that follow a change of selection:
\* the conversation is fetched and the event source replaced.
Commit(u, reqs, source) ==
  /\ ui' = u /\ page' = page
  /\ IF u.selected = ui.selected
     THEN requests' = reqs /\ stream' = source
     ELSE /\ stream' = Source(u.selected)
          /\ IF u.selected = None
             THEN requests' = reqs
             ELSE Room(reqs, 1) /\ requests' = Issue(reqs, "load", u.selected, FALSE)

\* redirectIfUnauthorized: the page is gone, with its requests and drafts.
Redirect ==
  /\ page' = "login"
  /\ ui' = EmptyUi /\ requests' = [s \in Slots |-> Idle] /\ stream' = Source(None)
  /\ unsent' = {}

OnPage == page = "app" /\ UNCHANGED <<server, worker, session, events>>
Click == page = "app" /\ Event /\ UNCHANGED <<server, worker, session>>

-----------------------------------------------------------------------------
(* The owner *)

OpenPage(requested) ==
  /\ session /\ requested \in present \cup removed \cup {None}
  /\ page' = "app"
  /\ ui' = [EmptyUi EXCEPT !.selected = requested]
  /\ stream' = Source(requested)
  /\ LET none == [s \in Slots |-> Idle]
         listing == Issue(none, "list", None, requested = None)
     IN requests' = IF requested = None THEN listing ELSE Issue(listing, "load", requested, FALSE)
  /\ unsent' = {}
  /\ IF page = "app" THEN Event ELSE UNCHANGED events
  /\ UNCHANGED <<server, worker, session>>

\* proxy.ts turns a page request without a session away.
OpenWithoutSession ==
  /\ ~session /\ page = "app" /\ Redirect
  /\ UNCHANGED <<server, worker, session, events>>

SelectConversation(c) ==
  /\ Click /\ ui.list[c] # "no"
  /\ Commit(Select(ui, c), requests, stream)
  /\ UNCHANGED unsent

\* bound: while there are ids left
CreateConversation ==
  /\ Click /\ ~ui.creating /\ Room(requests, 1) /\ present \cup removed # Conversations
  /\ Commit([ui EXCEPT !.creating = TRUE], Issue(requests, "create", ui.selected, FALSE), stream)
  /\ UNCHANGED unsent

\* The composer is disabled without a loaded conversation, and while it works.
ComposerEnabled ==
  /\ ui.selected # None /\ ui.detail.id = ui.selected
  /\ ~Running(ui.detail.version) /\ ui.selected \notin ui.sending

TypeText ==
  /\ OnPage /\ ComposerEnabled
  /\ ui' = [ui EXCEPT !.text = ui.selected, !.drafts[ui.selected] = ui.selected]
  /\ unsent' = unsent \cup {ui.selected}
  /\ UNCHANGED <<page, requests, stream>>

SendTurn ==
  /\ Click /\ ComposerEnabled /\ ui.text # None /\ Room(requests, 1)
  /\ LET c == ui.selected
     IN Commit([ui EXCEPT !.drafts[c] = None, !.sending = @ \cup {c}, !.optimistic = c,
                          !.text = None],
               Issue(requests, "send", c, FALSE), stream)
  /\ UNCHANGED unsent

\* The confirmation dialog and the click that opens it are one step.
DeleteConversation(c) ==
  /\ Click /\ ui.list[c] = "idle" /\ ui.deleting # c /\ Room(requests, 1)
  /\ Commit([ui EXCEPT !.deleting = c], Issue(requests, "delete", c, ui.selected = c), stream)
  /\ UNCHANGED unsent

RetryHistory ==
  /\ Click /\ ui.historyFails /\ Room(requests, 1)
  /\ Commit(ui, Issue(requests, "list", None, FALSE), stream)
  /\ UNCHANGED unsent

SessionEnds ==
  /\ session /\ session' = FALSE /\ Event
  /\ UNCHANGED <<server, worker, page, ui, requests, stream, unsent>>

SignIn ==
  /\ ~session /\ page = "login" /\ session' = TRUE
  /\ UNCHANGED <<server, worker, page, ui, requests, stream, unsent, events>>

-----------------------------------------------------------------------------
(* The server side *)

\* What a request is answered: assistantRequest checks the session, forwards to
\* the worker, and hides every failure of the worker behind one answer.
Refused == IF ~session THEN "401" ELSE IF ~worker THEN "503" ELSE "no"
Answer(s, status) == requests' = [requests EXCEPT ![s].status = status]
Pending(s, op) == requests[s].op = op /\ requests[s].status = "sent"

ServeRefused(s) ==
  /\ requests[s].op # "none" /\ requests[s].status = "sent" /\ Refused # "no"
  /\ Answer(s, Refused)
  /\ UNCHANGED <<server, worker, session, page, ui, stream, unsent, events>>

ServeList(s) ==
  /\ Pending(s, "list") /\ Refused = "no"
  /\ requests' = [requests EXCEPT ![s].status = "ok", ![s].list = Listed]
  /\ UNCHANGED <<server, worker, session, page, ui, stream, unsent, events>>

ServeLoad(s) ==
  /\ Pending(s, "load") /\ Refused = "no"
  /\ LET c == requests[s].id
     IN IF c \in present
        THEN requests' = [requests EXCEPT ![s].status = "ok", ![s].version = version[c]]
        ELSE Answer(s, "404")
  /\ UNCHANGED <<server, worker, session, page, ui, stream, unsent, events>>

ServeCreate(s) ==
  /\ Pending(s, "create") /\ Refused = "no"
  /\ \E c \in Conversations \ (present \cup removed) :
       /\ present' = present \cup {c}
       /\ requests' = [requests EXCEPT ![s].status = "ok", ![s].made = c]
  /\ UNCHANGED <<removed, version, worker, session, page, ui, stream, unsent, events>>

ServeSend(s) ==
  /\ Pending(s, "send") /\ Refused = "no"
  /\ LET c == requests[s].id
     IN \/ /\ c \notin present /\ Answer(s, "404") /\ UNCHANGED <<version, unsent>>
        \/ /\ c \in present /\ Running(version[c])
           /\ Answer(s, "409") /\ UNCHANGED <<version, unsent>>
        \/ /\ c \in present /\ ~Running(version[c]) /\ version[c] < MaxVersion
           /\ version' = [version EXCEPT ![c] = @ + 1]
           /\ requests' = [requests EXCEPT ![s].status = "ok", ![s].version = version[c] + 1]
           /\ unsent' = unsent \ {c}
        \/ \* the provider is unavailable
           c \in present /\ Answer(s, "503") /\ UNCHANGED <<version, unsent>>
  /\ UNCHANGED <<present, removed, worker, session, page, ui, stream, events>>

ServeDelete(s) ==
  /\ Pending(s, "delete") /\ Refused = "no"
  /\ LET c == requests[s].id
     IN \/ c \notin present /\ Answer(s, "404") /\ UNCHANGED <<present, removed>>
        \/ /\ c \in present /\ Running(version[c])
           /\ Answer(s, "409") /\ UNCHANGED <<present, removed>>
        \/ /\ c \in present /\ ~Running(version[c])
           /\ present' = present \ {c} /\ removed' = removed \cup {c}
           /\ Answer(s, "ok")
  /\ UNCHANGED <<version, worker, session, page, ui, stream, unsent, events>>

\* No answer reaches the page, whether or not the worker had acted.
AnswerLost(s) ==
  /\ requests[s].op # "none" /\ requests[s].status # "503" /\ Event
  /\ Answer(s, "503")
  /\ UNCHANGED <<server, worker, session, page, ui, stream, unsent>>

TurnEnds(c) ==
  /\ worker /\ c \in present /\ Running(version[c]) /\ version[c] < MaxVersion
  /\ version' = [version EXCEPT ![c] = @ + 1]
  /\ UNCHANGED <<present, removed, worker, session, page, ui, requests, stream, unsent, events>>

\* The same owner on another device.
OtherDeviceSends(c) ==
  /\ Event /\ worker /\ c \in present /\ ~Running(version[c]) /\ version[c] < MaxVersion
  /\ version' = [version EXCEPT ![c] = @ + 1]
  /\ UNCHANGED <<present, removed, worker, session, page, ui, requests, stream, unsent>>

OtherDeviceDeletes(c) ==
  /\ Event /\ worker /\ c \in present /\ ~Running(version[c])
  /\ present' = present \ {c} /\ removed' = removed \cup {c}
  /\ UNCHANGED <<version, worker, session, page, ui, requests, stream, unsent>>

-----------------------------------------------------------------------------
(* The answers *)

Answered(s, op) == requests[s].op = op /\ requests[s].status # "sent"
Status(s) == requests[s].status

ListAnswered(s) ==
  /\ OnPage /\ Answered(s, "list")
  /\ CASE Status(s) = "401" -> Redirect
       [] Status(s) = "503" ->
            Commit([ui EXCEPT !.historyFails = TRUE], Done(s), stream) /\ UNCHANGED unsent
       [] OTHER ->
            LET u == [ui EXCEPT !.list = requests[s].list, !.historyFails = FALSE]
            IN /\ \E next \in IF requests[s].flag /\ ui.selected = None THEN SelectNext(u) ELSE {u} :
                     Commit(next, Done(s), stream)
               /\ UNCHANGED unsent

\* loadConversation: an answer for a conversation no longer selected is dropped.
LoadAnsweredLate(s) ==
  /\ OnPage /\ Answered(s, "load") /\ Status(s) = "ok"
  /\ Commit(Show(ui, requests[s].id, requests[s].version), Done(s), stream)
  /\ UNCHANGED unsent

LoadAnswered(s) ==
  /\ OnPage /\ Answered(s, "load")
  /\ LET c == requests[s].id
     IN CASE ui.selected # c -> Commit(ui, Done(s), stream) /\ UNCHANGED unsent
          [] ui.selected = c /\ Status(s) = "404" ->
               /\ \E u \in Remove(ui, c) :
                    \/ Commit(u, Issue(Done(s), "list", None, FALSE), stream)
                    \/ \* bound: a listing that there is no slot for fails at once
                       /\ ~Room(Done(s), 2)
                       /\ Commit([u EXCEPT !.historyFails = TRUE], Done(s), stream)
               /\ UNCHANGED unsent
          [] ui.selected = c /\ Status(s) = "401" -> Redirect
          [] ui.selected = c /\ Status(s) = "503" ->
               Commit(ui, Done(s), stream) /\ UNCHANGED unsent
          [] OTHER -> Commit(Show(ui, c, requests[s].version), Done(s), stream) /\ UNCHANGED unsent

CreateAnswered(s) ==
  /\ OnPage /\ Answered(s, "create")
  /\ LET origin == requests[s].id
         u == [ui EXCEPT !.creating = FALSE]
         made == requests[s].made
     IN IF Status(s) = "ok"
        THEN LET shown == [u EXCEPT !.list[made] = "idle"]
             IN /\ Commit(IF ui.selected = origin THEN Select(shown, made) ELSE shown,
                          Done(s), stream)
                /\ UNCHANGED unsent
        ELSE IF Status(s) = "401" /\ ui.selected = origin
             THEN Redirect
             ELSE Commit(u, Done(s), stream) /\ UNCHANGED unsent

AfterSendWhenShown(u, c, failed) ==
  [u EXCEPT !.sending = @ \ {c}, !.drafts[c] = IF failed /\ u.selected = c THEN c ELSE @]
AfterSendStaysBusy(u, c, failed) ==
  [u EXCEPT !.sending = IF u.selected = c THEN @ \ {c} ELSE @, !.drafts[c] = IF failed THEN c ELSE @]
AfterSend(u, c, failed) ==
  [u EXCEPT !.sending = @ \ {c}, !.drafts[c] = IF failed THEN c ELSE @]

SendAnswered(s) ==
  /\ OnPage /\ Answered(s, "send")
  /\ LET c == requests[s].id
         failed == Status(s) # "ok"
         active == ui.selected = c
         u == AfterSend(ui, c, failed)
         restored == [u EXCEPT !.text = c, !.optimistic = None]
     IN CASE ~active -> Commit(u, Done(s), stream) /\ UNCHANGED unsent
          [] active /\ Status(s) = "409" ->
               Commit(restored, Issue(Done(s), "load", c, FALSE), stream) /\ UNCHANGED unsent
          [] active /\ Status(s) = "401" -> Redirect
          [] active /\ failed /\ Status(s) \notin {"409", "401"} ->
               Commit(restored, Done(s), stream) /\ UNCHANGED unsent
          [] OTHER ->
               /\ Commit([u EXCEPT !.detail = IF @.id = c THEN Detail(c, requests[s].version) ELSE @],
                         Issue(Done(s), "load", c, FALSE), stream)
               /\ UNCHANGED unsent

DeleteAnswered(s) ==
  /\ OnPage /\ Answered(s, "delete")
  /\ LET c == requests[s].id
         u == [ui EXCEPT !.deleting = IF @ = c THEN None ELSE @]
         left == Unlist([u EXCEPT !.drafts[c] = None], c)
     IN CASE Status(s) = "401" -> Redirect
          [] Status(s) = "ok" ->
               /\ \E next \in IF requests[s].flag /\ ui.selected = c THEN SelectNext(left) ELSE {left} :
                     Commit(next, Done(s), stream)
               /\ unsent' = unsent \ {c}
          [] OTHER -> Commit(u, Done(s), stream) /\ UNCHANGED unsent

-----------------------------------------------------------------------------
(* The event stream *)

\* onerror: one check at a time.
Failed(phase) ==
  /\ stream' = [stream EXCEPT !.phase = phase, !.chunk = -1,
                             !.check = IF @ = "none" THEN "sent" ELSE @]
  /\ ui' = [ui EXCEPT !.liveError = TRUE]

OnStream(phase) ==
  /\ page = "app" /\ stream.phase = phase
  /\ UNCHANGED <<server, worker, session, page, requests, unsent>>

\* A connection the server refuses is not retried by the event source.
StreamRefused ==
  /\ OnStream("connecting") /\ UNCHANGED events
  /\ Refused # "no" \/ stream.id \notin present
  /\ Failed("closed")

StreamOpens ==
  /\ OnStream("connecting") /\ UNCHANGED <<ui, events>>
  /\ Refused = "no" /\ stream.id \in present
  /\ stream' = [stream EXCEPT !.phase = "open", !.chunk = version[stream.id]]

\* On every change, and every second.
StreamWrites ==
  /\ OnStream("open") /\ worker /\ stream.id \in present /\ UNCHANGED <<ui, events>>
  /\ stream' = [stream EXCEPT !.chunk = version[stream.id]]

\* The response ends: the conversation is gone, the worker stopped, the session
\* check failed, or the stream's lifetime is over.
StreamEnds ==
  /\ OnStream("open") /\ UNCHANGED events
  /\ ~worker \/ ~session \/ stream.id \notin present
  /\ Failed("connecting")

StreamLifetimeEnds == OnStream("open") /\ Event /\ Failed("connecting")

\* A connection that breaks without an answer is tried again.
StreamBreaks ==
  /\ OnStream("connecting") /\ Event /\ Failed("connecting")

SnapshotArrives ==
  /\ OnPage /\ stream.phase = "open" /\ stream.chunk # -1
  /\ LET u == [Show(ui, stream.id, stream.chunk) EXCEPT !.liveError = FALSE]
     IN Commit(IF ui.selected = stream.id THEN u ELSE ui, requests, [stream EXCEPT !.chunk = -1])
  /\ UNCHANGED unsent

ServeCheck ==
  /\ OnStream(stream.phase) /\ stream.check = "sent" /\ UNCHANGED <<ui, events>>
  /\ stream' = [stream EXCEPT !.check = IF Refused # "no" THEN Refused
                                         ELSE IF stream.id \in present THEN "ok" ELSE "404"]

CheckLost ==
  /\ OnStream(stream.phase) /\ stream.check \notin {"none", "503"} /\ Event /\ UNCHANGED ui
  /\ stream' = [stream EXCEPT !.check = "503"]

Checked ==
  [stream EXCEPT !.check = "none", !.verdict = IF stream.phase = "closed" THEN stream.check ELSE @]

\* Faulty variant: only the end of the session is acted on.
CheckAnsweredRetries ==
  /\ OnPage /\ stream.check \notin {"none", "sent"}
  /\ LET settled == Checked
     IN CASE stream.check = "ok" -> Commit(ui, requests, settled) /\ UNCHANGED unsent
          [] stream.check = "401" -> Redirect
          [] OTHER -> Commit([ui EXCEPT !.liveError = TRUE], requests, settled) /\ UNCHANGED unsent

\* verifyReconnect, after its request.
CheckAnswered ==
  /\ OnPage /\ stream.check \notin {"none", "sent"}
  /\ LET settled == Checked
     IN CASE stream.check = "ok" -> Commit(ui, requests, settled) /\ UNCHANGED unsent
          [] stream.check = "404" ->
               /\ Room(requests, 1)
               /\ \E u \in Remove(ui, stream.id) :
                    Commit(u, Issue(requests, "list", None, FALSE), [settled EXCEPT !.phase = "closed"])
               /\ UNCHANGED unsent
          [] stream.check = "401" -> Redirect
          [] OTHER -> Commit([ui EXCEPT !.liveError = TRUE], requests, settled) /\ UNCHANGED unsent

WorkerStops ==
  /\ worker /\ worker' = FALSE /\ Event
  /\ UNCHANGED <<server, session, page, ui, requests, stream, unsent>>

WorkerReturns ==
  /\ ~worker /\ worker' = TRUE
  /\ UNCHANGED <<server, session, page, ui, requests, stream, unsent, events>>

-----------------------------------------------------------------------------

Init ==
  /\ present \in SUBSET Conversations /\ removed = {}
  /\ version = [c \in Conversations |-> 0]
  /\ worker = TRUE /\ session = TRUE
  /\ page = "login" /\ ui = EmptyUi
  /\ requests = [s \in Slots |-> Idle] /\ stream = Source(None)
  /\ unsent = {} /\ events = 0

Serve(s) == ServeRefused(s) \/ ServeList(s) \/ ServeLoad(s) \/ ServeCreate(s) \/ ServeSend(s) \/ ServeDelete(s)
Apply(s) == ListAnswered(s) \/ LoadAnswered(s) \/ CreateAnswered(s) \/ SendAnswered(s) \/ DeleteAnswered(s)

Owner ==
  \/ \E c \in Maybe : OpenPage(c)
  \/ OpenWithoutSession
  \/ \E c \in Conversations : SelectConversation(c) \/ DeleteConversation(c)
  \/ CreateConversation \/ TypeText \/ SendTurn \/ RetryHistory
  \/ SessionEnds \/ SignIn

Elsewhere ==
  \/ \E c \in Conversations : TurnEnds(c) \/ OtherDeviceSends(c) \/ OtherDeviceDeletes(c)
  \/ WorkerStops \/ WorkerReturns

EventStream ==
  \/ StreamRefused \/ StreamOpens \/ StreamWrites \/ StreamEnds \/ StreamLifetimeEnds
  \/ StreamBreaks \/ SnapshotArrives
  \/ ServeCheck \/ CheckLost \/ CheckAnswered

Next ==
  \/ Owner \/ Elsewhere \/ EventStream
  \/ \E s \in Slots : Serve(s) \/ AnswerLost(s) \/ Apply(s)

Spec == Init /\ [][Next]_vars

(* Requests end within ten seconds, the event source connects or fails within *)
(* seconds, and a snapshot is written every second of a stream that lives for *)
(* minutes. The strong ones are for steps that the owner, who may open the    *)
(* page again and again, interrupts.                                          *)
Fairness ==
  /\ \A s \in Slots : WF_vars(Serve(s) \/ Apply(s))
  /\ SF_vars(StreamOpens \/ StreamRefused) /\ WF_vars(StreamEnds)
  /\ WF_vars(StreamWrites) /\ SF_vars(SnapshotArrives)
  /\ WF_vars(ServeCheck \/ CheckAnswered)

FairSpec == Spec /\ Fairness

\* And the worker is restarted by its container.
ReturningSpec == FairSpec /\ WF_vars(WorkerReturns)

-----------------------------------------------------------------------------

\* A control is disabled as busy exactly while the request that will enable it
\* again is in flight.
BusyControlsHaveRequests ==
  /\ ui.creating = (\E s \in Slots : requests[s].op = "create")
  /\ \A c \in Conversations :
       c \in ui.sending <=> \E s \in Slots : requests[s].op = "send" /\ requests[s].id = c
  /\ ui.deleting # None => \E s \in Slots : requests[s].op = "delete" /\ requests[s].id = ui.deleting

PageInv == TypeOK /\ BusyControlsHaveRequests

\* What the page shows, streams and announces as pending is of the selected
\* conversation: no late answer of another one lands in it.
ShowsTheSelection ==
  /\ ui.detail.id \in {None, ui.selected}
  /\ ui.optimistic \in {None, ui.selected}
  /\ stream.id = ui.selected

\* A message stays with the conversation it was typed in, as a draft, in the
\* composer and when it is sent (sendTurn, updateText, selectConversation).
MessagesStayInTheirConversation ==
  /\ \A c \in Conversations : ui.drafts[c] \in {None, c}
  /\ ui.text # None => ui.text = ui.selected

\* What the owner typed and no worker accepted is a draft or on its way, until
\* the page is left or the conversation is deleted.
NothingTypedIsLost ==
  \A c \in unsent :
    \/ ui.drafts[c] = c
    \/ \E s \in Slots : requests[s].op = "send" /\ requests[s].id = c

\* The page shows the saved state of a selected conversation under a valid
\* session, or has none selected; or its event source has given up (Reconnects)
\* and the check made after that found the conversation there or found nothing
\* out: it did not say that the conversation or the session is gone.
Settled ==
  \/ ui.selected = None
  \/ session /\ ui.selected \in present
     /\ ui.detail = Detail(ui.selected, version[ui.selected])
  \/ stream.phase = "closed" /\ stream.check = "none" /\ stream.verdict \in {"ok", "503"}

\* However answers, snapshots and reconnections interleave, the page settles:
\* a stale answer is replaced, and a page whose stream ends or is refused is left
\* if its check finds the conversation deleted (for another one) or the session
\* ended (applySnapshot, verifyReconnect, the re-check of a forwarded stream).
Converges == []<>Settled

\* "Live updates unavailable ... Reconnecting...": a page saying so reconnects.
Reconnects ==
  \A c \in Conversations :
    ui.liveError /\ ui.selected = c
      ~> ui.selected # c \/ ~ui.liveError \/ stream.phase = "open"
=============================================================================
