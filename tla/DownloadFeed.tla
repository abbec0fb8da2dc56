---------------------------- MODULE DownloadFeed ----------------------------
(***************************************************************************)
(* worker/src/downloads.ts (collect, downloadQueue), lib/downloads.ts      *)
(* (fetchDownloadQueue) and components/download-queue.tsx                  *)
(* (useDownloadQueue): the queues of Radarr and Sonarr on their way from   *)
(* the services, over the worker's cache, to the pages that poll them.     *)
(*                                                                         *)
(* A queue is the set of the services that it has; what such a queue is    *)
(* made of is DownloadProjection.  Callers share one collection at a time, *)
(* and what it brings for CacheTime, failures included.                    *)
(***************************************************************************)
EXTENDS Naturals

CONSTANTS
    Service,
    Card,                  \* documents that mount the card
    CacheTime              \* CACHE_MS, in ticks

ASSUME FeedAssumption == CacheTime \in Nat \ {0}

VARIABLES
    up,                    \* external: the services that answer at once; nothing else fails
                           \* while all do
    cached,
    inflight,
    reads,                 \* history: reads of each service that are under way
    rested,                \* history: ticks since a collection ended, at most CacheTime
    cards,
    arrived                \* history: did the card's latest completed request bring a queue?

feedVars == <<up, cached, inflight, reads, rested, cards, arrived>>

Queue == SUBSET Service

NoCache == [value |-> {}, age |-> CacheTime]
NotCollecting == [running |-> FALSE, pending |-> {}, value |-> {}]

FreshCard(state) ==
    [state |-> state, request |-> "none", served |-> {}, aborted |-> "no",
     hasQueue |-> FALSE, queue |-> {}, status |-> "loading"]

CardState ==
    [state : {"visible", "hidden", "left"}, request : {"none", "asked", "waiting", "served"},
     served : Queue, aborted : {"no", "timeout", "hidden"},
     hasQueue : BOOLEAN, queue : Queue, status : {"loading", "available", "stale", "unavailable"}]

FeedTypeOK ==
    /\ up \in Queue
    /\ cached \in [value : Queue, age : 0..CacheTime]
    /\ inflight \in [running : BOOLEAN, pending : SUBSET Service, value : Queue]
    /\ reads \in [Service -> Nat]
    /\ rested \in 0..CacheTime
    /\ cards \in [Card -> CardState]
    /\ arrived \in [Card -> BOOLEAN]

FeedInit ==
    /\ up \in Queue
    /\ cached = NoCache
    /\ inflight = NotCollecting
    /\ reads = [s \in Service |-> 0]
    /\ rested = CacheTime
    /\ cards = [d \in Card |-> FreshCard("left")]
    /\ arrived = [d \in Card |-> FALSE]

-----------------------------------------------------------------------------
(* The services and the worker.                                            *)

ServicesChange ==
    /\ up' \in Queue \ {up}
    /\ UNCHANGED <<cached, inflight, reads, rested, cards, arrived>>

Older(age) == IF age < CacheTime THEN age + 1 ELSE age

TimePasses ==
    /\ cached.age < CacheTime \/ rested < CacheTime
    /\ cached' = [cached EXCEPT !.age = Older(@)]
    /\ rested' = Older(rested)
    /\ UNCHANGED <<up, inflight, reads, cards, arrived>>

\* serviceQueue: the adapter's answer, or the reason why there is none.
ServiceAnswers(s) ==
    /\ s \in inflight.pending
    /\ inflight' = [inflight EXCEPT !.pending = @ \ {s},
                                    !.value = IF s \in up THEN @ \cup {s} ELSE @]
    /\ reads' = [reads EXCEPT ![s] = @ - 1]
    /\ UNCHANGED <<up, cached, rested, cards, arrived>>

\* collect().then: whatever was collected.
Keeps(value) == [value |-> value, age |-> 0]

\* Both services have answered or failed: all who wait are answered.
Collected ==
    /\ inflight.running
    /\ inflight.pending = {}
    /\ cached' = Keeps(inflight.value)
    /\ inflight' = NotCollecting
    /\ rested' = 0
    /\ cards' = [d \in Card |-> IF cards[d].request = "waiting"
                               THEN [cards[d] EXCEPT !.request = "served", !.served = inflight.value]
                               ELSE cards[d]]
    /\ UNCHANGED <<up, reads, arrived>>

IsFresh == cached.age < CacheTime

\* collect(): both services are read.
BeginCollection ==
    /\ inflight' = [running |-> TRUE, pending |-> Service, value |-> {}]
    /\ reads' = [s \in Service |-> reads[s] + 1]

\* Faulty variant: whoever finds no fresh queue collects one.
AskAnew(d) ==
    /\ cards[d].request = "asked"
    /\ IF IsFresh
       THEN /\ cards' = [cards EXCEPT ![d].request = "served", ![d].served = cached.value]
            /\ UNCHANGED <<inflight, reads>>
       ELSE cards' = [cards EXCEPT ![d].request = "waiting"] /\ BeginCollection
    /\ UNCHANGED <<up, cached, rested, arrived>>

(* GET /media/queue: from the cache, or with the collection that runs, or  *)
(* with a new one.                                                         *)
Ask(d) ==
    /\ cards[d].request = "asked"
    /\ IF IsFresh
       THEN /\ cards' = [cards EXCEPT ![d].request = "served", ![d].served = cached.value]
            /\ UNCHANGED <<inflight, reads>>
       ELSE /\ cards' = [cards EXCEPT ![d].request = "waiting"]
            /\ IF inflight.running THEN UNCHANGED <<inflight, reads>> ELSE BeginCollection
    /\ UNCHANGED <<up, cached, rested, arrived>>

-----------------------------------------------------------------------------
(* The card.                                                               *)

\* refresh.
Refreshed(card) ==
    IF card.request = "none" THEN [card EXCEPT !.request = "asked", !.aborted = "no"] ELSE card

PollQueue(d) ==
    /\ cards[d].state = "visible"
    /\ cards[d].request = "none"
    /\ cards' = [cards EXCEPT ![d] = Refreshed(@)]
    /\ UNCHANGED <<up, cached, inflight, reads, rested, arrived>>

\* start: nothing is asked while an aborted request is still unwinding.
ShowCard(d) ==
    /\ cards[d].state = "hidden"
    /\ cards' = [cards EXCEPT ![d] = Refreshed([@ EXCEPT !.state = "visible"])]
    /\ UNCHANGED <<up, cached, inflight, reads, rested, arrived>>

\* stop: the request is no longer the card's.
HideCard(d) ==
    /\ cards[d].state = "visible"
    /\ cards' = [cards EXCEPT ![d].state = "hidden",
                              ![d].aborted = IF cards[d].request = "none" THEN "no" ELSE "hidden"]
    /\ UNCHANGED <<up, cached, inflight, reads, rested, arrived>>

\* REQUEST_TIMEOUT_MS; services that answer do so before it.
QueueTimesOut(d) ==
    /\ cards[d].request # "none"
    /\ cards[d].aborted = "no"
    /\ up # Service
    /\ cards' = [cards EXCEPT ![d].aborted = "timeout"]
    /\ UNCHANGED <<up, cached, inflight, reads, rested, arrived>>

\* Faulty variant: finally looks after the card's own request only.
EndedIfOwned(card) ==
    IF card.aborted = "hidden" THEN card
    ELSE [card EXCEPT !.request = "none", !.served = {}, !.aborted = "no"]

\* finally.
Ended(card) == [card EXCEPT !.request = "none", !.served = {}, !.aborted = "no"]

\* catch: not for a request that is no longer the card's.
Failed(card) == [Ended(card) EXCEPT !.status = IF card.hasQueue THEN "stale" ELSE "unavailable"]

QueueArrives(d) ==
    /\ cards[d].request = "served"
    /\ cards[d].aborted = "no"
    /\ cards' = [cards EXCEPT ![d] = [Ended(@) EXCEPT !.hasQueue = TRUE, !.queue = cards[d].served,
                                                      !.status = "available"]]
    /\ arrived' = [arrived EXCEPT ![d] = TRUE]
    /\ UNCHANGED <<up, cached, inflight, reads, rested>>

\* The proxy or the worker is away, or the answer is not the contract's.
QueueFails(d) ==
    /\ cards[d].request # "none"
    /\ cards[d].aborted = "no"
    /\ up # Service
    /\ cards' = [cards EXCEPT ![d] = Failed(@)]
    /\ arrived' = [arrived EXCEPT ![d] = FALSE]
    /\ UNCHANGED <<up, cached, inflight, reads, rested>>

\* Faulty variant: a request that was cancelled counts as a failure.
FetchRejectsAlways(d) ==
    /\ cards[d].aborted # "no"
    /\ cards' = [cards EXCEPT ![d] = Failed(@)]
    /\ arrived' = [arrived EXCEPT ![d] = @ /\ cards[d].aborted # "timeout"]
    /\ UNCHANGED <<up, cached, inflight, reads, rested>>

\* The aborted fetch rejects.
FetchRejects(d) ==
    /\ cards[d].aborted # "no"
    /\ IF cards[d].aborted = "timeout"
       THEN /\ cards' = [cards EXCEPT ![d] = Failed(@)]
            /\ arrived' = [arrived EXCEPT ![d] = FALSE]
       ELSE /\ cards' = [cards EXCEPT ![d] = Ended(@)]
            /\ UNCHANGED arrived
    /\ UNCHANGED <<up, cached, inflight, reads, rested>>

\* The owner goes elsewhere, or the answer is 401.
LeaveCard(d) ==
    /\ cards[d].state # "left"
    /\ cards' = [cards EXCEPT ![d] = FreshCard("left")]
    /\ arrived' = [arrived EXCEPT ![d] = FALSE]
    /\ UNCHANGED <<up, cached, inflight, reads, rested>>

MountCard(d) ==
    /\ cards[d].state = "left"
    /\ cards' \in {[cards EXCEPT ![d] = card] :
                      card \in {Refreshed(FreshCard("visible")), FreshCard("hidden")}}
    /\ UNCHANGED <<up, cached, inflight, reads, rested, arrived>>

\* The worker is restarted; its requests fail, its reads end with it.
RestartWorker ==
    /\ up # Service
    /\ cached' = NoCache
    /\ inflight' = NotCollecting
    /\ reads' = [s \in Service |-> 0]
    /\ rested' = CacheTime
    /\ cards' = [d \in Card |->
          IF cards[d].request = "waiting" /\ cards[d].aborted = "no" THEN Failed(cards[d]) ELSE cards[d]]
    /\ arrived' = [d \in Card |->
          arrived[d] /\ ~(cards[d].request = "waiting" /\ cards[d].aborted = "no")]
    /\ UNCHANGED up

CollectionProceeds == (\E s \in Service : ServiceAnswers(s)) \/ Collected

CardProceeds(d) == PollQueue(d) \/ Ask(d) \/ QueueArrives(d) \/ FetchRejects(d)

FeedNext ==
    \/ ServicesChange
    \/ TimePasses
    \/ CollectionProceeds
    \/ RestartWorker
    \/ \E d \in Card :
          \/ CardProceeds(d)
          \/ MountCard(d) \/ LeaveCard(d) \/ ShowCard(d) \/ HideCard(d)
          \/ QueueFails(d) \/ QueueTimesOut(d)

FeedSpec == FeedInit /\ [][FeedNext]_feedVars

(* The adapter has a deadline, the interval timer fires, the worker and    *)
(* the browser serve what they are asked.                                  *)
FeedFairness ==
    /\ WF_feedVars(TimePasses)
    /\ WF_feedVars(CollectionProceeds)
    /\ \A d \in Card : WF_feedVars(CardProceeds(d))

FairFeedSpec == FeedSpec /\ FeedFairness

-----------------------------------------------------------------------------
(* Properties.                                                             *)

(* A card says "available" if and only if its latest completed request     *)
(* brought the queue that it shows, "stale" only over a queue, and never   *)
(* "unavailable" over one.  Waiting requests wait for a collection.        *)
FeedInv ==
    /\ FeedTypeOK
    /\ inflight.running \/ inflight = NotCollecting
    /\ \A d \in Card : LET card == cards[d] IN
          /\ card.status = "available" <=> arrived[d]
          /\ card.status \in {"available", "stale"} <=> card.hasQueue
          /\ card.aborted # "no" => card.request # "none"
          /\ card.state = "left" => card = FreshCard("left")
          /\ card.request = "waiting" /\ card.aborted = "no" => inflight.running

(* "Dashboard polling shares one upstream read per service within this     *)
(* window": whoever asks, a service is not read while it is being read,    *)
(* and again CacheTime after a collection has ended at the earliest,       *)
(* whatever that one brought.                                              *)
UpstreamIsSpared ==
    [][\A s \in Service : reads'[s] > reads[s] => reads[s] = 0 /\ rested = CacheTime]_feedVars

(* A failure is not kept for ever: once the services answer for good, a    *)
(* card that stays visible comes to show the queues of all and goes on to. *)
QueuesRecover ==
    \A d \in Card :
        <>[](up = Service /\ cards[d].state = "visible") =>
            <>[](cards[d].status = "available" /\ cards[d].queue = Service)
=============================================================================
