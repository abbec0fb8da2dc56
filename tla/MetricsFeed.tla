---------------------------- MODULE MetricsFeed ----------------------------
(***************************************************************************)
(* lib/host-metrics.ts (collectHostMetrics, measureCpu) and                *)
(* components/server-metrics.tsx (ServerMetricsProvider): the readings of  *)
(* the Server and the pages that poll them.                                *)
(*                                                                         *)
(* CPU use is measured between two samples of /proc/stat, and the earlier  *)
(* sample is one variable that all collections share.  A collection reads  *)
(* its sample before it is through with the other sources, and it goes on  *)
(* when the page that asked for it has given up: collections overlap, even *)
(* those of one page.                                                      *)
(*                                                                         *)
(* A sample is the time it was taken at (the counters only grow), and a    *)
(* reading is the interval it covers; ram stands for all readings but CPU, *)
(* whose times are not told apart.  An aborted fetch rejects, in a step of *)
(* its own; the page is prepared for events before that step.              *)
(***************************************************************************)
EXTENDS Naturals

CONSTANTS
    Page,                  \* documents that mount the provider
    Collection,            \* bound: collections that run at a time
    None,
    MaxTime                \* bound: times told apart

ASSUME MetricsAssumption ==
    /\ None \notin Collection
    /\ MaxTime \in Nat \ {0}

VARIABLES
    now,
    previous,              \* previousCpuSamples: 0 before the first sample
    collections,           \* GET /api/metrics, on the server
    pages,
    brought,               \* history: the readings that the latest completed request brought
    due                    \* history: pages that have completed no request since they were shown

vars == <<now, previous, collections, pages, brought, due>>

Time == 0..MaxTime
Key == {"cpu", "ram"}
Reading == [from : Time, at : Time]
Unavailable == [from |-> 0, at |-> 0]
Momentary == [from |-> 1, at |-> 1]
IsAvailable(reading) == reading.at # 0

Idle == [phase |-> "idle", stat |-> 0, reading |-> [k \in Key |-> Unavailable]]

\* initialState, and a provider that has asked for nothing yet.
Fresh(state) ==
    [state |-> state, request |-> None, aborted |-> "no", refreshPending |-> FALSE,
     measurement |-> [k \in Key |-> Unavailable], stale |-> [k \in Key |-> FALSE],
     initialLoading |-> TRUE, requestFailure |-> FALSE]

CollectionState ==
    [phase : {"idle", "reading", "read", "collected"}, stat : Time, reading : [Key -> Reading]]

PageState ==
    [state : {"visible", "hidden", "left"}, request : Collection \cup {None},
     aborted : {"no", "hidden", "timeout"}, refreshPending : BOOLEAN,
     measurement : [Key -> Reading], stale : [Key -> BOOLEAN],
     initialLoading : BOOLEAN, requestFailure : BOOLEAN]

TypeOK ==
    /\ now \in Time \ {0}
    /\ previous \in Time
    /\ collections \in [Collection -> CollectionState]
    /\ pages \in [Page -> PageState]
    /\ brought \in [Page -> SUBSET Key]
    /\ due \in [Page -> BOOLEAN]

Init ==
    /\ now = 1
    /\ previous = 0
    /\ collections = [c \in Collection |-> Idle]
    /\ pages = [p \in Page |-> Fresh("left")]
    /\ brought = [p \in Page |-> {}]
    /\ due = [p \in Page |-> FALSE]

-----------------------------------------------------------------------------
(* The Server.                                                             *)

Tick ==
    /\ now < MaxTime
    /\ now' = now + 1
    /\ UNCHANGED <<previous, collections, pages, brought, due>>

\* A source is read or, by settle and measure, unavailable.
ReadSources(c) ==
    /\ collections[c].phase = "reading"
    /\ \E stat \in {0, now}, ram \in {Unavailable, Momentary} :
          collections' = [collections EXCEPT ![c].phase = "read", ![c].stat = stat,
                                             ![c].reading["ram"] = ram]
    /\ UNCHANGED <<now, previous, pages, brought, due>>

IsAwaited(c) == \E p \in Page : pages[p].request = c

\* Faulty variant: the counters may have gone backwards.
MeasureCpuUnchecked(stat) ==
    IF stat = 0 \/ previous = 0 THEN Unavailable ELSE [from |-> previous, at |-> stat]

\* A sample that is not later than the previous one gives no utilization.
MeasureCpu(stat) ==
    IF stat = 0 \/ previous = 0 \/ stat <= previous THEN Unavailable
    ELSE [from |-> previous, at |-> stat]

(* The last source has been read: measureCpu replaces the previous sample, *)
(* by an older one if collections end in another order than they read.     *)
Collect(c) ==
    LET stat == collections[c].stat IN
    /\ collections[c].phase = "read"
    /\ previous' = IF stat = 0 THEN previous ELSE stat
    /\ collections' = [collections EXCEPT ![c] =
          IF IsAwaited(c)
          THEN [@ EXCEPT !.phase = "collected", !.reading["cpu"] = MeasureCpu(stat)]
          ELSE Idle]
    /\ UNCHANGED <<now, pages, brought, due>>

-----------------------------------------------------------------------------
(* The pages.                                                              *)

\* The answer to an abandoned request reaches nobody.
Abandoned(c) ==
    IF c # None /\ collections[c].phase = "collected"
    THEN [collections EXCEPT ![c] = Idle] ELSE collections

\* refresh, by a page that is in state page once the step is taken.
Refresh(p, page, served) ==
    \E c \in Collection :
        /\ served[c].phase = "idle"
        /\ pages' = [pages EXCEPT ![p] = [page EXCEPT !.request = c]]
        /\ collections' = [served EXCEPT ![c] = [Idle EXCEPT !.phase = "reading"]]

\* setInterval; refresh leaves at once while a request is in flight.
Poll(p) ==
    /\ pages[p].state = "visible"
    /\ pages[p].request = None
    /\ Refresh(p, pages[p], collections)
    /\ UNCHANGED <<now, previous, brought, due>>

\* Faulty variant: a request in flight is taken for the refresh.
ShowNotPending(p) ==
    /\ pages[p].state = "hidden"
    /\ IF pages[p].request # None
       THEN /\ pages' = [pages EXCEPT ![p].state = "visible"]
            /\ UNCHANGED collections
       ELSE Refresh(p, [pages[p] EXCEPT !.state = "visible"], collections)
    /\ due' = [due EXCEPT ![p] = TRUE]
    /\ UNCHANGED <<now, previous, brought>>

\* startPolling, requestImmediateRefresh.
Show(p) ==
    /\ pages[p].state = "hidden"
    /\ IF pages[p].request # None
       THEN /\ pages' = [pages EXCEPT ![p].state = "visible", ![p].refreshPending = TRUE]
            /\ UNCHANGED collections
       ELSE Refresh(p, [pages[p] EXCEPT !.state = "visible"], collections)
    /\ due' = [due EXCEPT ![p] = TRUE]
    /\ UNCHANGED <<now, previous, brought>>

\* stopPolling.
Hide(p) ==
    /\ pages[p].state = "visible"
    /\ pages' = [pages EXCEPT
          ![p].state = "hidden", ![p].refreshPending = FALSE,
          ![p].aborted = IF pages[p].request # None /\ @ = "no" THEN "hidden" ELSE @]
    /\ due' = [due EXCEPT ![p] = FALSE]
    /\ UNCHANGED <<now, previous, collections, brought>>

\* Faulty variant: the timer is cleared as soon as the answer begins.
TimesOutBeforeAnswer(p) ==
    /\ pages[p].request # None
    /\ pages[p].aborted # "timeout"
    /\ collections[pages[p].request].phase # "collected"
    /\ pages' = [pages EXCEPT ![p].aborted = "timeout"]
    /\ UNCHANGED <<now, previous, collections, brought, due>>

\* The timer runs until the request is through, aborted or not.
TimesOut(p) ==
    /\ pages[p].request # None
    /\ pages[p].aborted # "timeout"
    /\ pages' = [pages EXCEPT ![p].aborted = "timeout"]
    /\ UNCHANGED <<now, previous, collections, brought, due>>

\* refresh's finally: a refresh that was put off is made now.
Settles(p, page) ==
    LET done == [page EXCEPT !.request = None, !.aborted = "no"] IN
    IF page.refreshPending /\ page.state = "visible"
    THEN Refresh(p, [done EXCEPT !.refreshPending = FALSE], Abandoned(page.request))
    ELSE /\ pages' = [pages EXCEPT ![p] = done]
         /\ collections' = Abandoned(page.request)

\* reconcileMetric for every key.
Reconciled(page, reading) ==
    [page EXCEPT
       !.measurement = [k \in Key |-> IF IsAvailable(reading[k]) THEN reading[k] ELSE @[k]],
       !.stale = [k \in Key |-> ~IsAvailable(reading[k]) /\ IsAvailable(page.measurement[k])],
       !.initialLoading = FALSE, !.requestFailure = FALSE]

\* retainAfterRequestFailure for every key.
Retained(page) ==
    [page EXCEPT !.stale = [k \in Key |-> IsAvailable(page.measurement[k])],
                 !.initialLoading = FALSE, !.requestFailure = TRUE]

Completed(p, keys) ==
    /\ brought' = [brought EXCEPT ![p] = keys]
    /\ due' = [due EXCEPT ![p] = FALSE]

Receives(p) ==
    LET c == pages[p].request IN
    /\ c # None
    /\ pages[p].aborted = "no"
    /\ collections[c].phase = "collected"
    /\ Settles(p, Reconciled(pages[p], collections[c].reading))
    /\ Completed(p, {k \in Key : IsAvailable(collections[c].reading[k])})
    /\ UNCHANGED <<now, previous>>

\* The request fails, or its answer is not the contract's.
Fails(p) ==
    /\ pages[p].request # None
    /\ pages[p].aborted = "no"
    /\ Settles(p, Retained(pages[p]))
    /\ Completed(p, {})
    /\ UNCHANGED <<now, previous>>

\* Faulty variant: an abort is never a failure.
UnwindsSilently(p) ==
    /\ pages[p].aborted # "no"
    /\ Settles(p, pages[p])
    /\ IF pages[p].aborted = "timeout" THEN Completed(p, {}) ELSE UNCHANGED <<brought, due>>
    /\ UNCHANGED <<now, previous>>

\* The aborted fetch rejects: a failure if it timed out.
Unwinds(p) ==
    /\ pages[p].aborted # "no"
    /\ IF pages[p].aborted = "timeout"
       THEN Settles(p, Retained(pages[p])) /\ Completed(p, {})
       ELSE Settles(p, pages[p]) /\ UNCHANGED <<brought, due>>
    /\ UNCHANGED <<now, previous>>

(* The owner goes elsewhere, or the answer is 401 and the page goes to     *)
(* /login: the readings are dropped with the provider.                     *)
Leave(p) ==
    /\ pages[p].state # "left"
    /\ pages' = [pages EXCEPT ![p] = Fresh("left")]
    /\ collections' = Abandoned(pages[p].request)
    /\ Completed(p, {})
    /\ UNCHANGED <<now, previous>>

Mount(p) ==
    /\ pages[p].state = "left"
    /\ \/ /\ Refresh(p, Fresh("visible"), collections)
          /\ due' = [due EXCEPT ![p] = TRUE]
       \/ /\ pages' = [pages EXCEPT ![p] = Fresh("hidden")]
          /\ UNCHANGED <<collections, due>>
    /\ UNCHANGED <<now, previous, brought>>

Next ==
    \/ Tick
    \/ \E c \in Collection : ReadSources(c) \/ Collect(c)
    \/ \E p \in Page :
          \/ Mount(p) \/ Leave(p) \/ Show(p) \/ Hide(p) \/ Poll(p)
          \/ Receives(p) \/ Fails(p) \/ TimesOut(p) \/ Unwinds(p)

Spec == Init /\ [][Next]_vars

(* Files are read in the end, timers fire, an aborted fetch rejects.  The  *)
(* last is strong only because Collection bounds what may run at a time.   *)
Fairness ==
    /\ \A c \in Collection : WF_vars(ReadSources(c) \/ Collect(c))
    /\ \A p \in Page : WF_vars(TimesOut(p)) /\ SF_vars(Unwinds(p))

FairSpec == Spec /\ Fairness

-----------------------------------------------------------------------------
(* Properties.                                                             *)

(* A request is one collection's, and no other page's; only a request can  *)
(* be aborted or have a refresh waiting behind it.                         *)
MetricsInv ==
    /\ TypeOK
    /\ \A p \in Page : LET page == pages[p] IN
          /\ page.request # None =>
                /\ page.state # "left"
                /\ collections[page.request].phase # "idle"
                /\ \A q \in Page \ {p} : pages[q].request # page.request
          /\ page.aborted # "no" => page.request # None
          /\ page.refreshPending => page.aborted # "no" /\ page.state = "visible"
    /\ \A c \in Collection : collections[c].phase = "collected" => IsAwaited(c)

(* README.md: "any previous successful value stays visible as a Stale      *)
(* reading".  A reading is shown as current if and only if the page's      *)
(* latest request that was not cancelled brought it.                       *)
CurrentReadingsAreLatest ==
    \A p \in Page, k \in Key : LET page == pages[p] IN
        /\ (IsAvailable(page.measurement[k]) /\ ~page.stale[k]) <=> k \in brought[p]
        /\ page.requestFailure => brought[p] = {}

(* Whatever the order in which overlapping collections sample and use the  *)
(* counters, a CPU reading covers time that passed.                        *)
CpuReadingsCoverTime ==
    /\ \A c \in Collection : LET cpu == collections[c].reading["cpu"] IN
          IsAvailable(cpu) => 0 < cpu.from /\ cpu.from < cpu.at
    /\ \A p \in Page : LET cpu == pages[p].measurement["cpu"] IN
          IsAvailable(cpu) => 0 < cpu.from /\ cpu.from < cpu.at

(* README.md: "Resuming a visible page triggers a refresh", also while the *)
(* request that hiding the page has aborted is still unwinding.            *)
ResumingRefreshes ==
    \A p \in Page : due[p] =>
        /\ pages[p].request # None
        /\ pages[p].aborted = "hidden" => pages[p].refreshPending

(* A page that stays visible gets an answer or says that it failed.        *)
ShownPagesAreRefreshed == \A p \in Page : due[p] ~> ~due[p]
=============================================================================
