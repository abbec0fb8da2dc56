--------------------------- MODULE DashboardProofs ---------------------------
(***************************************************************************)
(* The invariants of MetricsFeed, CpuHistory, DownloadFeed and             *)
(* DownloadProjection and the action property of the third, for any number *)
(* of pages, collections, samples, services and records; and that they     *)
(* hold in every behaviour of Dashboard.                                   *)
(***************************************************************************)
EXTENDS Dashboard, FiniteSetTheorems, WellFoundedInduction, TLAPS

-----------------------------------------------------------------------------
(* The readings *)

(* What MetricsInv says of one page and of one collection.                 *)
PageIsSound(p) ==
    /\ pages[p].request # None =>
          /\ pages[p].state # "left"
          /\ collections[pages[p].request].phase # "idle"
          /\ \A q \in Page \ {p} : pages[q].request # pages[p].request
    /\ pages[p].aborted # "no" => pages[p].request # None
    /\ pages[p].refreshPending => pages[p].aborted # "no" /\ pages[p].state = "visible"

Sound ==
    /\ \A p \in Page : PageIsSound(p)
    /\ \A c \in Collection : collections[c].phase = "collected" => IsAwaited(c)

\* MetricsInv, in named parts.
LEMMA MetricsInvIsSound == MetricsInv <=> TypeOK /\ Sound
  BY DEF MetricsInv, Sound, PageIsSound

(* A step of page p that makes it page, and the collections served.        *)
Becomes(p, page, served) ==
    /\ page \in PageState
    /\ served \in [Collection -> CollectionState]
    /\ pages' = [pages EXCEPT ![p] = page]
    /\ collections' = served

\* Nobody else's collection has gone, and none is collected for nobody.
ServesOthers(p, page, served) ==
    /\ \A q \in Page \ {p} : pages[q].request # None => served[pages[q].request].phase # "idle"
    /\ \A c \in Collection : served[c].phase = "collected" =>
          page.request = c \/ \E q \in Page \ {p} : pages[q].request = c

\* A step of one page preserves what is sound.
LEMMA BecomesSound ==
  ASSUME TypeOK, Sound, NEW p \in Page, NEW page, NEW served,
         Becomes(p, page, served), ServesOthers(p, page, served),
         page.request # None =>
            /\ page.state # "left"
            /\ served[page.request].phase # "idle"
            /\ \A q \in Page \ {p} : pages[q].request # page.request,
         page.aborted # "no" => page.request # None,
         page.refreshPending => page.aborted # "no" /\ page.state = "visible"
  PROVE  Sound'
<1>1. pages'[p] = page /\ \A q \in Page \ {p} : pages'[q] = pages[q]
  BY DEF Becomes, TypeOK
<1>2. PageIsSound(p)'
  BY <1>1 DEF PageIsSound, Becomes
<1>3. ASSUME NEW q \in Page \ {p} PROVE PageIsSound(q)'
  <2>1. pages'[q] = pages[q] /\ PageIsSound(q)
    BY <1>1 DEF Sound
  <2>2. pages[q].request # None => served[pages[q].request].phase # "idle"
    BY DEF ServesOthers
  <2>3. ASSUME pages[q].request # None, NEW r \in Page \ {q} PROVE pages'[r].request # pages[q].request
    BY <1>1, <2>1, <2>3 DEF PageIsSound
  <2> QED
    BY <2>1, <2>2, <2>3 DEF PageIsSound, Becomes
<1>4. ASSUME NEW c \in Collection, served[c].phase = "collected" PROVE IsAwaited(c)'
  BY <1>1, <1>4 DEF IsAwaited, ServesOthers
<1> QED
  BY <1>2, <1>3, <1>4 DEF Sound, Becomes

\* What becomes of a page's collection is nobody else's affair.
LEMMA AbandonedType ==
  ASSUME TypeOK, Sound, NEW p \in Page
  PROVE  /\ Abandoned(pages[p].request) \in [Collection -> CollectionState]
         /\ \A q \in Page \ {p} : pages[q].request # None =>
               Abandoned(pages[p].request)[pages[q].request].phase # "idle"
         /\ \A c \in Collection : Abandoned(pages[p].request)[c].phase = "collected" =>
               \E q \in Page \ {p} : pages[q].request = c
<1>1. pages[p].request \in Collection \cup {None}
  BY DEF TypeOK, PageState
<1>2. Idle \in CollectionState
  BY MetricsAssumption DEF Idle, CollectionState, Time, Reading, Unavailable
<1>3. Abandoned(pages[p].request) \in [Collection -> CollectionState]
  BY <1>1, <1>2 DEF Abandoned, TypeOK
<1>4. ASSUME NEW q \in Page \ {p}, pages[q].request # None
      PROVE  Abandoned(pages[p].request)[pages[q].request].phase # "idle"
  <2>1. pages[q].request \in Collection /\ pages[q].request # pages[p].request
         /\ collections[pages[q].request].phase # "idle"
    BY <1>4 DEF TypeOK, PageState, Sound, PageIsSound
  <2> QED
    BY <2>1 DEF Abandoned, TypeOK
<1>5. ASSUME NEW c \in Collection, Abandoned(pages[p].request)[c].phase = "collected"
      PROVE  \E q \in Page \ {p} : pages[q].request = c
  <2>1. c # None /\ Idle.phase = "idle"
    BY MetricsAssumption DEF Idle
  <2>2. c # pages[p].request
    BY <1>5, <2>1 DEF Abandoned, TypeOK
  <2>3. collections[c].phase = "collected"
    BY <1>1, <1>5, <2>2 DEF Abandoned, TypeOK
  <2>4. IsAwaited(c)
    BY <2>3 DEF Sound
  <2> QED
    BY <2>2, <2>4 DEF IsAwaited
<1> QED
  BY <1>3, <1>4, <1>5

\* The fields that a request in flight does not touch.
SameReadings(one, other) ==
    /\ one.state = other.state
    /\ one.measurement = other.measurement
    /\ one.stale = other.stale
    /\ one.requestFailure = other.requestFailure

\* A request is a collection of its own.
LEMMA RefreshSound ==
  ASSUME TypeOK, Sound, NEW p \in Page, NEW page \in PageState, NEW served,
         served \in [Collection -> CollectionState],
         \A q \in Page \ {p} : pages[q].request # None => served[pages[q].request].phase # "idle",
         \A c \in Collection : served[c].phase = "collected" =>
               \E q \in Page \ {p} : pages[q].request = c,
         Refresh(p, page, served), page.state # "left", ~page.refreshPending
  PROVE  /\ Sound'
         /\ pages' \in [Page -> PageState]
         /\ collections' \in [Collection -> CollectionState]
         /\ SameReadings(pages'[p], page)
         /\ pages'[p].request # None
         /\ pages'[p].aborted = page.aborted
         /\ \A q \in Page \ {p} : pages'[q] = pages[q]
<1>1. PICK c \in Collection :
        /\ served[c].phase = "idle"
        /\ pages' = [pages EXCEPT ![p] = [page EXCEPT !.request = c]]
        /\ collections' = [served EXCEPT ![c] = [Idle EXCEPT !.phase = "reading"]]
  BY DEF Refresh
<1> DEFINE asking == [page EXCEPT !.request = c]
           running == [served EXCEPT ![c] = [Idle EXCEPT !.phase = "reading"]]
<1>2. asking \in PageState /\ asking.request = c /\ asking.state = page.state
       /\ asking.refreshPending = page.refreshPending /\ asking.aborted = page.aborted
       /\ SameReadings(asking, page)
  BY DEF PageState, SameReadings
<1>3. [Idle EXCEPT !.phase = "reading"] \in CollectionState
  BY MetricsAssumption DEF Idle, CollectionState, Time, Reading, Unavailable
<1>4. running \in [Collection -> CollectionState] /\ running[c].phase = "reading"
       /\ \A d \in Collection \ {c} : running[d] = served[d]
  BY <1>3 DEF Idle
<1>5. Becomes(p, asking, running)
  BY <1>1, <1>2, <1>4 DEF Becomes
<1>6. \A q \in Page : pages[q].request # None => pages[q].request \in Collection
  BY DEF TypeOK, PageState
<1>7. \A q \in Page \ {p} : pages[q].request # c
  BY <1>1, MetricsAssumption
<1>8. ServesOthers(p, asking, running)
  BY <1>2, <1>4, <1>6, <1>7 DEF ServesOthers
<1> HIDE DEF asking, running
<1>9. Sound'
  BY <1>2, <1>4, <1>5, <1>7, <1>8, BecomesSound, MetricsAssumption
<1>10. pages'[p] = asking /\ \A q \in Page \ {p} : pages'[q] = pages[q]
  BY <1>1 DEF asking, TypeOK
<1>11. pages' \in [Page -> PageState] /\ collections' \in [Collection -> CollectionState]
  BY <1>2, <1>4, <1>5 DEF Becomes, TypeOK
<1> QED
  BY <1>2, <1>9, <1>10, <1>11, MetricsAssumption

-----------------------------------------------------------------------------
Covers(value) == IsAvailable(value) => 0 < value.from /\ value.from < value.at

CollectionsCover == \A c \in Collection : Covers(collections[c].reading["cpu"])

\* What the three invariants say of one page.
Shows(p) ==
    /\ \A k \in Key :
          (IsAvailable(pages[p].measurement[k]) /\ ~pages[p].stale[k]) <=> k \in brought[p]
    /\ pages[p].requestFailure => brought[p] = {}
    /\ pages[p].state = "left" => brought[p] = {}
    /\ Covers(pages[p].measurement["cpu"])

Resumes(p) ==
    /\ due[p] => /\ pages[p].request # None
                 /\ pages[p].aborted = "hidden" => pages[p].refreshPending
    /\ pages[p].state = "hidden" /\ pages[p].request # None => pages[p].aborted # "no"

MetricsIInv ==
    /\ TypeOK
    /\ Sound
    /\ CollectionsCover
    /\ \A p \in Page : Shows(p) /\ Resumes(p)

\* The inductive invariant has the invariants that the runs check.
LEMMA MetricsIInvSuffices ==
  MetricsIInv => MetricsInv /\ CurrentReadingsAreLatest /\ CpuReadingsCoverTime /\ ResumingRefreshes
<1> SUFFICES ASSUME MetricsIInv
             PROVE  MetricsInv /\ CurrentReadingsAreLatest /\ CpuReadingsCoverTime /\ ResumingRefreshes
  OBVIOUS
<1>1. MetricsInv
  BY MetricsInvIsSound DEF MetricsIInv
<1>2. CurrentReadingsAreLatest
  BY DEF MetricsIInv, Shows, CurrentReadingsAreLatest
<1>3. CpuReadingsCoverTime
  BY DEF MetricsIInv, Shows, CollectionsCover, Covers, CpuReadingsCoverTime
<1>4. ResumingRefreshes
  BY DEF MetricsIInv, Resumes, ResumingRefreshes
<1> QED
  BY <1>1, <1>2, <1>3, <1>4

\* A page that is mounted shows nothing and waits for nothing.
LEMMA FreshType ==
  ASSUME NEW state \in {"visible", "hidden", "left"}
  PROVE  /\ Fresh(state) \in PageState
         /\ Fresh(state).request = None
         /\ Fresh(state).aborted = "no"
         /\ Fresh(state).refreshPending = FALSE
         /\ Fresh(state).state = state
         /\ \A k \in Key : Fresh(state).measurement[k] = Unavailable
         /\ Fresh(state).requestFailure = FALSE
  BY MetricsAssumption DEF Fresh, PageState, Reading, Time, Unavailable

\* No reading covers no time.
LEMMA UnavailableIsNot == ~IsAvailable(Unavailable) /\ Covers(Unavailable)
  BY DEF IsAvailable, Unavailable, Covers

\* Nobody has asked for a reading.
LEMMA MetricsInitInv == Init => MetricsIInv
<1> SUFFICES ASSUME Init PROVE MetricsIInv
  OBVIOUS
<1>1. Idle \in CollectionState /\ Idle.phase = "idle" /\ Idle.reading["cpu"] = Unavailable
  BY MetricsAssumption DEF Idle, CollectionState, Time, Reading, Unavailable, Key
<1>2. TypeOK
  BY <1>1, FreshType, MetricsAssumption DEF Init, TypeOK, Time
<1>3. \A p \in Page : PageIsSound(p)
  BY FreshType DEF Init, PageIsSound
<1>4. Sound
  BY <1>1, <1>3 DEF Init, Sound
<1>5. CollectionsCover
  BY <1>1, UnavailableIsNot DEF Init, CollectionsCover
<1>6. \A p \in Page : Shows(p) /\ Resumes(p)
  BY FreshType, UnavailableIsNot DEF Init, Shows, Resumes, Key
<1> QED
  BY <1>2, <1>4, <1>5, <1>6 DEF MetricsIInv

\* An abandoned collection has no reading.
LEMMA AbandonedCovers ==
  ASSUME CollectionsCover, NEW c
  PROVE  \A d \in Collection : Covers(Abandoned(c)[d].reading["cpu"])
<1>1. Idle.reading["cpu"] = Unavailable
  BY DEF Idle, Key
<1> QED
  BY <1>1, UnavailableIsNot DEF Abandoned, CollectionsCover

\* A new collection has no reading yet.
LEMMA RefreshCovers ==
  ASSUME NEW p, NEW page, NEW served, Refresh(p, page, served),
         \A d \in Collection : Covers(served[d].reading["cpu"])
  PROVE  CollectionsCover'
<1>1. Idle.reading["cpu"] = Unavailable
  BY DEF Idle, Key
<1>2. PICK c \in Collection : collections' = [served EXCEPT ![c] = [Idle EXCEPT !.phase = "reading"]]
  BY DEF Refresh
<1>3. [Idle EXCEPT !.phase = "reading"].reading["cpu"] = Unavailable
  BY <1>1 DEF Idle
<1> QED
  BY <1>2, <1>3, UnavailableIsNot DEF CollectionsCover

-----------------------------------------------------------------------------
\* A step of one page leaves the others as they are.
LEMMA OnePageSteps ==
  ASSUME MetricsIInv, NEW p \in Page, TypeOK', Sound', CollectionsCover', Shows(p)', Resumes(p)',
         \A q \in Page \ {p} : /\ pages'[q] = pages[q]
                               /\ brought'[q] = brought[q]
                               /\ due'[q] = due[q]
  PROVE  MetricsIInv'
<1>1. ASSUME NEW q \in Page \ {p} PROVE Shows(q)' /\ Resumes(q)'
  BY DEF MetricsIInv, Shows, Resumes
<1> QED
  BY <1>1 DEF MetricsIInv

\* A request of p ends, and another one begins if one was put off.
LEMMA SettlesSound ==
  ASSUME TypeOK, Sound, CollectionsCover, NEW p \in Page, NEW page \in PageState,
         pages[p].request # None, page.request = pages[p].request, page.state = pages[p].state,
         page.refreshPending = pages[p].refreshPending, Settles(p, page)
  PROVE  /\ Sound'
         /\ pages' \in [Page -> PageState]
         /\ collections' \in [Collection -> CollectionState]
         /\ CollectionsCover'
         /\ \A q \in Page \ {p} : pages'[q] = pages[q]
         /\ SameReadings(pages'[p], page)
         /\ page.refreshPending => pages'[p].request # None
         /\ ~page.refreshPending => pages'[p].request = None
         /\ pages'[p].aborted = "no"
<1> DEFINE done == [page EXCEPT !.request = None, !.aborted = "no"]
           again == [done EXCEPT !.refreshPending = FALSE]
           served == Abandoned(page.request)
<1>1. /\ done \in PageState /\ done.request = None /\ done.aborted = "no"
      /\ SameReadings(done, page) /\ done.refreshPending = page.refreshPending
  BY DEF PageState, SameReadings
<1>2. /\ again \in PageState /\ again.aborted = "no" /\ again.refreshPending = FALSE
      /\ SameReadings(again, page)
  BY DEF PageState, SameReadings
<1>3. /\ page.state # "left"
      /\ page.refreshPending => page.state = "visible"
  BY DEF Sound, PageIsSound
<1>4. /\ served \in [Collection -> CollectionState]
      /\ \A q \in Page \ {p} : pages[q].request # None => served[pages[q].request].phase # "idle"
      /\ \A c \in Collection : served[c].phase = "collected" =>
            \E q \in Page \ {p} : pages[q].request = c
  BY AbandonedType
<1>5. \A d \in Collection : Covers(served[d].reading["cpu"])
  BY AbandonedCovers
<1>6. CASE page.refreshPending
  <2>1. Refresh(p, again, served)
    BY <1>3, <1>6 DEF Settles
  <2> HIDE DEF done, again, served
  <2>2. again.state # "left" /\ ~again.refreshPending
    BY <1>2, <1>3 DEF SameReadings
  <2>3. /\ Sound'
        /\ pages' \in [Page -> PageState]
        /\ collections' \in [Collection -> CollectionState]
        /\ SameReadings(pages'[p], again)
        /\ pages'[p].request # None
        /\ pages'[p].aborted = again.aborted
        /\ \A q \in Page \ {p} : pages'[q] = pages[q]
    BY <1>2, <1>4, <2>1, <2>2, RefreshSound
  <2>4. CollectionsCover'
    BY <1>5, <2>1, RefreshCovers
  <2>5. SameReadings(pages'[p], page)
    BY <1>2, <2>3 DEF SameReadings
  <2> QED
    BY <1>2, <1>6, <2>3, <2>4, <2>5
<1>7. CASE ~page.refreshPending
  <2>1. pages' = [pages EXCEPT ![p] = done] /\ collections' = served
    BY <1>7 DEF Settles
  <2>2. Becomes(p, done, served)
    BY <1>1, <1>4, <2>1 DEF Becomes
  <2>3. ServesOthers(p, done, served)
    BY <1>4 DEF ServesOthers
  <2> HIDE DEF done, served
  <2>4. Sound'
    BY <1>1, <1>7, <2>2, <2>3, BecomesSound
  <2>5. CollectionsCover'
    BY <1>5, <2>1 DEF CollectionsCover
  <2>6. pages'[p] = done /\ \A q \in Page \ {p} : pages'[q] = pages[q]
    BY <2>1 DEF TypeOK
  <2>7. pages' \in [Page -> PageState] /\ collections' \in [Collection -> CollectionState]
    BY <1>1, <1>4, <2>1 DEF TypeOK
  <2> QED
    BY <1>1, <1>7, <2>4, <2>5, <2>6, <2>7
<1> QED
  BY <1>6, <1>7

-----------------------------------------------------------------------------
(* The steps of the Server: no page changes.                               *)
LEMMA CollectionSteps ==
  ASSUME MetricsIInv, NEW c \in Collection, NEW next \in CollectionState,
         collections' = [collections EXCEPT ![c] = next],
         UNCHANGED <<pages, brought, due>>, now' \in Time \ {0}, previous' \in Time,
         next.phase = "idle" => ~IsAwaited(c),
         next.phase = "collected" => IsAwaited(c),
         Covers(next.reading["cpu"])
  PROVE  MetricsIInv'
<1>1. TypeOK'
  BY DEF MetricsIInv, TypeOK
<1>2. collections'[c] = next /\ \A d \in Collection \ {c} : collections'[d] = collections[d]
  BY DEF MetricsIInv, TypeOK
<1>3. \A d \in Collection : IsAwaited(d)' = IsAwaited(d)
  BY DEF IsAwaited
<1>4. \A d \in Collection : collections'[d].phase = "collected" => IsAwaited(d)'
  BY <1>2, <1>3 DEF MetricsIInv, Sound
<1>5. ASSUME NEW p \in Page PROVE PageIsSound(p)'
  <2>1. PageIsSound(p)
    BY DEF MetricsIInv, Sound
  <2>2. pages[p].request = c => IsAwaited(c)
    BY DEF IsAwaited
  <2>3. pages[p].request # None => pages[p].request \in Collection
    BY DEF MetricsIInv, TypeOK, PageState
  <2> QED
    BY <1>2, <2>1, <2>2, <2>3 DEF PageIsSound
<1>6. CollectionsCover'
  BY <1>2 DEF MetricsIInv, CollectionsCover
<1>7. \A p \in Page : Shows(p)' /\ Resumes(p)'
  BY DEF MetricsIInv, Shows, Resumes
<1> QED
  BY <1>1, <1>4, <1>5, <1>6, <1>7 DEF MetricsIInv, Sound

\* Time passes.
LEMMA TickInv == ASSUME MetricsIInv, Tick PROVE MetricsIInv'
<1>1. TypeOK'
  BY MetricsAssumption DEF MetricsIInv, TypeOK, Tick, Time
<1>2. Sound' /\ CollectionsCover' /\ \A p \in Page : Shows(p)' /\ Resumes(p)'
  BY DEF MetricsIInv, Tick, Sound, PageIsSound, IsAwaited, CollectionsCover, Shows, Resumes
<1> QED
  BY <1>1, <1>2 DEF MetricsIInv

\* The sources that are read before the CPU sample is used.
LEMMA ReadSourcesInv ==
  ASSUME MetricsIInv, NEW c \in Collection, ReadSources(c)
  PROVE  MetricsIInv'
<1>1. PICK stat \in {0, now}, ram \in {Unavailable, Momentary} :
        collections' = [collections EXCEPT ![c].phase = "read", ![c].stat = stat,
                                           ![c].reading["ram"] = ram]
  BY DEF ReadSources
<1> DEFINE next == [collections[c] EXCEPT !.phase = "read", !.stat = stat, !.reading["ram"] = ram]
<1>2. collections[c] \in CollectionState
  BY DEF MetricsIInv, TypeOK
<1>3. stat \in Time /\ ram \in Reading
  BY MetricsAssumption DEF MetricsIInv, TypeOK, Time, Reading, Unavailable, Momentary
<1>4. next \in CollectionState /\ next.phase = "read"
       /\ next.reading["cpu"] = collections[c].reading["cpu"]
  BY <1>2, <1>3 DEF CollectionState, Key
<1>5. collections' = [collections EXCEPT ![c] = next]
  BY <1>1 DEF MetricsIInv, TypeOK, CollectionState
<1>6. Covers(next.reading["cpu"])
  BY <1>4 DEF MetricsIInv, CollectionsCover
<1>7. UNCHANGED <<pages, brought, due>> /\ now' \in Time \ {0} /\ previous' \in Time
  BY DEF ReadSources, MetricsIInv, TypeOK
<1> HIDE DEF next
<1> QED
  BY <1>4, <1>5, <1>6, <1>7, CollectionSteps

\* A sample that is used is later than the one it is compared with.
LEMMA MeasureCpuCovers ==
  ASSUME TypeOK, NEW stat \in Time
  PROVE  MeasureCpu(stat) \in Reading /\ Covers(MeasureCpu(stat))
<1>1. CASE stat = 0 \/ previous = 0 \/ stat <= previous
  BY <1>1, UnavailableIsNot, MetricsAssumption DEF MeasureCpu, Unavailable, Reading, Time
<1>2. CASE ~(stat = 0 \/ previous = 0 \/ stat <= previous)
  BY <1>2, MetricsAssumption DEF MeasureCpu, Reading, Time, Covers, TypeOK
<1> QED
  BY <1>1, <1>2

\* The earlier sample is replaced whoever took it: the new reading covers time.
LEMMA CollectInv ==
  ASSUME MetricsIInv, NEW c \in Collection, Collect(c)
  PROVE  MetricsIInv'
<1> DEFINE stat == collections[c].stat
           value == MeasureCpu(stat)
           through == [collections[c] EXCEPT !.phase = "collected", !.reading["cpu"] = value]
<1>1. collections[c] \in CollectionState /\ TypeOK
  BY DEF MetricsIInv, TypeOK
<1>2. stat \in Time
  BY <1>1 DEF CollectionState
<1>3. value \in Reading /\ Covers(value)
  BY <1>1, <1>2, MeasureCpuCovers
<1>4. UNCHANGED <<pages, brought, due>> /\ now' \in Time \ {0} /\ previous' \in Time
  BY <1>1, <1>2 DEF Collect, TypeOK
<1>5. CASE IsAwaited(c)
  <2>1. through \in CollectionState /\ through.phase = "collected" /\ through.reading["cpu"] = value
    BY <1>1, <1>3 DEF CollectionState, Key
  <2>2. collections' = [collections EXCEPT ![c] = through]
    BY <1>1, <1>5 DEF Collect, TypeOK, CollectionState
  <2> HIDE DEF value, through, stat
  <2> QED
    BY <1>3, <1>4, <1>5, <2>1, <2>2, CollectionSteps
<1>6. CASE ~IsAwaited(c)
  <2>1. Idle \in CollectionState /\ Idle.phase = "idle" /\ Idle.reading["cpu"] = Unavailable
    BY MetricsAssumption DEF Idle, CollectionState, Time, Reading, Unavailable, Key
  <2>2. collections' = [collections EXCEPT ![c] = Idle]
    BY <1>6 DEF Collect
  <2> QED
    BY <1>4, <1>6, <2>1, <2>2, UnavailableIsNot, CollectionSteps
<1> QED
  BY <1>5, <1>6

-----------------------------------------------------------------------------
(* The steps of a page.  A step that asks for nothing changes no field     *)
(* that a request reads.                                                   *)
LEMMA AsksInv ==
  ASSUME MetricsIInv, NEW p \in Page, NEW page \in PageState,
         pages[p].request = None, page.state = "visible", page.aborted = "no", ~page.refreshPending,
         page.measurement = pages[p].measurement, page.stale = pages[p].stale,
         page.requestFailure = pages[p].requestFailure,
         Refresh(p, page, collections), due' \in [Page -> BOOLEAN],
         \A q \in Page \ {p} : due'[q] = due[q],
         UNCHANGED <<now, previous, brought>>
  PROVE  MetricsIInv'
<1>1. TypeOK /\ Sound /\ CollectionsCover /\ Shows(p)
  BY DEF MetricsIInv
<1>2. collections \in [Collection -> CollectionState]
  BY <1>1 DEF TypeOK
<1>3. \A q \in Page \ {p} : pages[q].request # None => collections[pages[q].request].phase # "idle"
  BY <1>1 DEF Sound, PageIsSound
<1>4. \A c \in Collection : collections[c].phase = "collected" =>
         \E q \in Page \ {p} : pages[q].request = c
  BY <1>1, MetricsAssumption DEF Sound, IsAwaited
<1>5. /\ Sound'
      /\ pages' \in [Page -> PageState]
      /\ collections' \in [Collection -> CollectionState]
      /\ SameReadings(pages'[p], page)
      /\ pages'[p].request # None
      /\ pages'[p].aborted = page.aborted
      /\ \A q \in Page \ {p} : pages'[q] = pages[q]
  BY <1>1, <1>2, <1>3, <1>4, RefreshSound
<1>6. CollectionsCover'
  BY <1>1, RefreshCovers DEF CollectionsCover
<1>7. TypeOK'
  BY <1>1, <1>5 DEF TypeOK
<1>8. Shows(p)'
  BY <1>1, <1>5 DEF Shows, SameReadings
<1>9. Resumes(p)'
  BY <1>5 DEF Resumes, SameReadings
<1>10. \A q \in Page \ {p} : pages'[q] = pages[q] /\ brought'[q] = brought[q] /\ due'[q] = due[q]
  BY <1>5
<1> QED
  BY <1>5, <1>6, <1>7, <1>8, <1>9, <1>10, OnePageSteps

\* The interval timer fires.
LEMMA PollInv == ASSUME MetricsIInv, NEW p \in Page, Poll(p) PROVE MetricsIInv'
<1>1. pages[p] \in PageState /\ due \in [Page -> BOOLEAN]
  BY DEF MetricsIInv, TypeOK
<1>2. /\ pages[p].request = None /\ pages[p].state = "visible"
      /\ pages[p].aborted = "no" /\ ~pages[p].refreshPending
  BY DEF Poll, MetricsIInv, Sound, PageIsSound
<1>3. Refresh(p, pages[p], collections) /\ UNCHANGED <<now, previous, brought, due>>
  BY DEF Poll
<1> QED
  BY <1>1, <1>2, <1>3, AsksInv

\* A step that leaves all requests and collections as they are.
LEMMA KeepsRequestInv ==
  ASSUME MetricsIInv, NEW p \in Page, NEW page \in PageState,
         page.request = pages[p].request, pages[p].state # "left", page.state # "left",
         page.aborted # "no" => page.request # None,
         page.refreshPending => page.aborted # "no" /\ page.state = "visible",
         page.measurement = pages[p].measurement, page.stale = pages[p].stale,
         page.requestFailure = pages[p].requestFailure,
         pages' = [pages EXCEPT ![p] = page],
         due' \in [Page -> BOOLEAN], \A q \in Page \ {p} : due'[q] = due[q],
         due'[p] => page.request # None /\ (page.aborted = "hidden" => page.refreshPending),
         page.state = "hidden" /\ page.request # None => page.aborted # "no",
         UNCHANGED <<now, previous, collections, brought>>
  PROVE  MetricsIInv'
<1>1. TypeOK /\ Sound /\ CollectionsCover /\ Shows(p)
  BY DEF MetricsIInv
<1>2. pages'[p] = page /\ \A q \in Page \ {p} : pages'[q] = pages[q]
  BY <1>1 DEF TypeOK
<1>3. Becomes(p, page, collections)
  BY <1>1 DEF Becomes, TypeOK
<1>4. ServesOthers(p, page, collections)
  BY <1>1 DEF ServesOthers, Sound, PageIsSound, IsAwaited
<1>5. page.request # None =>
         /\ collections[page.request].phase # "idle"
         /\ \A q \in Page \ {p} : pages[q].request # page.request
  BY <1>1 DEF Sound, PageIsSound
<1>6. Sound'
  BY <1>1, <1>3, <1>4, <1>5, BecomesSound
<1>7. TypeOK'
  BY <1>1, <1>3 DEF TypeOK, Becomes
<1>8. CollectionsCover'
  BY <1>1 DEF CollectionsCover
<1>9. Shows(p)'
  BY <1>1, <1>2 DEF Shows
<1>10. Resumes(p)'
  BY <1>2 DEF Resumes
<1>11. \A q \in Page \ {p} : pages'[q] = pages[q] /\ brought'[q] = brought[q] /\ due'[q] = due[q]
  BY <1>2
<1> QED
  BY <1>6, <1>7, <1>8, <1>9, <1>10, <1>11, OnePageSteps

\* A hidden page is shown: it asks, or puts a refresh off.
LEMMA ShowInv == ASSUME MetricsIInv, NEW p \in Page, Show(p) PROVE MetricsIInv'
<1>1. TypeOK /\ pages[p] \in PageState /\ pages[p].state = "hidden"
  BY DEF MetricsIInv, TypeOK, Show
<1>2. due' \in [Page -> BOOLEAN] /\ \A q \in Page \ {p} : due'[q] = due[q]
  BY <1>1 DEF Show, TypeOK
<1>3. UNCHANGED <<now, previous, brought>>
  BY DEF Show
<1>4. PageIsSound(p) /\ Resumes(p)
  BY DEF MetricsIInv, Sound
<1>5. CASE pages[p].request = None
  <2> DEFINE page == [pages[p] EXCEPT !.state = "visible"]
  <2>1. /\ page \in PageState /\ page.state = "visible" /\ page.aborted = "no" /\ ~page.refreshPending
        /\ page.measurement = pages[p].measurement /\ page.stale = pages[p].stale
        /\ page.requestFailure = pages[p].requestFailure
    BY <1>1, <1>4, <1>5 DEF PageState, PageIsSound
  <2>2. Refresh(p, page, collections)
    BY <1>5 DEF Show
  <2> HIDE DEF page
  <2> QED
    BY <1>2, <1>3, <1>5, <2>1, <2>2, AsksInv
<1>6. CASE pages[p].request # None
  <2> DEFINE page == [pages[p] EXCEPT !.state = "visible", !.refreshPending = TRUE]
  <2>1. /\ page \in PageState /\ page.state = "visible" /\ page.aborted = pages[p].aborted
        /\ page.refreshPending /\ page.request = pages[p].request
        /\ page.measurement = pages[p].measurement /\ page.stale = pages[p].stale
        /\ page.requestFailure = pages[p].requestFailure
    BY <1>1 DEF PageState
  <2>2. pages' = [pages EXCEPT ![p] = page] /\ UNCHANGED collections
    BY <1>1, <1>6 DEF Show, TypeOK, PageState
  <2>3. pages[p].aborted # "no"
    BY <1>1, <1>4, <1>6 DEF Resumes
  <2> HIDE DEF page
  <2> QED
    BY <1>1, <1>2, <1>3, <1>6, <2>1, <2>2, <2>3, KeepsRequestInv
<1> QED
  BY <1>5, <1>6

\* A page is hidden: what it asked for is aborted.
LEMMA HideInv == ASSUME MetricsIInv, NEW p \in Page, Hide(p) PROVE MetricsIInv'
<1> DEFINE aborted == IF pages[p].request # None /\ pages[p].aborted = "no" THEN "hidden"
                      ELSE pages[p].aborted
           page == [pages[p] EXCEPT !.state = "hidden", !.refreshPending = FALSE, !.aborted = aborted]
<1>1. TypeOK /\ pages[p] \in PageState /\ pages[p].state = "visible"
  BY DEF MetricsIInv, TypeOK, Hide
<1>2. aborted \in {"no", "hidden", "timeout"}
  BY <1>1 DEF PageState
<1>3. pages[p].aborted # "no" => pages[p].request # None
  BY DEF MetricsIInv, Sound, PageIsSound
<1>4. (aborted # "no" => pages[p].request # None) /\ (pages[p].request # None => aborted # "no")
  BY <1>3
<1>5. pages' = [pages EXCEPT ![p] = page]
  BY <1>1 DEF Hide, TypeOK, PageState
<1> HIDE DEF aborted
<1>6. /\ page \in PageState /\ page.state = "hidden" /\ page.aborted = aborted
      /\ ~page.refreshPending /\ page.request = pages[p].request
      /\ page.measurement = pages[p].measurement /\ page.stale = pages[p].stale
      /\ page.requestFailure = pages[p].requestFailure
  BY <1>1, <1>2 DEF PageState
<1>7. due' \in [Page -> BOOLEAN] /\ ~due'[p] /\ \A q \in Page \ {p} : due'[q] = due[q]
  BY <1>1 DEF Hide, TypeOK
<1>8. UNCHANGED <<now, previous, collections, brought>>
  BY DEF Hide
<1> HIDE DEF page
<1> QED
  BY <1>1, <1>4, <1>5, <1>6, <1>7, <1>8, KeepsRequestInv

\* A request takes too long.
LEMMA TimesOutInv == ASSUME MetricsIInv, NEW p \in Page, TimesOut(p) PROVE MetricsIInv'
<1> DEFINE page == [pages[p] EXCEPT !.aborted = "timeout"]
<1>1. TypeOK /\ pages[p] \in PageState /\ pages[p].request # None
  BY DEF MetricsIInv, TypeOK, TimesOut
<1>2. pages[p].state # "left" /\ (pages[p].refreshPending => pages[p].state = "visible")
  BY <1>1 DEF MetricsIInv, Sound, PageIsSound
<1>3. pages' = [pages EXCEPT ![p] = page]
  BY <1>1 DEF TimesOut, TypeOK, PageState
<1>4. /\ page \in PageState /\ page.state = pages[p].state /\ page.aborted = "timeout"
      /\ page.refreshPending = pages[p].refreshPending /\ page.request = pages[p].request
      /\ page.measurement = pages[p].measurement /\ page.stale = pages[p].stale
      /\ page.requestFailure = pages[p].requestFailure
  BY <1>1 DEF PageState
<1>5. UNCHANGED <<now, previous, collections, brought, due>> /\ due \in [Page -> BOOLEAN]
  BY DEF TimesOut, MetricsIInv, TypeOK
<1> HIDE DEF page
<1> QED
  BY <1>1, <1>2, <1>3, <1>4, <1>5, KeepsRequestInv

\* A request of p ends, and keys is what it brought.
LEMMA EndsInv ==
  ASSUME MetricsIInv, NEW p \in Page, NEW page \in PageState,
         pages[p].request # None, page.request = pages[p].request, page.state = pages[p].state,
         page.refreshPending = pages[p].refreshPending, Settles(p, page),
         brought' \in [Page -> SUBSET Key], due' \in [Page -> BOOLEAN],
         \A q \in Page \ {p} : brought'[q] = brought[q] /\ due'[q] = due[q],
         due'[p] => page.refreshPending,
         \A k \in Key : (IsAvailable(page.measurement[k]) /\ ~page.stale[k]) <=> k \in brought'[p],
         page.requestFailure => brought'[p] = {},
         Covers(page.measurement["cpu"]),
         UNCHANGED <<now, previous>>
  PROVE  MetricsIInv'
<1>1. TypeOK /\ Sound /\ CollectionsCover /\ PageIsSound(p)
  BY DEF MetricsIInv, Sound
<1>2. /\ Sound'
      /\ pages' \in [Page -> PageState]
      /\ collections' \in [Collection -> CollectionState]
      /\ CollectionsCover'
      /\ \A q \in Page \ {p} : pages'[q] = pages[q]
      /\ SameReadings(pages'[p], page)
      /\ page.refreshPending => pages'[p].request # None
      /\ ~page.refreshPending => pages'[p].request = None
      /\ pages'[p].aborted = "no"
  BY <1>1, SettlesSound
<1>3. TypeOK'
  BY <1>1, <1>2 DEF TypeOK
<1>4. page.state # "left" /\ (page.refreshPending => page.state = "visible")
  BY <1>1 DEF PageIsSound
<1>5. Shows(p)'
  BY <1>2, <1>4 DEF Shows, SameReadings
<1>6. Resumes(p)'
  BY <1>2, <1>4 DEF Resumes, SameReadings
<1>7. \A q \in Page \ {p} : pages'[q] = pages[q] /\ brought'[q] = brought[q] /\ due'[q] = due[q]
  BY <1>2
<1> QED
  BY <1>2, <1>3, <1>5, <1>6, <1>7, OnePageSteps

\* What a completed request records.
LEMMA CompletedType ==
  ASSUME TypeOK, NEW p \in Page, NEW keys \in SUBSET Key, Completed(p, keys)
  PROVE  /\ brought' \in [Page -> SUBSET Key] /\ due' \in [Page -> BOOLEAN]
         /\ \A q \in Page \ {p} : brought'[q] = brought[q] /\ due'[q] = due[q]
         /\ brought'[p] = keys /\ ~due'[p]
  BY DEF Completed, TypeOK

\* What a page shows after an answer, and after a failure.
LEMMA ReconciledShows ==
  ASSUME NEW page \in PageState, NEW value \in [Key -> Reading],
         Covers(page.measurement["cpu"]), Covers(value["cpu"])
  PROVE  /\ Reconciled(page, value) \in PageState
         /\ Reconciled(page, value).request = page.request
         /\ Reconciled(page, value).state = page.state
         /\ Reconciled(page, value).refreshPending = page.refreshPending
         /\ ~Reconciled(page, value).requestFailure
         /\ Covers(Reconciled(page, value).measurement["cpu"])
         /\ \A k \in Key :
               (/\ IsAvailable(Reconciled(page, value).measurement[k])
                /\ ~Reconciled(page, value).stale[k]) <=> IsAvailable(value[k])
<1> DEFINE kept == [k \in Key |-> IF IsAvailable(value[k]) THEN value[k] ELSE page.measurement[k]]
           stale == [k \in Key |-> ~IsAvailable(value[k]) /\ IsAvailable(page.measurement[k])]
<1>1. kept \in [Key -> Reading] /\ stale \in [Key -> BOOLEAN]
  BY DEF PageState, IsAvailable
<1>2. Reconciled(page, value) = [page EXCEPT !.measurement = kept, !.stale = stale,
                                               !.initialLoading = FALSE, !.requestFailure = FALSE]
  BY DEF Reconciled
<1>3. "cpu" \in Key
  BY DEF Key
<1>4. Covers(kept["cpu"])
  BY <1>3
<1>5. \A k \in Key : (IsAvailable(kept[k]) /\ ~stale[k]) <=> IsAvailable(value[k])
  OBVIOUS
<1> HIDE DEF kept, stale
<1> QED
  BY <1>1, <1>2, <1>4, <1>5 DEF PageState

\* A failure leaves nothing current.
LEMMA RetainedShows ==
  ASSUME NEW page \in PageState
  PROVE  /\ Retained(page) \in PageState
         /\ Retained(page).request = page.request
         /\ Retained(page).state = page.state
         /\ Retained(page).refreshPending = page.refreshPending
         /\ Retained(page).measurement = page.measurement
         /\ \A k \in Key : ~(IsAvailable(page.measurement[k]) /\ ~Retained(page).stale[k])
<1> DEFINE stale == [k \in Key |-> IsAvailable(page.measurement[k])]
<1>1. stale \in [Key -> BOOLEAN]
  BY DEF IsAvailable
<1>2. Retained(page) = [page EXCEPT !.stale = stale, !.initialLoading = FALSE, !.requestFailure = TRUE]
  BY DEF Retained
<1>3. \A k \in Key : ~(IsAvailable(page.measurement[k]) /\ ~stale[k])
  OBVIOUS
<1> HIDE DEF stale
<1> QED
  BY <1>1, <1>2, <1>3 DEF PageState

\* An answer arrives.
LEMMA ReceivesInv == ASSUME MetricsIInv, NEW p \in Page, Receives(p) PROVE MetricsIInv'
<1> DEFINE c == pages[p].request
           value == collections[c].reading
           page == Reconciled(pages[p], value)
           keys == {k \in Key : IsAvailable(value[k])}
<1>1. TypeOK /\ CollectionsCover /\ Shows(p) /\ pages[p] \in PageState
  BY DEF MetricsIInv, TypeOK
<1>2. c # None /\ Settles(p, page) /\ Completed(p, keys) /\ UNCHANGED <<now, previous>>
  BY DEF Receives
<1>3. c \in Collection
  BY <1>1, <1>2 DEF PageState
<1>4. value \in [Key -> Reading] /\ Covers(value["cpu"])
  BY <1>1, <1>3 DEF TypeOK, CollectionState, CollectionsCover
<1>5. Covers(pages[p].measurement["cpu"])
  BY <1>1 DEF Shows
<1>6. keys \in SUBSET Key /\ \A k \in Key : IsAvailable(value[k]) <=> k \in keys
  OBVIOUS
<1> HIDE DEF value, keys
<1>7. /\ page \in PageState /\ page.request = c /\ page.state = pages[p].state
      /\ page.refreshPending = pages[p].refreshPending /\ ~page.requestFailure
      /\ Covers(page.measurement["cpu"])
      /\ \A k \in Key : (IsAvailable(page.measurement[k]) /\ ~page.stale[k]) <=> IsAvailable(value[k])
  BY <1>1, <1>4, <1>5, ReconciledShows
<1>8. /\ brought' \in [Page -> SUBSET Key] /\ due' \in [Page -> BOOLEAN]
      /\ \A q \in Page \ {p} : brought'[q] = brought[q] /\ due'[q] = due[q]
      /\ brought'[p] = keys /\ ~due'[p]
  BY <1>1, <1>2, <1>6, CompletedType
<1> HIDE DEF page
<1> QED
  BY <1>2, <1>6, <1>7, <1>8, EndsInv

\* A failure, of whatever kind.
LEMMA FailureInv ==
  ASSUME MetricsIInv, NEW p \in Page, pages[p].request # None,
         Settles(p, Retained(pages[p])), Completed(p, {}), UNCHANGED <<now, previous>>
  PROVE  MetricsIInv'
<1> DEFINE page == Retained(pages[p])
<1>1. TypeOK /\ Shows(p) /\ pages[p] \in PageState
  BY DEF MetricsIInv, TypeOK
<1>2. /\ page \in PageState /\ page.request = pages[p].request /\ page.state = pages[p].state
      /\ page.refreshPending = pages[p].refreshPending /\ page.measurement = pages[p].measurement
      /\ \A k \in Key : ~(IsAvailable(pages[p].measurement[k]) /\ ~page.stale[k])
  BY <1>1, RetainedShows
<1>3. /\ brought' \in [Page -> SUBSET Key] /\ due' \in [Page -> BOOLEAN]
      /\ \A q \in Page \ {p} : brought'[q] = brought[q] /\ due'[q] = due[q]
      /\ brought'[p] = {} /\ ~due'[p]
  BY <1>1, CompletedType
<1>4. Covers(page.measurement["cpu"])
  BY <1>1, <1>2 DEF Shows
<1>5. \A k \in Key : (IsAvailable(page.measurement[k]) /\ ~page.stale[k]) <=> k \in brought'[p]
  BY <1>2, <1>3
<1>6. Settles(p, page)
  OBVIOUS
<1> HIDE DEF page
<1> QED
  BY <1>2, <1>3, <1>4, <1>5, <1>6, EndsInv

\* A request fails.
LEMMA FailsInv == ASSUME MetricsIInv, NEW p \in Page, Fails(p) PROVE MetricsIInv'
  BY FailureInv DEF Fails

\* An aborted fetch rejects.
LEMMA UnwindsInv == ASSUME MetricsIInv, NEW p \in Page, Unwinds(p) PROVE MetricsIInv'
<1>1. TypeOK /\ pages[p] \in PageState /\ PageIsSound(p) /\ Shows(p) /\ Resumes(p)
  BY DEF MetricsIInv, TypeOK, Sound
<1>2. pages[p].aborted # "no" /\ pages[p].request # None /\ UNCHANGED <<now, previous>>
  BY <1>1 DEF Unwinds, PageIsSound
<1>3. CASE pages[p].aborted = "timeout"
  BY <1>2, <1>3, FailureInv DEF Unwinds
<1>4. CASE pages[p].aborted # "timeout"
  <2>1. pages[p].aborted = "hidden"
    BY <1>1, <1>2, <1>4 DEF PageState
  <2>2. Settles(p, pages[p]) /\ UNCHANGED <<brought, due>>
    BY <1>4 DEF Unwinds
  <2>3. due[p] => pages[p].refreshPending
    BY <1>1, <2>1 DEF Resumes
  <2>4. brought \in [Page -> SUBSET Key] /\ due \in [Page -> BOOLEAN]
    BY <1>1 DEF TypeOK
  <2>5. /\ \A k \in Key :
              (IsAvailable(pages[p].measurement[k]) /\ ~pages[p].stale[k]) <=> k \in brought[p]
        /\ pages[p].requestFailure => brought[p] = {}
        /\ Covers(pages[p].measurement["cpu"])
    BY <1>1 DEF Shows
  <2> QED
    BY <1>1, <1>2, <2>2, <2>3, <2>4, <2>5, EndsInv
<1> QED
  BY <1>3, <1>4

\* A page goes away with all that it shows.
LEMMA LeaveInv == ASSUME MetricsIInv, NEW p \in Page, Leave(p) PROVE MetricsIInv'
<1> DEFINE page == Fresh("left")
           served == Abandoned(pages[p].request)
<1>1. TypeOK /\ Sound /\ CollectionsCover
  BY DEF MetricsIInv
<1>2. /\ page \in PageState /\ page.request = None /\ page.aborted = "no"
      /\ page.refreshPending = FALSE /\ page.state = "left"
  BY FreshType
<1>3. /\ served \in [Collection -> CollectionState]
      /\ \A q \in Page \ {p} : pages[q].request # None => served[pages[q].request].phase # "idle"
      /\ \A c \in Collection : served[c].phase = "collected" =>
            \E q \in Page \ {p} : pages[q].request = c
  BY <1>1, AbandonedType
<1>4. /\ pages' = [pages EXCEPT ![p] = page] /\ collections' = served
      /\ Completed(p, {}) /\ UNCHANGED <<now, previous>>
  BY DEF Leave
<1>5. \A c \in Collection : Covers(served[c].reading["cpu"])
  BY <1>1, AbandonedCovers
<1>6. SameReadings(page, Fresh("left"))
  BY DEF SameReadings
<1> HIDE DEF page, served
<1>7. Becomes(p, page, served) /\ ServesOthers(p, page, served)
  BY <1>2, <1>3, <1>4 DEF Becomes, ServesOthers
<1>8. Sound'
  BY <1>1, <1>2, <1>7, BecomesSound
<1>9. /\ brought' \in [Page -> SUBSET Key] /\ due' \in [Page -> BOOLEAN]
      /\ \A q \in Page \ {p} : brought'[q] = brought[q] /\ due'[q] = due[q]
      /\ brought'[p] = {} /\ ~due'[p]
  BY <1>1, <1>4, CompletedType
<1>10. pages'[p] = page /\ \A q \in Page \ {p} : pages'[q] = pages[q]
  BY <1>1, <1>4 DEF TypeOK
<1>11. TypeOK'
  BY <1>1, <1>2, <1>3, <1>4, <1>9 DEF TypeOK
<1>12. CollectionsCover'
  BY <1>4, <1>5 DEF CollectionsCover
<1>13. SameReadings(pages'[p], Fresh("left"))
  BY <1>6, <1>10
<1>14. Shows(p)'
  <2>1. /\ \A k \in Key : pages'[p].measurement[k] = Unavailable
        /\ pages'[p].requestFailure = FALSE
    BY <1>13, FreshType DEF SameReadings
  <2> QED
    BY <1>9, <2>1, UnavailableIsNot DEF Shows, Key
<1>15. Resumes(p)'
  BY <1>2, <1>9, <1>10 DEF Resumes
<1> QED
  BY <1>8, <1>9, <1>10, <1>11, <1>12, <1>14, <1>15, OnePageSteps

\* A page is mounted, visible or hidden.
LEMMA MountInv == ASSUME MetricsIInv, NEW p \in Page, Mount(p) PROVE MetricsIInv'
<1>1. TypeOK /\ Sound /\ CollectionsCover /\ Shows(p) /\ Resumes(p) /\ PageIsSound(p)
  BY DEF MetricsIInv, Sound
<1>2. pages[p].state = "left" /\ pages[p].request = None /\ brought[p] = {} /\ ~due[p]
  BY <1>1 DEF Mount, PageIsSound, Shows, Resumes
<1>3. UNCHANGED <<now, previous, brought>>
  BY DEF Mount
<1>4. CASE Refresh(p, Fresh("visible"), collections) /\ due' = [due EXCEPT ![p] = TRUE]
  <2> DEFINE page == Fresh("visible")
  <2>1. /\ page \in PageState /\ page.aborted = "no"
        /\ page.refreshPending = FALSE /\ page.state = "visible"
    BY FreshType
  <2>2. collections \in [Collection -> CollectionState]
    BY <1>1 DEF TypeOK
  <2>3. \A q \in Page \ {p} : pages[q].request # None => collections[pages[q].request].phase # "idle"
    BY <1>1 DEF Sound, PageIsSound
  <2>4. \A c \in Collection : collections[c].phase = "collected" =>
           \E q \in Page \ {p} : pages[q].request = c
    BY <1>1, <1>2, MetricsAssumption DEF Sound, IsAwaited
  <2>5. Refresh(p, page, collections)
    BY <1>4
  <2>6. \A k \in Key : page.measurement[k] = Unavailable
    BY FreshType
  <2>7. page.requestFailure = FALSE
    BY FreshType
  <2> HIDE DEF page
  <2>8. /\ Sound'
        /\ pages' \in [Page -> PageState]
        /\ collections' \in [Collection -> CollectionState]
        /\ SameReadings(pages'[p], page)
        /\ pages'[p].request # None
        /\ pages'[p].aborted = page.aborted
        /\ \A q \in Page \ {p} : pages'[q] = pages[q]
    BY <1>1, <2>1, <2>2, <2>3, <2>4, <2>5, RefreshSound
  <2>9. CollectionsCover'
    BY <1>1, <2>5, RefreshCovers DEF CollectionsCover
  <2>10. due' \in [Page -> BOOLEAN] /\ \A q \in Page \ {p} : due'[q] = due[q]
    BY <1>1, <1>4 DEF TypeOK
  <2>11. TypeOK'
    BY <1>1, <1>3, <2>8, <2>10 DEF TypeOK
  <2>12. Shows(p)'
    BY <1>2, <1>3, <2>6, <2>7, <2>8, UnavailableIsNot DEF Shows, SameReadings, Key
  <2>13. Resumes(p)'
    BY <2>1, <2>8 DEF Resumes, SameReadings
  <2>14. \A q \in Page \ {p} : pages'[q] = pages[q] /\ brought'[q] = brought[q] /\ due'[q] = due[q]
    BY <1>3, <2>8, <2>10
  <2> QED
    BY <2>8, <2>9, <2>11, <2>12, <2>13, <2>14, OnePageSteps
<1>5. CASE pages' = [pages EXCEPT ![p] = Fresh("hidden")] /\ UNCHANGED <<collections, due>>
  <2> DEFINE page == Fresh("hidden")
  <2>1. /\ page \in PageState /\ page.request = None /\ page.aborted = "no"
        /\ page.refreshPending = FALSE /\ page.state = "hidden"
        /\ page.requestFailure = FALSE /\ \A k \in Key : page.measurement[k] = Unavailable
    BY FreshType
  <2>2. pages' = [pages EXCEPT ![p] = page]
    BY <1>5
  <2> HIDE DEF page
  <2>3. pages'[p] = page /\ \A q \in Page \ {p} : pages'[q] = pages[q]
    BY <1>1, <2>2 DEF TypeOK
  <2>4. Becomes(p, page, collections)
    BY <1>1, <1>5, <2>1, <2>2 DEF Becomes, TypeOK
  <2>5. ServesOthers(p, page, collections)
    BY <1>1, <1>2, MetricsAssumption DEF ServesOthers, Sound, PageIsSound, IsAwaited
  <2>6. Sound'
    BY <1>1, <2>1, <2>4, <2>5, BecomesSound
  <2>7. TypeOK'
    BY <1>1, <1>3, <1>5, <2>4 DEF TypeOK, Becomes
  <2>8. CollectionsCover'
    BY <1>1, <1>5 DEF CollectionsCover
  <2>9. Shows(p)'
    BY <1>2, <1>3, <2>1, <2>3, UnavailableIsNot DEF Shows, Key
  <2>10. Resumes(p)'
    BY <1>2, <1>5, <2>1, <2>3 DEF Resumes
  <2>11. \A q \in Page \ {p} : pages'[q] = pages[q] /\ brought'[q] = brought[q] /\ due'[q] = due[q]
    BY <1>3, <1>5, <2>3
  <2> QED
    BY <2>6, <2>7, <2>8, <2>9, <2>10, <2>11, OnePageSteps
<1> QED
  BY <1>4, <1>5 DEF Mount

\* Every step of the Server or a page preserves the invariant.
LEMMA MetricsStepInv == MetricsIInv /\ [Next]_vars => MetricsIInv'
<1> SUFFICES ASSUME MetricsIInv, [Next]_vars PROVE MetricsIInv'
  OBVIOUS
<1>1. CASE Tick
  BY <1>1, TickInv
<1>2. ASSUME NEW c \in Collection, ReadSources(c) \/ Collect(c) PROVE MetricsIInv'
  BY <1>2, ReadSourcesInv, CollectInv
<1>3. ASSUME NEW p \in Page, Mount(p) \/ Leave(p) \/ Show(p) \/ Hide(p) \/ Poll(p) PROVE MetricsIInv'
  BY <1>3, MountInv, LeaveInv, ShowInv, HideInv, PollInv
<1>4. ASSUME NEW p \in Page, Receives(p) \/ Fails(p) \/ TimesOut(p) \/ Unwinds(p) PROVE MetricsIInv'
  BY <1>4, ReceivesInv, FailsInv, TimesOutInv, UnwindsInv
<1>5. CASE UNCHANGED vars
  BY <1>5 DEF vars, MetricsIInv, TypeOK, Sound, PageIsSound, IsAwaited, CollectionsCover, Shows, Resumes
<1> QED
  BY <1>1, <1>2, <1>3, <1>4, <1>5 DEF Next

\* The invariant holds in every behaviour.
LEMMA MetricsIInvHolds == Spec => []MetricsIInv
  BY MetricsInitInv, MetricsStepInv, PTL DEF Spec

(* Requests and collections belong together, page by page.                 *)
THEOREM MetricsCorrect == Spec => []MetricsInv
  BY MetricsIInvHolds, MetricsIInvSuffices, PTL

(* What is shown as current is what the latest request brought.            *)
THEOREM ReadingsAreLatest == Spec => []CurrentReadingsAreLatest
  BY MetricsIInvHolds, MetricsIInvSuffices, PTL

(* Overlapping collections share the earlier sample: no reading suffers.   *)
THEOREM CpuReadingsCover == Spec => []CpuReadingsCoverTime
  BY MetricsIInvHolds, MetricsIInvSuffices, PTL

(* A page that is shown has a request of its own or will make one.         *)
THEOREM ShowingRefreshes == Spec => []ResumingRefreshes
  BY MetricsIInvHolds, MetricsIInvSuffices, PTL

-----------------------------------------------------------------------------
(* The history of the CPU *)

(* Readings are in order: the latest is no older than what is stored, and  *)
(* no later than the Server's clock.                                       *)
InOrder ==
    /\ windowEnd <= clock
    /\ reading.at <= clock + offset
    /\ \A s \in stored : s.at <= reading.at
    /\ \A at \in resumed : at <= reading.at

(* With a Server whose clock is not ahead, what is missed leaves a break   *)
(* behind it or nothing to be joined to.                                   *)
BreaksAreKept ==
    /\ missed /\ ~shouldBreakPath => stored = {}
    /\ \A s \in stored : s.at \in resumed /\ ~s.breakBefore => \A t \in stored : s.at <= t.at

HistoryIInv ==
    /\ HistoryTypeOK
    /\ \A s, t \in stored : s.at = t.at => s = t
    /\ \A s \in stored : s.at <= windowEnd
    /\ Cardinality(stored) <= MaxSamples
    /\ InOrder
    /\ offset <= 0 => BreaksAreKept

\* A break that is kept is drawn.
LEMMA HistoryIInvSuffices == HistoryIInv => HistoryInv
<1> SUFFICES ASSUME HistoryIInv PROVE HistoryInv
  OBVIOUS
<1>1. ASSUME offset <= 0, NEW s \in Samples, NEW t \in Samples, Joined(s, t)
      PROVE  t.at \notin resumed
  <2>1. s \in stored /\ t \in stored /\ s.at \in Int /\ t.at \in Int
    BY DEF Samples, Trimmed, HistoryIInv, HistoryTypeOK, Sample
  <2>2. s.at < t.at /\ ~t.breakBefore
    BY <1>1 DEF Joined
  <2>3. t.at \in resumed => t.at <= s.at
    BY <1>1, <2>1, <2>2 DEF HistoryIInv, BreaksAreKept
  <2> QED
    BY <2>1, <2>2, <2>3
<1> QED
  BY <1>1 DEF HistoryIInv, HistoryInv, GapsAreDrawn

\* There is no sample.
LEMMA HistoryInitInv == HistoryInit => HistoryIInv
<1> SUFFICES ASSUME HistoryInit PROVE HistoryIInv
  OBVIOUS
<1>1. /\ offset \in Offsets /\ offset \in Int /\ windowEnd = 0 /\ clock = 0
      /\ stored = {} /\ resumed = {}
      /\ reading = [status |-> "loading", at |-> offset - 1] /\ shouldBreakPath = TRUE /\ missed = FALSE
  BY HistoryAssumption DEF HistoryInit
<1>2. HistoryTypeOK
  <2>1. 0 \in 0..MaxTicks
    BY HistoryAssumption
  <2>2. IsFiniteSet(stored) /\ stored \subseteq Sample
    BY <1>1, FS_EmptySet
  <2>3. reading \in [status : {"loading", "available", "stale", "unavailable"}, at : Int]
    BY <1>1
  <2> QED
    BY <1>1, <2>1, <2>2, <2>3 DEF HistoryTypeOK
<1>3. InOrder /\ BreaksAreKept
  BY <1>1 DEF InOrder, BreaksAreKept
<1>4. Cardinality(stored) <= MaxSamples
  BY <1>1, FS_EmptySet, HistoryAssumption
<1> QED
  BY <1>1, <1>2, <1>3, <1>4 DEF HistoryIInv

(* slice(-MAX_SAMPLES) of samples that differ in time: the number of later *)
(* ones tells them apart, and there are MaxSamples such numbers.           *)
LEMMA LatestIsBounded ==
  ASSUME NEW samples \in SUBSET Sample, IsFiniteSet(samples),
         \A s, t \in samples : s.at = t.at => s = t
  PROVE  /\ Latest(samples) \subseteq samples
         /\ IsFiniteSet(Latest(samples))
         /\ Cardinality(Latest(samples)) <= MaxSamples
<1> DEFINE Later(s) == {t \in samples : t.at > s.at}
           latest == Latest(samples)
           Numbers == 0..(MaxSamples - 1)
           number == [s \in latest |-> Cardinality(Later(s))]
<1>1. latest \subseteq samples /\ \A s \in latest : Cardinality(Later(s)) < MaxSamples
  BY DEF Latest
<1>2. IsFiniteSet(latest) /\ Cardinality(latest) \in Nat
  BY <1>1, FS_Subset, FS_CardinalityType
<1>3. \A s \in samples : IsFiniteSet(Later(s)) /\ Cardinality(Later(s)) \in Nat
  <2> SUFFICES ASSUME NEW s \in samples PROVE IsFiniteSet(Later(s)) /\ Cardinality(Later(s)) \in Nat
    OBVIOUS
  <2>1. Later(s) \in SUBSET samples
    OBVIOUS
  <2> QED
    BY <2>1, FS_Subset, FS_CardinalityType
<1>4. MaxSamples \in Nat \ {0}
  BY HistoryAssumption
<1>5. IsFiniteSet(Numbers) /\ Cardinality(Numbers) = MaxSamples
  BY <1>4, FS_Interval
<1>6. ASSUME NEW s \in latest, NEW t \in latest, s.at < t.at
      PROVE  number[s] # number[t]
  <2>1. s.at \in Int /\ t.at \in Int /\ s \in samples /\ t \in samples
    BY <1>1 DEF Sample
  <2>2. ASSUME NEW u \in Later(t) PROVE u \in Later(s)
    <3>1. u \in samples /\ u.at > t.at /\ u.at \in Int
      BY DEF Sample
    <3> QED
      BY <1>6, <2>1, <3>1
  <2>3. Later(t) \in SUBSET Later(s) /\ t \in Later(s) /\ t \notin Later(t)
    BY <1>6, <2>1, <2>2
  <2>4. Cardinality(Later(s)) # Cardinality(Later(t))
    <3>1. Later(s) # Later(t)
      BY <2>3
    <3>2. IsFiniteSet(Later(s))
      BY <1>3, <2>1
    <3> HIDE DEF Later
    <3> QED
      BY <2>3, <3>1, <3>2, FS_Subset
  <2> QED
    BY <2>4
<1>7. number \in [latest -> Numbers]
  <2>1. \A s \in latest : Cardinality(Later(s)) \in Numbers
    <3> SUFFICES ASSUME NEW s \in latest PROVE Cardinality(Later(s)) \in Numbers
      OBVIOUS
    <3>1. Cardinality(Later(s)) \in Nat /\ Cardinality(Later(s)) < MaxSamples
      BY <1>1, <1>3
    <3> HIDE DEF Later
    <3> QED
      BY <1>4, <3>1
  <2> HIDE DEF Later, latest, Numbers
  <2> QED
    BY <2>1
<1>8. ASSUME NEW s \in latest, NEW t \in latest, s # t PROVE number[s] # number[t]
  <2>1. s.at \in Int /\ t.at \in Int /\ s.at # t.at
    BY <1>1, <1>8 DEF Sample
  <2>2. s.at < t.at \/ t.at < s.at
    BY <2>1
  <2> HIDE DEF number, latest
  <2> QED
    BY <1>6, <2>2
<1> HIDE DEF number, latest, Numbers
<1>9. ~(Cardinality(Numbers) < Cardinality(latest))
  BY <1>2, <1>5, <1>7, <1>8, FS_PigeonHole
<1>10. Cardinality(latest) <= MaxSamples
  BY <1>2, <1>4, <1>5, <1>9
<1> QED
  BY <1>1, <1>2, <1>10 DEF latest

\* The samples that a step keeps are of those there were.
LEMMA TrimmedIs ==
  ASSUME NEW samples \in SUBSET Sample, IsFiniteSet(samples), NEW time \in Int
  PROVE  /\ Trimmed(samples, time) \in SUBSET samples
         /\ IsFiniteSet(Trimmed(samples, time))
         /\ Cardinality(Trimmed(samples, time)) <= Cardinality(samples)
         /\ \A s \in Trimmed(samples, time) : s.at <= time
<1>1. Trimmed(samples, time) \in SUBSET samples
  BY DEF Trimmed
<1>2. \A s \in Trimmed(samples, time) : s.at <= time
  BY DEF Trimmed
<1> QED
  BY <1>1, <1>2, FS_Subset

\* A reading is kept, or discarded with nothing to join over it.
LEMMA ReadingChangesInv ==
  ASSUME HistoryIInv,
         NEW next \in [status : {"loading", "available", "stale", "unavailable"}, at : Int],
         ReadingChanges(next), next.at <= clock + offset,
         next.status = "available" => reading.at < next.at,
         next.status # "available" => next.at = reading.at
  PROVE  HistoryIInv'
<1> DEFINE current == next.status = "available"
           retained == Trimmed(stored, clock)
           accepted == /\ current
                       /\ clock - HistoryWindow <= next.at /\ next.at <= clock
                       /\ \A s \in retained : s.at # next.at
           sample == [at |-> next.at, breakBefore |-> shouldBreakPath]
           candidates == retained \cup {sample}
<1>1. /\ stored \in SUBSET Sample /\ IsFiniteSet(stored) /\ Cardinality(stored) \in Nat
      /\ clock \in Int /\ offset \in Int /\ reading.at \in Int /\ next.at \in Int
      /\ MaxSamples \in Int /\ HistoryWindow \in Int /\ windowEnd \in Int
      /\ shouldBreakPath \in BOOLEAN /\ missed \in BOOLEAN /\ resumed \subseteq Int
  BY HistoryAssumption, FS_CardinalityType DEF HistoryIInv, HistoryTypeOK
<1>2. /\ reading' = next /\ windowEnd' = clock /\ shouldBreakPath' = ~current
      /\ stored' = IF accepted THEN Latest(candidates) ELSE retained
      /\ missed' = (~accepted /\ (missed \/ ~current))
      /\ resumed' = IF accepted /\ missed THEN resumed \cup {next.at} ELSE resumed
      /\ offset' = offset /\ clock' = clock
  BY DEF ReadingChanges
<1>3. /\ retained \in SUBSET stored /\ IsFiniteSet(retained)
      /\ Cardinality(retained) <= Cardinality(stored) /\ Cardinality(retained) \in Nat
      /\ \A s \in retained : s.at <= clock
  BY <1>1, TrimmedIs, FS_CardinalityType
<1>4. reading.at <= next.at
  BY <1>1
<1>5. sample \in Sample /\ sample.at = next.at /\ sample.breakBefore = shouldBreakPath
  BY <1>1 DEF Sample
<1>6. /\ \A s, t \in stored : s.at = t.at => s = t
      /\ Cardinality(stored) <= MaxSamples
      /\ \A s \in stored : s.at <= reading.at /\ s.at \in Int
      /\ \A at \in resumed : at <= reading.at
      /\ windowEnd <= clock
  BY <1>1 DEF HistoryIInv, InOrder, Sample
<1>7. accepted \in BOOLEAN /\ current \in BOOLEAN
  OBVIOUS
<1>8. accepted => /\ current /\ clock - HistoryWindow <= next.at /\ next.at <= clock
                  /\ \A s \in retained : s.at # next.at
  OBVIOUS
<1>9. current /\ ~accepted => \/ next.at < clock - HistoryWindow
                              \/ next.at > clock
                              \/ \E s \in retained : s.at = next.at
  BY <1>1
<1>10. \A s \in retained : clock - HistoryWindow <= s.at
  BY DEF Trimmed
<1> HIDE DEF accepted, retained, sample
<1>11. CASE accepted
  <2>1. candidates \in SUBSET Sample /\ IsFiniteSet(candidates)
    BY <1>1, <1>3, <1>5, FS_AddElement
  <2>2. \A s, t \in candidates : s.at = t.at => s = t
    BY <1>3, <1>5, <1>6, <1>8, <1>11
  <2>3. \A s \in candidates : s.at <= next.at /\ s.at <= clock
    BY <1>1, <1>3, <1>4, <1>5, <1>6, <1>8, <1>11
  <2> HIDE DEF candidates
  <2>4. /\ stored' \subseteq candidates /\ IsFiniteSet(stored')
        /\ Cardinality(stored') <= MaxSamples
    BY <1>2, <1>11, <2>1, <2>2, LatestIsBounded
  <2>5. resumed' \subseteq Int /\ \A at \in resumed' : at <= next.at
    <3>1. resumed' \subseteq resumed \cup {next.at}
      BY <1>2
    <3>2. \A at \in resumed : at \in Int /\ at <= next.at
      BY <1>1, <1>4, <1>6
    <3> QED
      BY <1>1, <3>1, <3>2
  <2>6. HistoryTypeOK'
    BY <1>1, <1>2, <1>7, <2>1, <2>4, <2>5 DEF HistoryTypeOK, HistoryIInv
  <2>7. InOrder'
    BY <1>1, <1>2, <2>3, <2>4, <2>5 DEF InOrder
  <2>8. ASSUME offset <= 0 PROVE BreaksAreKept'
    <3>1. BreaksAreKept
      BY <2>8 DEF HistoryIInv
    <3>2. ~missed'
      BY <1>2, <1>11
    <3>3. ASSUME NEW s \in stored', s.at \in resumed', ~s.breakBefore, NEW t \in stored'
          PROVE  s.at <= t.at
      <4>1. s \in candidates /\ t \in candidates
        BY <2>4
      <4>2. reading.at < next.at
        BY <1>8, <1>11
      <4>3. CASE s = sample
        <5>1. next.at \notin resumed
          BY <1>1, <1>6, <4>2
        <5>2. missed /\ ~shouldBreakPath
          BY <1>2, <1>5, <3>3, <4>3, <5>1
        <5>3. retained = {}
          BY <1>3, <3>1, <5>2 DEF BreaksAreKept
        <5> QED
          BY <1>1, <1>5, <4>1, <4>3, <5>3 DEF candidates
      <4>4. CASE s # sample
        <5>1. s \in retained /\ s \in stored
          BY <1>3, <4>1, <4>4 DEF candidates
        <5>2. s.at <= reading.at /\ s.at \in Int
          BY <1>6, <5>1
        <5>3. s.at \in resumed
          BY <1>1, <1>2, <3>3, <4>2, <5>2
        <5>4. CASE t = sample
          BY <1>1, <1>5, <4>2, <5>2, <5>4
        <5>5. CASE t # sample
          BY <1>3, <3>1, <3>3, <4>1, <5>1, <5>3, <5>5 DEF candidates, BreaksAreKept
        <5> QED
          BY <5>4, <5>5
      <4> QED
        BY <4>3, <4>4
    <3> QED
      BY <3>2, <3>3 DEF BreaksAreKept
  <2> QED
    BY <1>2, <2>2, <2>3, <2>4, <2>6, <2>7, <2>8 DEF HistoryIInv
<1>12. CASE ~accepted
  <2>1. stored' = retained /\ resumed' = resumed
    BY <1>2, <1>12
  <2>2. HistoryTypeOK'
    BY <1>1, <1>2, <1>3, <1>7, <2>1 DEF HistoryTypeOK, HistoryIInv
  <2>3. \A s \in retained : s.at <= next.at
    BY <1>1, <1>3, <1>4, <1>6
  <2>4. InOrder'
    BY <1>1, <1>2, <1>4, <1>6, <2>1, <2>3 DEF InOrder
  <2>5. ASSUME offset <= 0 PROVE BreaksAreKept'
    <3>1. BreaksAreKept
      BY <2>5 DEF HistoryIInv
    <3>2. ASSUME missed', ~shouldBreakPath' PROVE retained = {}
      <4>1. current
        BY <1>2, <3>2
      <4>2. reading.at < next.at
        BY <4>1
      <4>3. next.at <= clock
        BY <1>1, <2>5
      <4>4. \A s \in retained : s.at < next.at
        BY <1>1, <1>3, <1>6, <4>2
      <4>5. next.at < clock - HistoryWindow
        BY <1>1, <1>9, <1>12, <4>1, <4>3, <4>4
      <4> QED
        BY <1>1, <1>3, <1>6, <1>10, <4>4, <4>5
    <3>3. \A s \in retained : s.at \in resumed /\ ~s.breakBefore => \A t \in retained : s.at <= t.at
      BY <1>3, <3>1 DEF BreaksAreKept
    <3> QED
      BY <2>1, <3>2, <3>3 DEF BreaksAreKept
  <2>6. Cardinality(retained) <= MaxSamples
    BY <1>1, <1>3, <1>6
  <2> QED
    BY <1>2, <1>3, <1>6, <2>1, <2>2, <2>4, <2>5, <2>6 DEF HistoryIInv
<1> QED
  BY <1>11, <1>12

\* A measurement that is later than the last.
LEMMA ObservedInv == ASSUME HistoryIInv, Observed PROVE HistoryIInv'
<1>1. PICK at \in (reading.at + 1)..(clock + offset) :
         ReadingChanges([status |-> "available", at |-> at])
  BY DEF Observed
<1>2. clock \in Int /\ offset \in Int /\ reading.at \in Int
  BY HistoryAssumption DEF HistoryIInv, HistoryTypeOK
<1>3. at \in Int /\ reading.at < at /\ at <= clock + offset
  BY <1>2
<1> QED
  BY <1>1, <1>3, ReadingChangesInv

\* A request that brings none.
LEMMA NotObservedInv == ASSUME HistoryIInv, NotObserved PROVE HistoryIInv'
<1> DEFINE status == IF reading.status \in {"available", "stale"} THEN "stale" ELSE "unavailable"
           next == [reading EXCEPT !.status = status]
<1>1. reading \in [status : {"loading", "available", "stale", "unavailable"}, at : Int]
      /\ reading.at <= clock + offset
  BY DEF HistoryIInv, HistoryTypeOK, InOrder
<1>2. ReadingChanges(next)
  BY <1>1 DEF NotObserved
<1>3. status \in {"stale", "unavailable"}
  OBVIOUS
<1> HIDE DEF status
<1>4. next \in [status : {"loading", "available", "stale", "unavailable"}, at : Int]
      /\ next.status # "available" /\ next.at = reading.at
  BY <1>1, <1>3
<1> HIDE DEF next
<1> QED
  BY <1>1, <1>2, <1>4, ReadingChangesInv

\* What remains changes no sample, or drops them all.
LEMMA OthersInv ==
  ASSUME HistoryIInv, ClockAdvances \/ WindowMoves \/ VisibilityChanges \/ HistoryRestarts
  PROVE  HistoryIInv'
<1>1. clock \in Int /\ offset \in Int /\ windowEnd \in Int /\ reading.at \in Int /\ MaxTicks \in Int
      /\ \A s \in stored : s.at \in Int
  BY HistoryAssumption DEF HistoryIInv, HistoryTypeOK, Sample
<1>2. CASE ClockAdvances
  <2>1. HistoryTypeOK'
    BY <1>1, <1>2 DEF ClockAdvances, HistoryIInv, HistoryTypeOK
  <2>2. InOrder'
    BY <1>1, <1>2 DEF ClockAdvances, HistoryIInv, InOrder
  <2> QED
    BY <1>2, <2>1, <2>2 DEF ClockAdvances, HistoryIInv, BreaksAreKept
<1>3. CASE WindowMoves \/ VisibilityChanges
  <2>1. /\ windowEnd' = clock /\ missed' \in BOOLEAN /\ shouldBreakPath' \in BOOLEAN
        /\ (UNCHANGED <<missed, shouldBreakPath>>) \/ shouldBreakPath'
        /\ UNCHANGED <<offset, clock, reading, stored, resumed>>
    BY <1>3 DEF WindowMoves, VisibilityChanges, HistoryIInv, HistoryTypeOK
  <2>2. windowEnd <= clock
    BY DEF HistoryIInv, InOrder
  <2>3. HistoryTypeOK'
    BY <1>1, <2>1 DEF HistoryIInv, HistoryTypeOK
  <2>4. InOrder'
    BY <1>1, <2>1 DEF HistoryIInv, InOrder
  <2>5. \A s \in stored : s.at <= clock
    BY <1>1, <2>2 DEF HistoryIInv
  <2>6. BreaksAreKept => BreaksAreKept'
    BY <2>1 DEF BreaksAreKept
  <2> QED
    BY <2>1, <2>3, <2>4, <2>5, <2>6 DEF HistoryIInv
<1>4. CASE HistoryRestarts
  <2>1. /\ windowEnd' = clock /\ missed' = FALSE /\ shouldBreakPath' = TRUE /\ stored' = {}
        /\ UNCHANGED <<offset, clock, resumed>>
    BY <1>4 DEF HistoryRestarts
  <2>2. reading' \in [status : {"loading", "available", "stale", "unavailable"}, at : Int]
        /\ reading'.at = reading.at
    BY <1>4 DEF HistoryRestarts, HistoryIInv, HistoryTypeOK
  <2>3. HistoryTypeOK'
    BY <1>1, <2>1, <2>2, FS_EmptySet DEF HistoryIInv, HistoryTypeOK
  <2>4. InOrder'
    BY <1>1, <2>1, <2>2 DEF HistoryIInv, InOrder
  <2>5. Cardinality(stored') <= MaxSamples
    BY <2>1, FS_EmptySet, HistoryAssumption
  <2>6. BreaksAreKept'
    BY <2>1 DEF BreaksAreKept
  <2> QED
    BY <2>1, <2>3, <2>4, <2>5, <2>6 DEF HistoryIInv
<1> QED
  BY <1>2, <1>3, <1>4

\* Every step of the chart preserves the invariant.
LEMMA HistoryStepInv == HistoryIInv /\ [HistoryNext]_historyVars => HistoryIInv'
<1> SUFFICES ASSUME HistoryIInv, [HistoryNext]_historyVars PROVE HistoryIInv'
  OBVIOUS
<1>1. CASE UNCHANGED historyVars
  BY <1>1 DEF historyVars, HistoryIInv, HistoryTypeOK, InOrder, BreaksAreKept
<1> QED
  BY <1>1, ObservedInv, NotObservedInv, OthersInv DEF HistoryNext

(* Whatever is discarded for its age, a gap is drawn where something was   *)
(* missed, and no more samples are kept than may be.                       *)
THEOREM HistoryCorrect == HistorySpec => []HistoryInv
<1>1. HistorySpec => []HistoryIInv
  BY HistoryInitInv, HistoryStepInv, PTL DEF HistorySpec
<1> QED
  BY <1>1, HistoryIInvSuffices, PTL

-----------------------------------------------------------------------------
(* The download feed *)

(* What FeedInv says of one card.                                          *)
CardIsSound(d) ==
    /\ cards[d].status = "available" <=> arrived[d]
    /\ cards[d].status \in {"available", "stale"} <=> cards[d].hasQueue
    /\ cards[d].aborted # "no" => cards[d].request # "none"
    /\ cards[d].state = "left" => cards[d] = FreshCard("left")
    /\ cards[d].request = "waiting" /\ cards[d].aborted = "no" => inflight.running

(* The cache is as old as the rest that the services have had: nothing is  *)
(* put into it but what a collection brought when it ended.  And no read   *)
(* is under way but those that the collection waits for.                   *)
ReadsArePending == \A s \in Service : reads[s] = IF s \in inflight.pending THEN 1 ELSE 0

FeedIInv ==
    /\ FeedTypeOK
    /\ inflight.running \/ inflight = NotCollecting
    /\ cached.age = rested
    /\ ReadsArePending
    /\ \A d \in Card : CardIsSound(d)

\* The inductive invariant has FeedInv.
LEMMA FeedIInvSuffices == FeedIInv => FeedInv
  BY DEF FeedIInv, FeedInv, CardIsSound

\* A card that is mounted has no queue and waits for nothing.
LEMMA FreshCardType ==
  ASSUME NEW state \in {"visible", "hidden", "left"}
  PROVE  /\ FreshCard(state) \in CardState
         /\ FreshCard(state).state = state
         /\ FreshCard(state).request = "none"
         /\ FreshCard(state).aborted = "no"
         /\ FreshCard(state).status = "loading"
         /\ ~FreshCard(state).hasQueue
  BY DEF FreshCard, CardState, Queue

\* Nothing is cached and nobody asks.
LEMMA FeedInitInv == FeedInit => FeedIInv
<1> SUFFICES ASSUME FeedInit PROVE FeedIInv
  OBVIOUS
<1>1. FeedTypeOK
  BY FreshCardType, FeedAssumption DEF FeedInit, FeedTypeOK, NoCache, NotCollecting, Queue
<1>2. cached.age = rested
  BY DEF FeedInit, NoCache
<1>3. \A d \in Card : CardIsSound(d)
  BY FreshCardType DEF FeedInit, CardIsSound
<1>4. ReadsArePending
  BY DEF FeedInit, ReadsArePending, NotCollecting
<1> QED
  BY <1>1, <1>2, <1>3, <1>4 DEF FeedInit, FeedIInv

\* A step of one card: the worker's side may begin to collect with it.
LEMMA OneCardSteps ==
  ASSUME FeedIInv, NEW d \in Card, NEW card \in CardState, NEW got \in BOOLEAN,
         cards' = [cards EXCEPT ![d] = card], arrived' = [arrived EXCEPT ![d] = got],
         UNCHANGED <<up, cached, rested>>,
         UNCHANGED <<inflight, reads>> \/ (~inflight.running /\ BeginCollection),
         card.status = "available" <=> got,
         card.status \in {"available", "stale"} <=> card.hasQueue,
         card.aborted # "no" => card.request # "none",
         card.state = "left" => card = FreshCard("left"),
         card.request = "waiting" /\ card.aborted = "no" => inflight'.running
  PROVE  FeedIInv'
<1>1. FeedTypeOK
  BY DEF FeedIInv
<1>2. inflight' \in [running : BOOLEAN, pending : SUBSET Service, value : Queue]
  <2>1. [running |-> TRUE, pending |-> Service, value |-> {}]
           \in [running : BOOLEAN, pending : SUBSET Service, value : Queue]
    BY DEF Queue
  <2>2. inflight \in [running : BOOLEAN, pending : SUBSET Service, value : Queue]
    BY <1>1 DEF FeedTypeOK
  <2> QED
    BY <2>1, <2>2 DEF BeginCollection
<1>9. reads' \in [Service -> Nat] /\ ReadsArePending'
  <2>1. reads \in [Service -> Nat] /\ ReadsArePending
    BY <1>1 DEF FeedTypeOK, FeedIInv
  <2>2. CASE UNCHANGED <<inflight, reads>>
    BY <2>1, <2>2 DEF ReadsArePending
  <2>3. CASE ~inflight.running /\ BeginCollection
    <3>1. inflight.pending = {}
      BY <2>3 DEF FeedIInv, NotCollecting
    <3>2. \A s \in Service : reads[s] = 0
      BY <2>1, <3>1 DEF ReadsArePending
    <3>3. reads' = [s \in Service |-> 1] /\ inflight'.pending = Service
      BY <2>3, <3>2 DEF BeginCollection
    <3> QED
      BY <3>3 DEF ReadsArePending
  <2> QED
    BY <2>2, <2>3
<1>3. FeedTypeOK'
  BY <1>1, <1>2, <1>9 DEF FeedTypeOK
<1>4. inflight'.running \/ inflight' = NotCollecting
  BY DEF FeedIInv, BeginCollection
<1>5. cards'[d] = card /\ arrived'[d] = got
      /\ \A e \in Card \ {d} : cards'[e] = cards[e] /\ arrived'[e] = arrived[e]
  BY <1>1 DEF FeedTypeOK
<1>6. CardIsSound(d)'
  BY <1>5 DEF CardIsSound
<1>7. inflight.running => inflight'.running
  BY DEF BeginCollection
<1>8. ASSUME NEW e \in Card \ {d} PROVE CardIsSound(e)'
  BY <1>5, <1>7 DEF FeedIInv, CardIsSound
<1> QED
  BY <1>3, <1>4, <1>6, <1>8, <1>9 DEF FeedIInv

\* The step of one card that leaves the worker alone, as a fact of its own.
LEMMA CardIs ==
  ASSUME FeedIInv, NEW d \in Card
  PROVE  cards[d] \in CardState /\ arrived[d] \in BOOLEAN /\ CardIsSound(d)
         /\ arrived = [arrived EXCEPT ![d] = arrived[d]]
  BY DEF FeedIInv, FeedTypeOK

\* What refresh does to a card.
LEMMA RefreshedType ==
  ASSUME NEW card \in CardState
  PROVE  /\ Refreshed(card) \in CardState
         /\ Refreshed(card).state = card.state
         /\ Refreshed(card).status = card.status
         /\ Refreshed(card).hasQueue = card.hasQueue
         /\ Refreshed(card).request # "none"
         /\ card.request # "none" => Refreshed(card) = card
         /\ Refreshed(card).request = "waiting" => card.request = "waiting"
  BY DEF Refreshed, CardState

\* What finally does to a card.
LEMMA EndedType ==
  ASSUME NEW card \in CardState
  PROVE  /\ Ended(card) \in CardState
         /\ Ended(card).state = card.state
         /\ Ended(card).status = card.status
         /\ Ended(card).hasQueue = card.hasQueue
         /\ Ended(card).request = "none"
         /\ Ended(card).aborted = "no"
  BY DEF Ended, CardState, Queue

\* What catch and finally do to a card.
LEMMA FailedType ==
  ASSUME NEW card \in CardState
  PROVE  /\ Failed(card) \in CardState
         /\ Failed(card).state = card.state
         /\ Failed(card).status # "available"
         /\ Failed(card).status = "stale" <=> card.hasQueue
         /\ Failed(card).hasQueue = card.hasQueue
         /\ Failed(card).request = "none"
         /\ Failed(card).aborted = "no"
  BY EndedType DEF Failed, CardState

-----------------------------------------------------------------------------
\* The services change, time passes, a service answers.
LEMMA WorkerInv ==
  ASSUME FeedIInv,
         ServicesChange \/ TimePasses \/ \E s \in Service : ServiceAnswers(s)
  PROVE  FeedIInv'
<1>1. FeedTypeOK /\ cached.age = rested
  BY DEF FeedIInv
<1>2. UNCHANGED <<cards, arrived>>
  BY DEF ServicesChange, TimePasses, ServiceAnswers
<1>3. up' \in Queue
  BY <1>1 DEF ServicesChange, TimePasses, ServiceAnswers, FeedTypeOK
<1>4. \A age \in 0..CacheTime : Older(age) \in 0..CacheTime
  BY FeedAssumption DEF Older
<1>5. /\ cached' \in [value : Queue, age : 0..CacheTime] /\ rested' \in 0..CacheTime
      /\ cached'.age = rested'
  BY <1>1, <1>4 DEF ServicesChange, TimePasses, ServiceAnswers, FeedTypeOK
<1>6. /\ inflight' \in [running : BOOLEAN, pending : SUBSET Service, value : Queue]
      /\ inflight'.running = inflight.running
      /\ ~inflight.running => UNCHANGED inflight
  <2>1. CASE ServicesChange \/ TimePasses
    BY <1>1, <2>1 DEF ServicesChange, TimePasses, FeedTypeOK
  <2>2. ASSUME NEW s \in Service, ServiceAnswers(s)
        PROVE  /\ inflight' \in [running : BOOLEAN, pending : SUBSET Service, value : Queue]
               /\ inflight'.running = inflight.running
               /\ inflight.running
    <3> DEFINE pending == inflight.pending \ {s}
               value == IF s \in up THEN inflight.value \cup {s} ELSE inflight.value
    <3>1. inflight \in [running : BOOLEAN, pending : SUBSET Service, value : SUBSET Service]
      BY <1>1 DEF FeedTypeOK, Queue
    <3>2. pending \in SUBSET Service /\ value \in SUBSET Service
      BY <3>1
    <3>3. inflight' = [inflight EXCEPT !.pending = pending, !.value = value]
      BY <2>2, <3>1 DEF ServiceAnswers
    <3>4. NotCollecting.pending = {}
      BY DEF NotCollecting
    <3>5. inflight.pending # {}
      BY <2>2 DEF ServiceAnswers
    <3>6. inflight.running
      BY <3>4, <3>5 DEF FeedIInv
    <3> HIDE DEF pending, value
    <3> QED
      BY <3>1, <3>2, <3>3, <3>6 DEF Queue
  <2> QED
    BY <2>1, <2>2
<1>7. reads' \in [Service -> Nat] /\ ReadsArePending'
  <2>1. reads \in [Service -> Nat] /\ ReadsArePending
    BY <1>1 DEF FeedTypeOK, FeedIInv
  <2>2. CASE ServicesChange \/ TimePasses
    BY <2>1, <2>2 DEF ServicesChange, TimePasses, ReadsArePending
  <2>3. ASSUME NEW s \in Service, ServiceAnswers(s)
        PROVE  reads' \in [Service -> Nat] /\ ReadsArePending'
    <3>1. reads[s] = 1 /\ reads' = [reads EXCEPT ![s] = reads[s] - 1]
      BY <2>1, <2>3 DEF ServiceAnswers, ReadsArePending
    <3>2. reads' = [reads EXCEPT ![s] = 0]
      BY <3>1
    <3>3. inflight'.pending = inflight.pending \ {s}
      BY <1>1, <2>3 DEF ServiceAnswers, FeedTypeOK
    <3> QED
      BY <2>1, <3>2, <3>3 DEF ReadsArePending
  <2> QED
    BY <2>2, <2>3
<1>8. FeedTypeOK'
  BY <1>1, <1>2, <1>3, <1>5, <1>6, <1>7 DEF FeedTypeOK
<1>9. \A d \in Card : CardIsSound(d)'
  BY <1>2, <1>6 DEF FeedIInv, CardIsSound
<1> QED
  BY <1>5, <1>6, <1>7, <1>8, <1>9 DEF FeedIInv

\* A collection ends: those who wait are answered.
LEMMA CollectedInv == ASSUME FeedIInv, Collected PROVE FeedIInv'
<1>1. FeedTypeOK
  BY DEF FeedIInv
<1>2. inflight' = NotCollecting /\ rested' = 0 /\ cached' = [value |-> inflight.value, age |-> 0]
      /\ UNCHANGED <<up, reads, arrived>>
  BY DEF Collected, Keeps
<1>3. NotCollecting \in [running : BOOLEAN, pending : SUBSET Service, value : Queue]
  BY DEF NotCollecting, Queue
<1>4. inflight.value \in Queue /\ 0 \in 0..CacheTime
  BY <1>1, FeedAssumption DEF FeedTypeOK
<1>5. ASSUME NEW d \in Card PROVE cards'[d] \in CardState /\ CardIsSound(d)'
  <2>1. cards[d] \in CardState /\ CardIsSound(d)
    BY <1>1 DEF FeedTypeOK, FeedIInv
  <2>2. CASE cards[d].request = "waiting"
    <3> DEFINE card == [cards[d] EXCEPT !.request = "served", !.served = inflight.value]
    <3>1. cards'[d] = card
      BY <2>2 DEF Collected
    <3>2. card \in CardState /\ card.request = "served" /\ card.status = cards[d].status
          /\ card.hasQueue = cards[d].hasQueue /\ card.state = cards[d].state
      BY <1>4, <2>1 DEF CardState
    <3>3. cards[d].state # "left"
      BY <2>1, <2>2, FreshCardType DEF CardIsSound
    <3> HIDE DEF card
    <3> QED
      BY <1>2, <2>1, <3>1, <3>2, <3>3 DEF CardIsSound
  <2>3. CASE cards[d].request # "waiting"
    BY <1>2, <2>1, <2>3 DEF Collected, CardIsSound
  <2> QED
    BY <2>2, <2>3
<1>6. cards' \in [Card -> CardState]
  <2>1. cards' = [d \in Card |-> cards'[d]]
    BY DEF Collected
  <2> QED
    BY <1>5, <2>1
<1>7. FeedTypeOK'
  BY <1>1, <1>2, <1>3, <1>4, <1>6 DEF FeedTypeOK
<1>8. ReadsArePending'
  <2>1. inflight.pending = {}
    BY DEF Collected
  <2>2. inflight'.pending = {} /\ reads' = reads
    BY <1>2 DEF NotCollecting
  <2> QED
    BY <2>1, <2>2 DEF FeedIInv, ReadsArePending
<1> QED
  BY <1>2, <1>5, <1>7, <1>8 DEF FeedIInv

\* The worker is restarted: those who wait fail.
LEMMA RestartWorkerInv == ASSUME FeedIInv, RestartWorker PROVE FeedIInv'
<1> DEFINE Waits(d) == cards[d].request = "waiting" /\ cards[d].aborted = "no"
<1>1. FeedTypeOK
  BY DEF FeedIInv
<1>2. inflight' = NotCollecting /\ rested' = CacheTime /\ cached' = NoCache /\ UNCHANGED up
      /\ reads' = [s \in Service |-> 0]
  BY DEF RestartWorker
<1>3. NotCollecting \in [running : BOOLEAN, pending : SUBSET Service, value : Queue]
  BY DEF NotCollecting, Queue
<1>4. /\ NoCache \in [value : Queue, age : 0..CacheTime] /\ NoCache.age = CacheTime
      /\ CacheTime \in 0..CacheTime
  BY FeedAssumption DEF NoCache, Queue
<1>5. ASSUME NEW d \in Card PROVE cards'[d] \in CardState /\ arrived'[d] \in BOOLEAN /\ CardIsSound(d)'
  <2>1. cards[d] \in CardState /\ arrived[d] \in BOOLEAN /\ CardIsSound(d)
    BY CardIs
  <2>2. CASE Waits(d)
    <3>1. cards'[d] = Failed(cards[d]) /\ arrived'[d] = FALSE
      BY <2>2 DEF RestartWorker
    <3>2. cards[d].state # "left"
      BY <2>1, <2>2, FreshCardType DEF CardIsSound
    <3> QED
      BY <2>1, <3>1, <3>2, FailedType DEF CardIsSound
  <2>3. CASE ~Waits(d)
    <3>1. cards'[d] = cards[d] /\ arrived'[d] = arrived[d]
      BY <2>1, <2>3 DEF RestartWorker
    <3> QED
      BY <2>1, <2>3, <3>1 DEF CardIsSound
  <2> QED
    BY <2>2, <2>3
<1>6. cards' \in [Card -> CardState]
  <2>1. cards' = [d \in Card |-> cards'[d]]
    BY DEF RestartWorker
  <2> QED
    BY <1>5, <2>1
<1>7. arrived' \in [Card -> BOOLEAN]
  <2>1. arrived' = [d \in Card |-> arrived'[d]]
    BY DEF RestartWorker
  <2> QED
    BY <1>5, <2>1
<1>8. FeedTypeOK'
  BY <1>1, <1>2, <1>3, <1>4, <1>6, <1>7 DEF FeedTypeOK
<1>9. ReadsArePending'
  BY <1>2 DEF ReadsArePending, NotCollecting
<1> QED
  BY <1>2, <1>4, <1>5, <1>8, <1>9 DEF FeedIInv

-----------------------------------------------------------------------------
\* A request is answered from the cache or waits.
LEMMA AskInv == ASSUME FeedIInv, NEW d \in Card, Ask(d) PROVE FeedIInv'
<1>1. cards[d] \in CardState /\ arrived[d] \in BOOLEAN /\ CardIsSound(d)
      /\ arrived = [arrived EXCEPT ![d] = arrived[d]]
  BY CardIs
<1>2. cards[d].state # "left" /\ cards[d].request = "asked"
  BY <1>1, FreshCardType DEF Ask, CardIsSound
<1>3. /\ UNCHANGED <<up, cached, rested, arrived>>
      /\ cached.value \in Queue /\ cards \in [Card -> CardState]
  BY DEF Ask, FeedIInv, FeedTypeOK
<1>4. CASE IsFresh
  <2> DEFINE card == [cards[d] EXCEPT !.request = "served", !.served = cached.value]
  <2>1. cards' = [cards EXCEPT ![d] = card] /\ UNCHANGED <<inflight, reads>>
    BY <1>1, <1>3, <1>4 DEF Ask, CardState
  <2>2. card \in CardState /\ card.request = "served" /\ card.status = cards[d].status
        /\ card.hasQueue = cards[d].hasQueue /\ card.state = cards[d].state
    BY <1>1, <1>3 DEF CardState
  <2> HIDE DEF card
  <2> QED
    BY <1>1, <1>2, <1>3, <2>1, <2>2, OneCardSteps DEF CardIsSound
<1>5. CASE ~IsFresh
  <2> DEFINE card == [cards[d] EXCEPT !.request = "waiting"]
  <2>1. cards' = [cards EXCEPT ![d] = card]
    BY <1>1, <1>3, <1>5 DEF Ask, CardState
  <2>2. card \in CardState /\ card.request = "waiting" /\ card.status = cards[d].status
        /\ card.hasQueue = cards[d].hasQueue /\ card.state = cards[d].state
    BY <1>1 DEF CardState
  <2>3. (UNCHANGED <<inflight, reads>> /\ inflight.running) \/ (~inflight.running /\ BeginCollection)
    BY <1>5 DEF Ask
  <2>4. inflight'.running
    BY <2>3 DEF BeginCollection
  <2> HIDE DEF card
  <2> QED
    BY <1>1, <1>2, <1>3, <2>1, <2>2, <2>3, <2>4, OneCardSteps DEF CardIsSound
<1> QED
  BY <1>4, <1>5

\* A card that stays where it is and keeps what it shows.
LEMMA CardAsksInv ==
  ASSUME FeedIInv, NEW d \in Card, NEW card \in CardState, card.state # "left",
         cards[d].state # "left",
         card.status = cards[d].status, card.hasQueue = cards[d].hasQueue,
         card.aborted # "no" => card.request # "none",
         card.request = "waiting" =>
            cards[d].request = "waiting" /\ (card.aborted = "no" => cards[d].aborted = "no"),
         cards' = [cards EXCEPT ![d] = card], UNCHANGED <<up, cached, inflight, reads, rested, arrived>>
  PROVE  FeedIInv'
  BY CardIs, OneCardSteps DEF CardIsSound

\* The interval timer of the card.
LEMMA PollQueueInv == ASSUME FeedIInv, NEW d \in Card, PollQueue(d) PROVE FeedIInv'
<1>1. cards[d] \in CardState /\ cards[d].request = "none" /\ cards[d].state = "visible"
  BY CardIs DEF PollQueue
<1>2. /\ cards' = [cards EXCEPT ![d] = Refreshed(cards[d])]
      /\ UNCHANGED <<up, cached, inflight, reads, rested, arrived>>
  BY DEF PollQueue
<1> QED
  BY <1>1, <1>2, RefreshedType, CardAsksInv

\* A hidden card is shown.
LEMMA ShowCardInv == ASSUME FeedIInv, NEW d \in Card, ShowCard(d) PROVE FeedIInv'
<1> DEFINE shown == [cards[d] EXCEPT !.state = "visible"]
           card == Refreshed(shown)
<1>1. cards[d] \in CardState /\ cards[d].state = "hidden" /\ CardIsSound(d)
  BY CardIs DEF ShowCard
<1>2. shown \in CardState /\ shown.state = "visible" /\ shown.status = cards[d].status
      /\ shown.hasQueue = cards[d].hasQueue /\ shown.request = cards[d].request
      /\ shown.aborted = cards[d].aborted
  BY <1>1 DEF CardState
<1>3. cards' = [cards EXCEPT ![d] = card] /\ UNCHANGED <<up, cached, inflight, reads, rested, arrived>>
  BY DEF ShowCard
<1> HIDE DEF shown
<1>4. /\ card \in CardState /\ card.state = "visible" /\ card.status = cards[d].status
      /\ card.hasQueue = cards[d].hasQueue /\ card.request # "none"
      /\ card.request = "waiting" => card = shown
  BY <1>2, RefreshedType
<1> HIDE DEF card
<1> QED
  BY <1>1, <1>2, <1>3, <1>4, CardAsksInv

\* A card is hidden.
LEMMA HideCardInv == ASSUME FeedIInv, NEW d \in Card, HideCard(d) PROVE FeedIInv'
<1> DEFINE aborted == IF cards[d].request = "none" THEN "no" ELSE "hidden"
           card == [cards[d] EXCEPT !.state = "hidden", !.aborted = aborted]
<1>1. cards[d] \in CardState /\ cards[d].state = "visible"
  BY CardIs DEF HideCard
<1>2. cards' = [cards EXCEPT ![d] = card] /\ UNCHANGED <<up, cached, inflight, reads, rested, arrived>>
  BY <1>1 DEF HideCard, CardState, FeedIInv, FeedTypeOK
<1>3. card \in CardState /\ card.state = "hidden" /\ card.status = cards[d].status
      /\ card.hasQueue = cards[d].hasQueue /\ card.request = cards[d].request
      /\ card.aborted = aborted
  BY <1>1 DEF CardState
<1>4. (aborted # "no" => cards[d].request # "none") /\ (cards[d].request = "waiting" => aborted # "no")
  OBVIOUS
<1> HIDE DEF card, aborted
<1> QED
  BY <1>1, <1>2, <1>3, <1>4, CardAsksInv

\* A request takes too long.
LEMMA QueueTimesOutInv == ASSUME FeedIInv, NEW d \in Card, QueueTimesOut(d) PROVE FeedIInv'
<1> DEFINE card == [cards[d] EXCEPT !.aborted = "timeout"]
<1>1. cards[d] \in CardState /\ cards[d].request # "none" /\ CardIsSound(d)
  BY CardIs DEF QueueTimesOut
<1>2. cards[d].state # "left"
  BY <1>1, FreshCardType DEF CardIsSound
<1>3. cards' = [cards EXCEPT ![d] = card] /\ UNCHANGED <<up, cached, inflight, reads, rested, arrived>>
  BY <1>1 DEF QueueTimesOut, CardState, FeedIInv, FeedTypeOK
<1>4. card \in CardState /\ card.state = cards[d].state /\ card.status = cards[d].status
      /\ card.hasQueue = cards[d].hasQueue /\ card.request = cards[d].request
      /\ card.aborted = "timeout"
  BY <1>1 DEF CardState
<1> HIDE DEF card
<1> QED
  BY <1>1, <1>2, <1>3, <1>4, CardAsksInv

\* The ways in which a request of d ends.
LEMMA QueueArrivesInv == ASSUME FeedIInv, NEW d \in Card, QueueArrives(d) PROVE FeedIInv'
<1> DEFINE card == [Ended(cards[d]) EXCEPT !.hasQueue = TRUE, !.queue = cards[d].served,
                                           !.status = "available"]
<1>1. cards[d] \in CardState /\ cards[d].request = "served" /\ CardIsSound(d)
  BY CardIs DEF QueueArrives
<1>2. cards[d].state # "left"
  BY <1>1, FreshCardType DEF CardIsSound
<1>3. cards' = [cards EXCEPT ![d] = card] /\ arrived' = [arrived EXCEPT ![d] = TRUE]
      /\ UNCHANGED <<up, cached, inflight, reads, rested>>
  BY DEF QueueArrives
<1>4. cards[d].served \in Queue
  BY <1>1 DEF CardState
<1>5. card \in CardState /\ card.state = cards[d].state /\ card.status = "available"
      /\ card.hasQueue /\ card.request = "none" /\ card.aborted = "no"
  <2> DEFINE ended == Ended(cards[d])
  <2>1. /\ ended \in CardState /\ ended.state = cards[d].state
        /\ ended.request = "none" /\ ended.aborted = "no"
    BY <1>1, EndedType
  <2>2. card = [ended EXCEPT !.hasQueue = TRUE, !.queue = cards[d].served, !.status = "available"]
    OBVIOUS
  <2> HIDE DEF ended, card
  <2> QED
    BY <1>4, <2>1, <2>2 DEF CardState
<1> HIDE DEF card
<1> QED
  BY <1>2, <1>3, <1>5, OneCardSteps

\* A request that is still its card's fails.
LEMMA CardFailsInv ==
  ASSUME FeedIInv, NEW d \in Card, cards[d].request # "none",
         cards' = [cards EXCEPT ![d] = Failed(cards[d])], arrived' = [arrived EXCEPT ![d] = FALSE],
         UNCHANGED <<up, cached, inflight, reads, rested>>
  PROVE  FeedIInv'
<1>1. cards[d] \in CardState /\ CardIsSound(d)
  BY CardIs
<1>2. cards[d].state # "left"
  BY <1>1, FreshCardType DEF CardIsSound
<1> QED
  BY <1>1, <1>2, FailedType, OneCardSteps

\* A request fails.
LEMMA QueueFailsInv == ASSUME FeedIInv, NEW d \in Card, QueueFails(d) PROVE FeedIInv'
  BY CardFailsInv DEF QueueFails

\* An aborted fetch rejects.
LEMMA FetchRejectsInv == ASSUME FeedIInv, NEW d \in Card, FetchRejects(d) PROVE FeedIInv'
<1>1. cards[d] \in CardState /\ CardIsSound(d) /\ cards[d].request # "none"
      /\ UNCHANGED <<up, cached, inflight, reads, rested>>
  BY CardIs DEF FetchRejects, CardIsSound
<1>2. CASE cards[d].aborted = "timeout"
  BY <1>1, <1>2, CardFailsInv DEF FetchRejects
<1>3. CASE cards[d].aborted # "timeout"
  <2>1. cards' = [cards EXCEPT ![d] = Ended(cards[d])] /\ UNCHANGED arrived
    BY <1>3 DEF FetchRejects
  <2>2. cards[d].state # "left"
    BY <1>1, FreshCardType DEF CardIsSound
  <2> QED
    BY <1>1, <2>1, <2>2, EndedType, CardAsksInv
<1> QED
  BY <1>2, <1>3

\* A card goes away.
LEMMA LeaveCardInv == ASSUME FeedIInv, NEW d \in Card, LeaveCard(d) PROVE FeedIInv'
<1>1. cards' = [cards EXCEPT ![d] = FreshCard("left")] /\ arrived' = [arrived EXCEPT ![d] = FALSE]
      /\ UNCHANGED <<up, cached, inflight, reads, rested>>
  BY DEF LeaveCard
<1> QED
  BY <1>1, FreshCardType, OneCardSteps

\* A card is mounted, visible or hidden.
LEMMA MountCardInv == ASSUME FeedIInv, NEW d \in Card, MountCard(d) PROVE FeedIInv'
<1>1. PICK card \in {Refreshed(FreshCard("visible")), FreshCard("hidden")} :
        cards' = [cards EXCEPT ![d] = card]
  BY DEF MountCard
<1>2. UNCHANGED <<up, cached, inflight, reads, rested, arrived>> /\ cards[d].state = "left"
  BY DEF MountCard
<1>3. ~arrived[d] /\ arrived = [arrived EXCEPT ![d] = arrived[d]] /\ arrived[d] \in BOOLEAN
  BY <1>2, CardIs, FreshCardType DEF CardIsSound
<1>4. /\ card \in CardState /\ card.state # "left" /\ card.status = "loading" /\ ~card.hasQueue
      /\ card.request # "waiting" /\ (card.aborted # "no" => card.request # "none")
  BY FreshCardType, RefreshedType
<1> QED
  BY <1>1, <1>2, <1>3, <1>4, OneCardSteps

\* Every step of the services, the worker or a card preserves the invariant.
LEMMA FeedStepInv == FeedIInv /\ [FeedNext]_feedVars => FeedIInv'
<1> SUFFICES ASSUME FeedIInv, [FeedNext]_feedVars PROVE FeedIInv'
  OBVIOUS
<1>1. CASE ServicesChange \/ TimePasses \/ CollectionProceeds \/ RestartWorker
  BY <1>1, WorkerInv, CollectedInv, RestartWorkerInv DEF CollectionProceeds
<1>2. ASSUME NEW d \in Card, CardProceeds(d) PROVE FeedIInv'
  BY <1>2, PollQueueInv, AskInv, QueueArrivesInv, FetchRejectsInv DEF CardProceeds
<1>3. ASSUME NEW d \in Card, MountCard(d) \/ LeaveCard(d) \/ ShowCard(d) \/ HideCard(d) PROVE FeedIInv'
  BY <1>3, MountCardInv, LeaveCardInv, ShowCardInv, HideCardInv
<1>4. ASSUME NEW d \in Card, QueueFails(d) \/ QueueTimesOut(d) PROVE FeedIInv'
  BY <1>4, QueueFailsInv, QueueTimesOutInv
<1>5. CASE UNCHANGED feedVars
  BY <1>5 DEF feedVars, FeedIInv, FeedTypeOK, CardIsSound, ReadsArePending
<1> QED
  BY <1>1, <1>2, <1>3, <1>4, <1>5 DEF FeedNext

\* Only a request begins a read: it finds the cache too old and nobody reading.
LEMMA ReadsBeginRested ==
  ASSUME FeedIInv, [FeedNext]_feedVars, NEW s \in Service, reads'[s] > reads[s]
  PROVE  reads[s] = 0 /\ rested = CacheTime
<1>0. reads \in [Service -> Nat] /\ reads[s] = IF s \in inflight.pending THEN 1 ELSE 0
  BY DEF FeedIInv, FeedTypeOK, ReadsArePending
<1>1. ASSUME NEW d \in Card, Ask(d) PROVE reads[s] = 0 /\ rested = CacheTime
  <2>1. ~IsFresh /\ ~inflight.running
    BY <1>0, <1>1 DEF Ask
  <2>2. rested = CacheTime
    BY <2>1, FeedAssumption DEF IsFresh, FeedIInv, FeedTypeOK
  <2>3. inflight.pending = {}
    BY <2>1 DEF FeedIInv, NotCollecting
  <2> QED
    BY <1>0, <2>2, <2>3
<1>2. ASSUME NEW t \in Service, ServiceAnswers(t) PROVE FALSE
  <2>1. reads' = [reads EXCEPT ![t] = reads[t] - 1] /\ reads[t] \in Nat
    BY <1>0, <1>2 DEF ServiceAnswers
  <2> QED
    BY <1>0, <2>1
<1>3. CASE ServicesChange \/ TimePasses \/ Collected
  <2>1. UNCHANGED reads
    BY <1>3 DEF ServicesChange, TimePasses, Collected
  <2> QED
    BY <1>0, <2>1
<1>4. CASE RestartWorker
  BY <1>0, <1>4 DEF RestartWorker
<1>5. ASSUME NEW d \in Card,
             PollQueue(d) \/ QueueArrives(d) \/ FetchRejects(d) \/ MountCard(d) \/ LeaveCard(d)
             \/ ShowCard(d) \/ HideCard(d) \/ QueueFails(d) \/ QueueTimesOut(d)
      PROVE  FALSE
  <2>1. UNCHANGED reads
    BY <1>5 DEF PollQueue, QueueArrives, FetchRejects, MountCard, LeaveCard, ShowCard, HideCard,
                QueueFails, QueueTimesOut
  <2> QED
    BY <1>0, <2>1
<1>6. CASE UNCHANGED feedVars
  BY <1>0, <1>6 DEF feedVars
<1> QED
  BY <1>1, <1>2, <1>3, <1>4, <1>5, <1>6 DEF FeedNext, CollectionProceeds, CardProceeds

\* The invariant holds in every behaviour.
LEMMA FeedIInvHolds == FeedSpec => []FeedIInv
  BY FeedInitInv, FeedStepInv, PTL DEF FeedSpec

(* A card says of its queue what its latest completed request brought.     *)
THEOREM FeedCorrect == FeedSpec => []FeedInv
  BY FeedIInvHolds, FeedIInvSuffices, PTL

(* No service is read while it is being read, nor again before its rest is *)
(* over, whatever the last collection brought and whoever asks.            *)
THEOREM FeedSparesUpstream == FeedSpec => UpstreamIsSpared
<1>1. [FeedNext]_feedVars /\ FeedIInv =>
         [\A s \in Service : reads'[s] > reads[s] => reads[s] = 0 /\ rested = CacheTime]_feedVars
  BY ReadsBeginRested
<1> QED
  BY <1>1, FeedIInvHolds, PTL DEF FeedSpec, UpstreamIsSpared

-----------------------------------------------------------------------------
(* The projection of a queue *)

(* Rank of i in a set that a relation orders strictly and totally.         *)
RankIn(S, R, i) == Cardinality({j \in S : <<j, i>> \in R})

OrdersStrictly(R, S) ==
    /\ \A i \in S : <<i, i>> \notin R
    /\ \A i, j, k \in S : <<i, j>> \in R /\ <<j, k>> \in R => <<i, k>> \in R
    /\ \A i, j \in S : i # j => <<i, j>> \in R \/ <<j, i>> \in R

\* Ranks are the numbers below the size of the set, each of one element.
LEMMA RanksAreDense ==
  ASSUME NEW S, IsFiniteSet(S), NEW R, OrdersStrictly(R, S)
  PROVE  /\ Cardinality(S) \in Nat
         /\ \A i \in S : RankIn(S, R, i) \in 0..(Cardinality(S) - 1)
         /\ \A i, j \in S : RankIn(S, R, i) = RankIn(S, R, j) => i = j
         /\ \A m \in 0..(Cardinality(S) - 1) : \E i \in S : RankIn(S, R, i) = m
<1> DEFINE n == Cardinality(S)
           Below(i) == {j \in S : <<j, i>> \in R}
<1>1. n \in Nat
  BY FS_CardinalityType
<1>2. ASSUME NEW i \in S
      PROVE  /\ IsFiniteSet(Below(i)) /\ Cardinality(Below(i)) \in Nat
             /\ IsFiniteSet(Below(i) \cup {i})
             /\ Cardinality(Below(i) \cup {i}) = Cardinality(Below(i)) + 1
  <2>1. IsFiniteSet(Below(i))
    BY FS_Subset
  <2>2. i \notin Below(i)
    BY DEF OrdersStrictly
  <2> HIDE DEF Below
  <2> QED
    BY <2>1, <2>2, FS_AddElement, FS_CardinalityType
<1>3. ASSUME NEW i \in S PROVE Cardinality(Below(i)) \in 0..(n - 1)
  <2>1. Cardinality(Below(i) \cup {i}) <= n
    BY FS_Subset
  <2>2. Cardinality(Below(i)) \in Nat /\ Cardinality(Below(i) \cup {i}) = Cardinality(Below(i)) + 1
    BY <1>2
  <2> HIDE DEF Below, n
  <2> QED
    BY <1>1, <2>1, <2>2
<1>4. ASSUME NEW i \in S, NEW j \in S, <<i, j>> \in R
      PROVE  Cardinality(Below(i)) < Cardinality(Below(j))
  <2>1. Below(i) \cup {i} \subseteq Below(j)
    BY <1>4 DEF OrdersStrictly
  <2>2. Cardinality(Below(i) \cup {i}) <= Cardinality(Below(j))
    BY <1>2, <2>1, FS_Subset
  <2>3. Cardinality(Below(i) \cup {i}) = Cardinality(Below(i)) + 1
    BY <1>2
  <2>4. Cardinality(Below(i)) \in Nat /\ Cardinality(Below(j)) \in Nat
    BY <1>2
  <2> HIDE DEF Below
  <2> QED
    BY <2>2, <2>3, <2>4
<1>5. ASSUME NEW i \in S, NEW j \in S, Cardinality(Below(i)) = Cardinality(Below(j))
      PROVE  i = j
  <2>1. i # j => <<i, j>> \in R \/ <<j, i>> \in R
    BY DEF OrdersStrictly
  <2>2. /\ <<i, j>> \in R => Cardinality(Below(i)) < Cardinality(Below(j))
        /\ <<j, i>> \in R => Cardinality(Below(j)) < Cardinality(Below(i))
    BY <1>4
  <2>3. Cardinality(Below(i)) \in Nat /\ Cardinality(Below(j)) \in Nat
    BY <1>2
  <2> HIDE DEF Below
  <2> QED
    BY <1>5, <2>1, <2>2, <2>3
<1>6. ASSUME NEW m \in 0..(n - 1) PROVE \E i \in S : Cardinality(Below(i)) = m
  <2> DEFINE f == [i \in S |-> Cardinality(Below(i))]
  <2>1. f \in [S -> 0..(n - 1)]
    BY <1>3
  <2>2. \A i, j \in S : f[i] = f[j] => i = j
    BY <1>5
  <2>3. \A i \in S : f[i] = Cardinality(Below(i))
    OBVIOUS
  <2> HIDE DEF f, Below
  <2>4. f \in Injection(S, 0..(n - 1))
    BY <2>1, <2>2 DEF Injection, IsInjective
  <2>5. IsFiniteSet(0..(n - 1)) /\ Cardinality(0..(n - 1)) = n
    BY <1>1, FS_Interval
  <2>6. f \in Surjection(S, 0..(n - 1))
    BY <2>4, <2>5, FS_Injection
  <2> QED
    BY <2>3, <2>6 DEF Surjection
<1> QED
  BY <1>1, <1>3, <1>5, <1>6 DEF RankIn

\* The elements of a lower part have the lowest ranks.
LEMMA RanksOfLower ==
  ASSUME NEW S, IsFiniteSet(S), NEW R, OrdersStrictly(R, S), NEW T \in SUBSET S,
         \A i \in T : \A j \in S : <<j, i>> \in R => j \in T
  PROVE  /\ Cardinality(T) \in Nat
         /\ \A i \in S : RankIn(S, R, i) < Cardinality(T) <=> i \in T
<1> DEFINE Below(i) == {j \in S : <<j, i>> \in R}
<1>1. IsFiniteSet(T) /\ Cardinality(T) \in Nat
  BY FS_Subset, FS_CardinalityType
<1>2. ASSUME NEW i \in S PROVE IsFiniteSet(Below(i)) /\ Cardinality(Below(i)) \in Nat
  BY FS_Subset, FS_CardinalityType
<1>3. ASSUME NEW i \in T PROVE Cardinality(Below(i)) < Cardinality(T)
  <2>1. Below(i) \subseteq T /\ i \notin Below(i)
    BY DEF OrdersStrictly
  <2>2. IsFiniteSet(Below(i)) /\ Cardinality(Below(i)) \in Nat
    BY <1>2
  <2> HIDE DEF Below
  <2>3. Cardinality(Below(i) \cup {i}) = Cardinality(Below(i)) + 1
    BY <2>1, <2>2, FS_AddElement
  <2>4. Below(i) \cup {i} \subseteq T
    BY <2>1
  <2>5. Cardinality(Below(i) \cup {i}) <= Cardinality(T)
    BY <1>1, <2>4, FS_Subset
  <2> QED
    BY <1>1, <2>2, <2>3, <2>5
<1>4. ASSUME NEW i \in S \ T PROVE Cardinality(T) <= Cardinality(Below(i))
  <2>1. T \subseteq Below(i)
    BY DEF OrdersStrictly
  <2> QED
    BY <1>2, <2>1, FS_Subset
<1>5. ASSUME NEW i \in S PROVE Cardinality(Below(i)) < Cardinality(T) <=> i \in T
  <2> HIDE DEF Below
  <2>1. CASE i \in T
    BY <1>3, <2>1
  <2>2. CASE i \notin T
    BY <1>1, <1>2, <1>4, <2>2
  <2> QED
    BY <2>1, <2>2
<1> QED
  BY <1>1, <1>5 DEF RankIn

\* A nonempty set of natural numbers has a first one.
LEMMA SmallestOf ==
  ASSUME NEW S \in SUBSET Nat, S # {}
  PROVE  \E k \in S : \A l \in S : k <= l
<1>1. S \subseteq Nat
  OBVIOUS
<1>2. \E R : IsWellFoundedOn(R, Nat) /\ \A x, y \in S : x < y => <<x, y>> \in R
  <2>1. IsWellFoundedOn(OpToRel(<, Nat), Nat)
    BY NatLessThanWellFounded
  <2>2. \A x, y \in S : x < y => <<x, y>> \in OpToRel(<, Nat)
    BY <1>1 DEF OpToRel
  <2> QED
    BY <2>1, <2>2, Zenon
<1>3. PICK R : IsWellFoundedOn(R, Nat) /\ \A x, y \in S : x < y => <<x, y>> \in R
  BY <1>2, Zenon
<1>4. PICK k \in S : \A l \in S : ~ (<<l, k>> \in R)
  <2>1. IsWellFoundedOn(R, Nat)
    BY <1>3, Zenon
  <2> QED
    BY <1>1, <2>1, WFMin
<1>5. \A l \in S : ~ (l < k)
  BY <1>3, <1>4, Zenon
<1>6. \A l \in S : k <= l
  BY <1>1, <1>5
<1> QED
  BY <1>6, Zenon

-----------------------------------------------------------------------------
\* The severities of the states that a download can be in.
Statuses == {StatusSeverity[k] : k \in 1..8}

\* Trouble comes first.
LEMMA SeverityOf ==
  /\ DOMAIN StatusSeverity = 1..8
  /\ \A k \in 1..8 : Severity(StatusSeverity[k]) = k
  /\ \A k \in 1..8 : StatusSeverity[k] \in {"failed", "warning"} <=> k <= 2
<1>1. DOMAIN StatusSeverity = 1..8
  BY DEF StatusSeverity
<1>2. \A k, l \in 1..8 : StatusSeverity[k] = StatusSeverity[l] => k = l
  BY DEF StatusSeverity
<1>3. \A k \in 1..8 : StatusSeverity[k] \in {"failed", "warning"} <=> k <= 2
  BY DEF StatusSeverity
<1>4. ASSUME NEW k \in 1..8 PROVE Severity(StatusSeverity[k]) = k
  BY <1>1, <1>2 DEF Severity
<1> QED
  BY <1>1, <1>3, <1>4

\* What a record says, and how severe it is.
LEMMA SeverityOfRecord ==
  ASSUME NEW r
  PROVE  /\ Severity(DownloadStatus(r)) \in 1..8
         /\ Severity(DownloadStatus(r)) <= 2 <=> Failing(r) \/ Warning(r)
<1>1. \E k \in 1..8 : /\ DownloadStatus(r) = StatusSeverity[k]
                      /\ k <= 2 <=> Failing(r) \/ Warning(r)
  <2>1. CASE Failing(r)
    BY <2>1 DEF DownloadStatus, StatusSeverity
  <2>2. CASE ~ Failing(r) /\ Warning(r)
    BY <2>2 DEF DownloadStatus, StatusSeverity
  <2>3. CASE ~ Failing(r) /\ ~ Warning(r)
    <3>1. DownloadStatus(r) \in {"importing", "downloading", "paused", "delayed", "queued", "completed"}
      BY <2>3 DEF DownloadStatus
    <3>2. \E k \in 3..8 : DownloadStatus(r) = StatusSeverity[k]
      BY <3>1 DEF StatusSeverity
    <3> QED
      BY <2>3, <3>2
  <2> QED
    BY <2>1, <2>2, <2>3
<1> QED
  BY <1>1, SeverityOf

\* The group of a first record is troubled if one of its records is.
LEMMA StatusOfGroup ==
  ASSUME NEW i \in DOMAIN records
  PROVE  GroupStatus(i) \in {"failed", "warning"} <=>
            \E j \in Members(i) : Failing(records[j].state) \/ Warning(records[j].state)
<1> DEFINE severity(j) == Severity(DownloadStatus(records[j].state))
           severities == {severity(j) : j \in Members(i)}
<1>1. i \in Members(i)
  BY DEF Members
<1>2. \A j \in Members(i) : severity(j) \in 1..8
                            /\ (severity(j) <= 2 <=> Failing(records[j].state) \/ Warning(records[j].state))
  BY SeverityOfRecord
<1> HIDE DEF severity
<1>3. severities \in SUBSET Nat /\ severities # {} /\ severities \subseteq 1..8
  BY <1>1, <1>2
<1>4. \E k \in severities : \A l \in severities : k <= l
  BY <1>3, SmallestOf
<1> DEFINE least == CHOOSE k \in severities : \A l \in severities : k <= l
<1>5. least \in severities /\ \A l \in severities : least <= l
  BY <1>4
<1>6. GroupStatus(i) = StatusSeverity[least]
  BY DEF GroupStatus, severity
<1> HIDE DEF least
<1>7. GroupStatus(i) \in {"failed", "warning"} <=> least <= 2
  BY <1>3, <1>5, <1>6, SeverityOf
<1>8. least <= 2 <=> \E j \in Members(i) : severity(j) <= 2
  BY <1>2, <1>3, <1>5
<1> QED
  BY <1>2, <1>7, <1>8

\* The order of the card, and the order of the records.
Sooner == {p \in Firsts \X Firsts : Before(p[1], p[2])}
Earlier == {p \in Firsts \X Firsts : p[1] < p[2]}

\* Both are orders of the groups.
LEMMA GroupsAreOrdered ==
  ASSUME DOMAIN records \subseteq Nat
  PROVE  OrdersStrictly(Sooner, Firsts) /\ OrdersStrictly(Earlier, Firsts)
<1>1. Firsts \subseteq Nat
  BY DEF Firsts
<1> DEFINE rank(k) == ProblemRank(GroupStatus(k))
           later(k) == IF IsTimed(k) THEN 0 ELSE 1
<1>2. \A k \in Firsts : rank(k) \in 0..2 /\ later(k) \in 0..1
  BY DEF ProblemRank
<1>3. \A p \in Firsts \X Firsts : Before(p[1], p[2]) <=>
          \/ rank(p[1]) < rank(p[2])
          \/ rank(p[1]) = rank(p[2]) /\ later(p[1]) < later(p[2])
          \/ rank(p[1]) = rank(p[2]) /\ later(p[1]) = later(p[2]) /\ p[1] < p[2]
  BY DEF Before
<1> HIDE DEF rank, later
<1>4. \A i, j \in Firsts : <<i, j>> \in Sooner <=>
          \/ rank(i) < rank(j)
          \/ rank(i) = rank(j) /\ later(i) < later(j)
          \/ rank(i) = rank(j) /\ later(i) = later(j) /\ i < j
  BY <1>3 DEF Sooner
<1>5. OrdersStrictly(Sooner, Firsts)
  <2>1. \A i \in Firsts : <<i, i>> \notin Sooner
    BY <1>1, <1>2, <1>4
  <2>2. \A i, j, k \in Firsts : <<i, j>> \in Sooner /\ <<j, k>> \in Sooner => <<i, k>> \in Sooner
    BY <1>1, <1>2, <1>4
  <2>3. \A i, j \in Firsts : i # j => <<i, j>> \in Sooner \/ <<j, i>> \in Sooner
    BY <1>1, <1>2, <1>4
  <2> QED
    BY <2>1, <2>2, <2>3 DEF OrdersStrictly
<1>6. OrdersStrictly(Earlier, Firsts)
  BY <1>1 DEF OrdersStrictly, Earlier
<1> QED
  BY <1>5, <1>6

-----------------------------------------------------------------------------
(* No download has the name of an item of last resort.                     *)
NoneLooksAlike == \A j \in DOMAIN records : Len(records[j].downloadId) # 3

NamesDiffer ==
    /\ \A k, l \in DOMAIN ids : ids[k] = ids[l] => k = l
    /\ \A k \in DOMAIN ids : Len(ids[k]) = 3 => ids[k][2] = k - 1

(* Every group has its name, and with the exception above one of its own.  *)
ProjectionIInv ==
    /\ records \in Seq(Record)
    /\ ids \in Seq(Seq(Nat))
    /\ Len(ids) = Cardinality(Firsts)
    /\ totalRecords = Len(records) + More
    /\ NoneLooksAlike => NamesDiffer

\* There is no record.
LEMMA ProjectionInitInv == ProjectionInit => ProjectionIInv
<1> SUFFICES ASSUME ProjectionInit PROVE ProjectionIInv
  OBVIOUS
<1>1. records = <<>> /\ ids = <<>> /\ totalRecords = More /\ DOMAIN records = {} /\ DOMAIN ids = {}
  BY DEF ProjectionInit
<1>2. Firsts = {} /\ Len(ids) = 0 /\ Len(records) = 0
  BY <1>1 DEF Firsts
<1>3. NamesDiffer
  BY <1>1 DEF NamesDiffer
<1> QED
  BY <1>1, <1>2, <1>3, FS_EmptySet, ProjectionAssumption DEF ProjectionIInv

\* A name is a sequence of numbers; the two that are none are set aside.
LEMMA NamesAre ==
  ASSUME NEW r \in Record
  PROVE  /\ r.downloadId \in Seq(Nat) /\ r.id \in Seq(Nat) /\ Len(r.id) # 3
         /\ \A n \in Nat : ItemName(n) \in Seq(Nat) /\ Len(ItemName(n)) = 2
         /\ \A n, m \in Nat : /\ LastResort(n, m) \in Seq(Nat) /\ Len(LastResort(n, m)) = 3
                              /\ LastResort(n, m)[2] = n
<1>1. /\ \A n \in Nat : <<n>> \in Seq(Nat) /\ Len(<<n>>) = 1
      /\ Missing \in Seq(Nat) /\ Len(Missing) # 3 /\ Unsafe \in Seq(Nat)
  BY DEF Missing, Unsafe
<1>2. \A name \in Numbered : name \in Seq(Nat) /\ Len(name) # 3
  <2>1. ASSUME NEW x \in Name PROVE <<x>> \in Seq(Nat) /\ Len(<<x>>) # 3
    <3>1. x \in Nat
      BY ProjectionAssumption
    <3>2. <<x>> \in Seq(Nat) /\ Len(<<x>>) = 1
      BY <1>1, <3>1
    <3> QED
      BY <3>2
  <2> QED
    BY <2>1 DEF Numbered
<1>3. r.downloadId \in Seq(Nat)
  BY <1>1, <1>2, ProjectionAssumption DEF Record
<1>4. r.id \in Seq(Nat) /\ Len(r.id) # 3
  <2>1. r.id \in Numbered \/ r.id = Missing
    BY DEF Record
  <2> QED
    BY <1>1, <1>2, <2>1, Zenon
<1>5. \A n \in Nat : ItemName(n) \in Seq(Nat) /\ Len(ItemName(n)) = 2
  BY DEF ItemName
<1>6. \A n, m \in Nat : /\ LastResort(n, m) \in Seq(Nat) /\ Len(LastResort(n, m)) = 3
                        /\ LastResort(n, m)[2] = n
  BY DEF LastResort
<1> QED
  BY <1>3, <1>4, <1>5, <1>6

\* The name of a new group is not given yet, or is one of last resort.
LEMMA FreeNameIs ==
  ASSUME NEW r \in Record, ids \in Seq(Seq(Nat))
  PROVE  /\ FreeName(r) \in Seq(Nat)
         /\ \/ /\ FreeName(r) \notin Used
               /\ Len(FreeName(r)) = 3 => FreeName(r) = r.downloadId
            \/ \E m \in Nat : FreeName(r) = LastResort(Len(ids), m)
<1>1. Len(ids) \in Nat
  OBVIOUS
<1>2. /\ Candidates(r)[1] = r.downloadId /\ Candidates(r)[2] = r.id
      /\ Candidates(r)[3] = ItemName(Len(ids))
  BY DEF Candidates
<1>3. CASE Free(r) = {}
  <2>1. Cardinality(Used) \in Nat
    <3>1. IsFiniteSet(DOMAIN ids)
      BY <1>1, FS_Interval
    <3>2. IsFiniteSet(Used)
      <4> DEFINE f == [k \in DOMAIN ids |-> ids[k]]
      <4>1. f \in Surjection(DOMAIN ids, Used)
        BY DEF Surjection, Used
      <4> QED
        BY <3>1, <4>1, FS_Surjection
    <3> QED
      BY <3>2, FS_CardinalityType
  <2>2. FreeName(r) = LastResort(Len(ids), Cardinality(Used))
    BY <1>3 DEF FreeName
  <2> QED
    BY <1>1, <2>1, <2>2, NamesAre
<1>4. CASE Free(r) # {}
  <2>1. Free(r) \in SUBSET Nat /\ Free(r) \subseteq 1..3
    BY DEF Free
  <2>2. PICK k \in Free(r) : FreeName(r) = Candidates(r)[k]
    BY <1>4, <2>1, SmallestOf DEF FreeName
  <2>3. Candidates(r)[k] \notin Used
    BY <2>2 DEF Free
  <2>4. k = 1 \/ k = 2 \/ k = 3
    BY <2>1
  <2>5. FreeName(r) = r.downloadId \/ FreeName(r) = r.id \/ FreeName(r) = ItemName(Len(ids))
    BY <1>2, <2>2, <2>4
  <2>6. /\ ItemName(Len(ids)) \in Seq(Nat) /\ Len(ItemName(Len(ids))) # 3
        /\ r.downloadId \in Seq(Nat) /\ r.id \in Seq(Nat) /\ Len(r.id) # 3
    <3>1. Len(ItemName(Len(ids))) = 2 /\ ItemName(Len(ids)) \in Seq(Nat)
      BY <1>1, NamesAre
    <3> QED
      BY <3>1, NamesAre
  <2>7. FreeName(r) \in Seq(Nat) /\ (Len(FreeName(r)) = 3 => FreeName(r) = r.downloadId)
    BY <2>5, <2>6, Zenon
  <2> QED
    BY <2>2, <2>3, <2>7
<1> QED
  BY <1>3, <1>4

\* A record opens a group or joins one; the groups before keep their names.
LEMMA ReadRecordInv ==
  ASSUME ProjectionIInv, NEW r \in Record, ReadRecord(r)
  PROVE  ProjectionIInv'
<1>0. PICK n \in Nat : n = Len(records)
  BY DEF ProjectionIInv
<1>1. /\ records \in Seq(Record) /\ ids \in Seq(Seq(Nat)) /\ n \in Nat /\ DOMAIN records = 1..n
      /\ Len(ids) \in Nat /\ DOMAIN ids = 1..Len(ids)
  BY <1>0 DEF ProjectionIInv
<1>2. /\ records' = Append(records, r) /\ UNCHANGED service /\ totalRecords' = totalRecords + 1
      /\ ids' = IF Joins(r) THEN ids ELSE Append(ids, FreeName(r))
  BY DEF ReadRecord
<1>3. /\ records' \in Seq(Record) /\ Len(records') = n + 1 /\ DOMAIN records' = 1..(n + 1)
      /\ records'[n + 1] = r /\ \A j \in 1..n : records'[j] = records[j]
  BY <1>0, <1>1, <1>2
<1>4. ASSUME NEW i \in 1..n PROVE IsFirst(i)' <=> IsFirst(i)
  <2>1. \A j \in 1..(i - 1) : records'[i] = records[i] /\ records'[j] = records[j]
    BY <1>1, <1>3
  <2> QED
    BY <1>2, <2>1 DEF IsFirst, SameDownload
<1>5. ASSUME NEW i, i = n + 1 PROVE IsFirst(i)' <=> ~ Joins(r)
  <2>1. i - 1 = n
    BY <1>1, <1>5
  <2>2. IsFirst(i)' <=> \A j \in 1..n :
          ~ (/\ service' = "sonarr" /\ records'[i].downloadId # Missing
             /\ records'[i].downloadId = records'[j].downloadId)
    BY <2>1 DEF IsFirst, SameDownload
  <2>3. IsFirst(i)' <=> \A j \in 1..n :
          ~ (/\ service = "sonarr" /\ r.downloadId # Missing
             /\ r.downloadId = records[j].downloadId)
    BY <1>2, <1>3, <1>5, <2>2
  <2> QED
    BY <1>1, <2>3 DEF Joins
<1>6. Firsts' = IF Joins(r) THEN Firsts ELSE Firsts \cup {n + 1}
  <2>1. Firsts' = {i \in 1..(n + 1) : IsFirst(i)'}
    BY <1>3 DEF Firsts
  <2>2. \A i \in 1..(n + 1) : i \in 1..n \/ i = n + 1
    BY <1>1
  <2>3. 1..n \subseteq 1..(n + 1) /\ n + 1 \in 1..(n + 1) /\ n + 1 \notin 1..n
    BY <1>1
  <2>4. Firsts = {i \in 1..n : IsFirst(i)}
    BY <1>1 DEF Firsts
  <2>5. \A i \in 1..n : IsFirst(i)' <=> IsFirst(i)
    BY <1>4
  <2>6. \A i \in 1..(n + 1) : i = n + 1 => (IsFirst(i)' <=> ~ Joins(r))
    BY <1>5
  <2>7. CASE Joins(r)
    BY <2>1, <2>2, <2>3, <2>4, <2>5, <2>6, <2>7
  <2>8. CASE ~ Joins(r)
    BY <2>1, <2>2, <2>3, <2>4, <2>5, <2>6, <2>8
  <2> QED
    BY <2>7, <2>8
<1>7. IsFiniteSet(Firsts) /\ n + 1 \notin Firsts
  <2>1. IsFiniteSet(1..n) /\ Firsts \in SUBSET (1..n)
    BY <1>1, FS_Interval DEF Firsts
  <2>2. IsFiniteSet(Firsts)
    BY <2>1, FS_Subset
  <2>3. n + 1 \notin 1..n
    BY <1>1
  <2> QED
    BY <2>1, <2>2, <2>3
<1>8. Cardinality(Firsts') = IF Joins(r) THEN Len(ids) ELSE Len(ids) + 1
  BY <1>6, <1>7, FS_AddElement DEF ProjectionIInv
<1>9. ids' \in Seq(Seq(Nat)) /\ Len(ids') = Cardinality(Firsts')
  BY <1>1, <1>2, <1>8, FreeNameIs
<1>10. totalRecords' = Len(records') + More
  <2>1. More \in Nat
    BY ProjectionAssumption
  <2>2. totalRecords = n + More
    BY <1>0 DEF ProjectionIInv
  <2>3. totalRecords' = totalRecords + 1 /\ Len(records') = n + 1
    BY <1>2, <1>3
  <2> QED
    BY <2>1, <2>2, <2>3
<1>11. ASSUME NoneLooksAlike' PROVE NamesDiffer'
  <2>1. NoneLooksAlike /\ Len(r.downloadId) # 3
    <3>1. \A j \in 1..(n + 1) : Len(records'[j].downloadId) # 3
      BY <1>3, <1>11 DEF NoneLooksAlike
    <3>2. n + 1 \in 1..(n + 1) /\ 1..n \subseteq 1..(n + 1)
      BY <1>1
    <3>3. \A j \in 1..n : Len(records[j].downloadId) # 3
      BY <1>3, <3>1, <3>2
    <3>4. Len(r.downloadId) # 3
      BY <1>3, <3>1, <3>2
    <3> QED
      BY <1>1, <3>3, <3>4 DEF NoneLooksAlike
  <2>2. NamesDiffer
    BY <2>1 DEF ProjectionIInv
  <2>3. CASE Joins(r)
    BY <1>2, <2>2, <2>3 DEF NamesDiffer
  <2>4. CASE ~ Joins(r)
    <3> DEFINE m == Len(ids)
               name == FreeName(r)
    <3>1. name \in Seq(Nat)
          /\ \/ name \notin Used /\ Len(name) # 3
             \/ \E x \in Nat : name = LastResort(m, x)
      BY <1>1, <2>1, FreeNameIs
    <3>2. /\ DOMAIN ids' = 1..(m + 1) /\ ids'[m + 1] = name
          /\ \A k \in 1..m : ids'[k] = ids[k]
      BY <1>1, <1>2, <2>4, <3>1
    <3> HIDE DEF name
    <3>3. Len(name) = 3 => name[2] = m
      BY <1>1, <3>1, NamesAre
    <3>4. \A k \in 1..m : ids[k] # name
      <4>1. CASE name \notin Used
        BY <1>1, <4>1 DEF Used
      <4>2. CASE \E x \in Nat : name = LastResort(m, x)
        <5>1. Len(name) = 3 /\ name[2] = m
          BY <1>1, <4>2, NamesAre
        <5>2. ASSUME NEW k \in 1..m, ids[k] = name PROVE FALSE
          <6>1. name[2] = k - 1
            BY <1>1, <2>2, <5>1, <5>2 DEF NamesDiffer
          <6> QED
            BY <1>1, <5>1, <6>1
        <5> QED
          BY <5>2
      <4> QED
        BY <3>1, <4>1, <4>2
    <3>5. \A k \in 1..(m + 1) : k \in 1..m \/ k = m + 1
      BY <1>1
    <3>6. \A k, l \in DOMAIN ids' : ids'[k] = ids'[l] => k = l
      BY <1>1, <2>2, <3>2, <3>4, <3>5 DEF NamesDiffer
    <3>7. \A k \in DOMAIN ids' : Len(ids'[k]) = 3 => ids'[k][2] = k - 1
      <4>1. ASSUME NEW k \in 1..(m + 1), Len(ids'[k]) = 3 PROVE ids'[k][2] = k - 1
        <5>1. CASE k \in 1..m
          <6>1. ids'[k] = ids[k] /\ k \in DOMAIN ids
            BY <1>1, <3>2, <5>1
          <6> QED
            BY <2>2, <4>1, <6>1 DEF NamesDiffer
        <5>2. CASE k = m + 1
          <6>1. ids'[k] = name
            BY <3>2, <5>2
          <6>2. name[2] = m
            BY <3>3, <4>1, <6>1
          <6> QED
            BY <1>1, <5>2, <6>1, <6>2
        <5> QED
          BY <3>5, <5>1, <5>2
      <4> QED
        BY <3>2, <4>1
    <3> QED
      BY <3>6, <3>7 DEF NamesDiffer
  <2> QED
    BY <2>3, <2>4
<1> QED
  BY <1>3, <1>9, <1>10, <1>11 DEF ProjectionIInv

\* There are finitely many groups, no more than records.
LEMMA GroupsAreFinite ==
  ASSUME ProjectionIInv
  PROVE  /\ Len(records) \in Nat /\ DOMAIN records = 1..Len(records)
         /\ IsFiniteSet(Firsts) /\ Cardinality(Firsts) \in 0..Len(records)
<1>1. Len(records) \in Nat /\ DOMAIN records = 1..Len(records)
  BY DEF ProjectionIInv
<1>2. PICK n \in Nat : n = Len(records)
  BY <1>1
<1>3. Firsts \in SUBSET (1..n)
  BY <1>1, <1>2 DEF Firsts
<1>4. IsFiniteSet(1..n) /\ Cardinality(1..n) = n
  <2>1. IsFiniteSet(1..n) /\ Cardinality(1..n) = IF 1 > n THEN 0 ELSE n - 1 + 1
    BY 1 \in Int, n \in Int, FS_Interval
  <2> QED
    BY <2>1
<1>5. IsFiniteSet(Firsts) /\ Cardinality(Firsts) <= n
  BY <1>3, <1>4, FS_Subset
<1>6. Cardinality(Firsts) \in Nat
  BY <1>5, FS_CardinalityType
<1> QED
  BY <1>1, <1>2, <1>5, <1>6

\* Groups have places by their first records and places on the card.
LEMMA PlacesOfGroups ==
  ASSUME ProjectionIInv
  PROVE  /\ Len(records) \in Nat /\ Cardinality(Firsts) \in 0..Len(records) /\ Shown \in Nat
         /\ Shown <= Cardinality(Firsts) /\ Shown <= MaxItems
         /\ \A i \in Firsts : i \in DOMAIN records /\ Index(i) + 1 \in DOMAIN ids
         /\ \A i, j \in Firsts : Index(i) = Index(j) => i = j
         /\ \A k \in 1..Shown : Sorted(k) \in Firsts /\ RankIn(Firsts, Sooner, Sorted(k)) = k - 1
<1>1. Len(records) \in Nat /\ DOMAIN records = 1..Len(records)
  BY GroupsAreFinite
<1>2. IsFiniteSet(Firsts) /\ Cardinality(Firsts) \in 0..Len(records)
  BY GroupsAreFinite
<1>3. Shown \in Nat /\ Shown <= Cardinality(Firsts) /\ Shown <= MaxItems
  BY <1>1, <1>2, ProjectionAssumption DEF Shown
<1>4. OrdersStrictly(Sooner, Firsts) /\ OrdersStrictly(Earlier, Firsts)
  BY <1>1, GroupsAreOrdered
<1>5. \A i \in Firsts : Index(i) = RankIn(Firsts, Earlier, i)
  <2>1. ASSUME NEW i \in Firsts PROVE {j \in Firsts : <<j, i>> \in Earlier} = {j \in Firsts : j < i}
    BY DEF Earlier
  <2> QED
    BY <2>1 DEF Index, RankIn
<1>6. /\ \A i \in Firsts : Index(i) \in 0..(Cardinality(Firsts) - 1)
      /\ \A i, j \in Firsts : Index(i) = Index(j) => i = j
  <2>1. /\ \A i \in Firsts : RankIn(Firsts, Earlier, i) \in 0..(Cardinality(Firsts) - 1)
        /\ \A i, j \in Firsts : RankIn(Firsts, Earlier, i) = RankIn(Firsts, Earlier, j) => i = j
    BY <1>2, <1>4, RanksAreDense
  <2> QED
    BY <1>5, <2>1
<1>7. \A i \in Firsts : i \in DOMAIN records /\ Index(i) + 1 \in DOMAIN ids
  <2>1. DOMAIN ids = 1..Cardinality(Firsts)
    BY DEF ProjectionIInv
  <2>2. \A i \in Firsts : i \in DOMAIN records
    BY DEF Firsts
  <2> QED
    BY <1>2, <1>6, <2>1, <2>2
<1>8. ASSUME NEW k \in 1..Shown
      PROVE  Sorted(k) \in Firsts /\ RankIn(Firsts, Sooner, Sorted(k)) = k - 1
  <2>1. k - 1 \in 0..(Cardinality(Firsts) - 1)
    BY <1>2, <1>3
  <2>2. \E i \in Firsts : RankIn(Firsts, Sooner, i) = k - 1
    BY <1>2, <1>4, <2>1, RanksAreDense
  <2>3. ASSUME NEW i \in Firsts
        PROVE  RankIn(Firsts, Sooner, i) = Cardinality({j \in Firsts : Before(j, i)})
    <3>1. {j \in Firsts : <<j, i>> \in Sooner} = {j \in Firsts : Before(j, i)}
      BY DEF Sooner
    <3> QED
      BY <3>1 DEF RankIn
  <2>4. \E i \in Firsts : Cardinality({j \in Firsts : Before(j, i)}) = k - 1
    BY <2>2, <2>3
  <2>5. Sorted(k) \in Firsts /\ Cardinality({j \in Firsts : Before(j, Sorted(k))}) = k - 1
    BY <2>4 DEF Sorted
  <2> QED
    BY <2>3, <2>5
<1> QED
  BY <1>1, <1>2, <1>3, <1>6, <1>7, <1>8

\* The items that are shown, one by one.
LEMMA ItemsAre ==
  ASSUME ProjectionIInv
  PROVE  /\ DOMAIN ProjectQueue.items = 1..Shown /\ Len(ProjectQueue.items) = Shown
         /\ \A k \in 1..Shown : /\ ProjectQueue.items[k].id = ids[Index(Sorted(k)) + 1]
                                /\ ProjectQueue.items[k].status = GroupStatus(Sorted(k))
<1> DEFINE items == [k \in 1..Shown |-> Item(Sorted(k))]
<1>1. ProjectQueue.items = items
  BY DEF ProjectQueue
<1>2. Shown \in Nat
  BY PlacesOfGroups
<1>3. DOMAIN items = 1..Shown /\ \A k \in 1..Shown : items[k] = Item(Sorted(k))
  OBVIOUS
<1> HIDE DEF items
<1>4. items \in [1..Shown -> {items[k] : k \in 1..Shown}]
  <2>1. items = [k \in 1..Shown |-> items[k]]
    BY DEF items
  <2> QED
    BY <2>1
<1>5. items \in Seq({items[k] : k \in 1..Shown})
  BY <1>2, <1>4
<1>6. Len(items) = Shown
  BY <1>2, <1>3, <1>5
<1> QED
  BY <1>1, <1>3, <1>6 DEF Item

\* The proxy accepts the card.
LEMMA QueueIsServiceQueue ==
  ASSUME ProjectionIInv, NoneLooksAlike
  PROVE  IsServiceQueue(ProjectQueue)
<1> DEFINE items == ProjectQueue.items
           names == {items[k].id : k \in DOMAIN items}
<1>1. DOMAIN items = 1..Shown /\ Len(items) = Shown /\ Shown \in Nat
  BY ItemsAre, PlacesOfGroups
<1>2. ASSUME NEW k \in 1..Shown, NEW l \in 1..Shown, items[k].id = items[l].id
      PROVE  k = l
  <2>1. ids[Index(Sorted(k)) + 1] = ids[Index(Sorted(l)) + 1]
    BY <1>2, ItemsAre
  <2>2. Sorted(k) \in Firsts /\ Sorted(l) \in Firsts
    BY PlacesOfGroups
  <2>3. Index(Sorted(k)) + 1 \in DOMAIN ids /\ Index(Sorted(l)) + 1 \in DOMAIN ids
    BY <2>2, PlacesOfGroups
  <2>4. Index(Sorted(k)) + 1 = Index(Sorted(l)) + 1
    BY <2>1, <2>3 DEF ProjectionIInv, NamesDiffer
  <2>5. Index(Sorted(k)) = Index(Sorted(l))
    <3>1. DOMAIN ids \subseteq Int
      BY DEF ProjectionIInv
    <3>2. \A i \in Firsts : Index(i) \in Nat
      <4>1. \A i \in Firsts : {j \in Firsts : j < i} \in SUBSET Firsts
        OBVIOUS
      <4>2. IsFiniteSet(Firsts)
        BY GroupsAreFinite
      <4> QED
        BY <4>1, <4>2, FS_Subset, FS_CardinalityType DEF Index
    <3> QED
      BY <2>2, <2>4, <3>2
  <2>6. Sorted(k) = Sorted(l)
    BY <2>2, <2>5, PlacesOfGroups
  <2>7. k - 1 = l - 1
    BY <2>6, PlacesOfGroups
  <2> QED
    BY <1>1, <2>7
<1>3. Cardinality(names) = Shown
  <2> DEFINE f == [k \in 1..Shown |-> items[k].id]
  <2>1. f \in Surjection(1..Shown, names)
    BY <1>1 DEF Surjection
  <2>2. f \in Injection(1..Shown, names)
    BY <1>1, <1>2 DEF Injection, IsInjective
  <2>3. IsFiniteSet(1..Shown) /\ Cardinality(1..Shown) = Shown
    BY <1>1, FS_Interval
  <2> HIDE DEF f, names, items
  <2> QED
    BY <2>1, <2>2, <2>3, FS_Surjection
<1>4. ProjectQueue.total >= Shown /\ Shown <= MaxItems
  <2>1. ProjectQueue.total = Cardinality(Firsts)
          + IF totalRecords > Len(records) THEN totalRecords - Len(records) ELSE 0
    BY DEF ProjectQueue
  <2>2. Len(records) \in Nat /\ totalRecords \in Nat
    BY ProjectionAssumption, PlacesOfGroups DEF ProjectionIInv
  <2>3. Cardinality(Firsts) \in Nat /\ Shown <= Cardinality(Firsts) /\ Shown <= MaxItems
    BY PlacesOfGroups
  <2> QED
    BY <1>1, <2>1, <2>2, <2>3
<1> QED
  BY <1>1, <1>3, <1>4 DEF IsServiceQueue

\* The troubled groups, as the card tells them.
Troubled == {i \in Firsts : GroupStatus(i) \in {"failed", "warning"}}

\* They are shown before the others, as many as there is room for.
LEMMA TroubleIsShown ==
  ASSUME ProjectionIInv
  PROVE  Cardinality({k \in 1..Shown : Sorted(k) \in Troubled}) =
            IF Cardinality(Troubled) < MaxItems THEN Cardinality(Troubled) ELSE MaxItems
<1>1. IsFiniteSet(Firsts) /\ Cardinality(Firsts) \in Nat /\ DOMAIN records \subseteq Nat
  BY GroupsAreFinite
<1>2. Troubled \in SUBSET Firsts
  BY DEF Troubled
<1>3. ASSUME NEW i \in Troubled, NEW j \in Firsts, <<j, i>> \in Sooner PROVE j \in Troubled
  <2>1. Before(j, i)
    BY <1>3 DEF Sooner
  <2>2. ProblemRank(GroupStatus(j)) <= ProblemRank(GroupStatus(i))
    BY <2>1 DEF Before, ProblemRank
  <2>3. ProblemRank(GroupStatus(i)) <= 1
    BY DEF Troubled, ProblemRank
  <2> QED
    BY <2>2, <2>3 DEF Troubled, ProblemRank
<1>4. OrdersStrictly(Sooner, Firsts)
  BY <1>1, GroupsAreOrdered
<1> DEFINE n == Cardinality(Troubled)
<1>5. n \in Nat /\ \A i \in Firsts : RankIn(Firsts, Sooner, i) < n <=> i \in Troubled
  BY <1>1, <1>2, <1>3, <1>4, RanksOfLower
<1>6. n <= Cardinality(Firsts)
  BY <1>1, <1>2, FS_Subset
<1> HIDE DEF n
<1>7. \A k \in 1..Shown : Sorted(k) \in Troubled <=> k - 1 < n
  BY <1>5, PlacesOfGroups
<1> DEFINE m == IF n < MaxItems THEN n ELSE MaxItems
<1>8. Shown = IF Cardinality(Firsts) < MaxItems THEN Cardinality(Firsts) ELSE MaxItems
  BY DEF Shown
<1>9. {k \in 1..Shown : k - 1 < n} = 1..m /\ m \in Nat
  BY <1>1, <1>5, <1>6, <1>8, ProjectionAssumption
<1>10. {k \in 1..Shown : Sorted(k) \in Troubled} = 1..m
  BY <1>7, <1>9
<1>11. Cardinality(1..m) = m
  BY <1>9, FS_Interval
<1> QED
  BY <1>10, <1>11 DEF n

\* All that is said of the card.
LEMMA ProjectionIInvSuffices == ProjectionIInv => QueueIsHonest
<1> SUFFICES ASSUME ProjectionIInv PROVE QueueIsHonest
  OBVIOUS
<1> DEFINE items == ProjectQueue.items
           troubled == {i \in Firsts : \E j \in Members(i) :
                           Failing(records[j].state) \/ Warning(records[j].state)}
           shown == {k \in DOMAIN items : items[k].status \in {"failed", "warning"}}
<1>1. IsServiceQueue(ProjectQueue) \/ \E j \in DOMAIN records : Len(records[j].downloadId) = 3
  BY QueueIsServiceQueue DEF NoneLooksAlike
<1>2. troubled = Troubled
  BY StatusOfGroup DEF Troubled, Firsts
<1>3. shown = {k \in 1..Shown : Sorted(k) \in Troubled}
  BY ItemsAre, PlacesOfGroups DEF Troubled
<1>4. Cardinality(shown) = IF Cardinality(troubled) < MaxItems THEN Cardinality(troubled) ELSE MaxItems
  BY <1>2, <1>3, TroubleIsShown
<1>5. ProjectQueue.total <= totalRecords
  <2>1. ProjectQueue.total = Cardinality(Firsts)
          + IF totalRecords > Len(records) THEN totalRecords - Len(records) ELSE 0
    BY DEF ProjectQueue
  <2>2. /\ Len(records) \in Nat /\ totalRecords = Len(records) + More /\ More \in Nat
        /\ Cardinality(Firsts) \in 0..Len(records)
    BY ProjectionAssumption, PlacesOfGroups DEF ProjectionIInv
  <2> QED
    BY <2>1, <2>2
<1> QED
  BY <1>1, <1>4, <1>5 DEF QueueIsHonest

(* However records are named and grouped, the card is one that the proxy   *)
(* accepts, and trouble is never cut off for what is not.                  *)
THEOREM QueueHonest == ProjectionSpec => []QueueIsHonest
<1>1. ProjectionIInv /\ [ProjectionNext]_projectionVars => ProjectionIInv'
  <2>1. ASSUME ProjectionIInv, UNCHANGED projectionVars PROVE ProjectionIInv'
    BY <2>1 DEF projectionVars, ProjectionIInv, NoneLooksAlike, NamesDiffer, Firsts, IsFirst, SameDownload
  <2> QED
    BY <2>1, ReadRecordInv DEF ProjectionNext
<1> QED
  BY <1>1, ProjectionInitInv, ProjectionIInvSuffices, PTL DEF ProjectionSpec

-----------------------------------------------------------------------------
(* The Dashboard *)

\* Each behaviour is a behaviour of each part.
LEMMA DashboardParts ==
  /\ DashboardInit => Init /\ HistoryInit /\ FeedInit /\ ProjectionInit
  /\ [DashboardNext]_<<part, vars, historyVars, feedVars, projectionVars>> =>
        /\ [Next]_vars /\ [HistoryNext]_historyVars
        /\ [FeedNext]_feedVars /\ [ProjectionNext]_projectionVars
<1>1. DashboardInit => Init /\ HistoryInit /\ FeedInit /\ ProjectionInit
  BY DEF DashboardInit
<1>2. ASSUME DashboardNext \/ UNCHANGED <<part, vars, historyVars, feedVars, projectionVars>>
      PROVE  /\ [Next]_vars /\ [HistoryNext]_historyVars
             /\ [FeedNext]_feedVars /\ [ProjectionNext]_projectionVars
  <2>1. CASE UNCHANGED <<part, vars, historyVars, feedVars, projectionVars>>
    BY <2>1
  <2>2. CASE Only("metrics") /\ Next
    BY <2>2 DEF Only
  <2>3. CASE Only("history") /\ HistoryNext
    BY <2>3 DEF Only
  <2>4. CASE Only("downloads") /\ FeedNext
    BY <2>4 DEF Only
  <2>5. CASE Only("projection") /\ ProjectionNext
    BY <2>5 DEF Only
  <2> QED
    BY <1>2, <2>1, <2>2, <2>3, <2>4, <2>5 DEF DashboardNext
<1> QED
  BY <1>1, <1>2

\* A behaviour of the Dashboard has the properties of each part.
LEMMA DashboardSpecs == DashboardSpec => Spec /\ HistorySpec /\ FeedSpec /\ ProjectionSpec
  BY DashboardParts, PTL DEF DashboardSpec, Spec, HistorySpec, FeedSpec, ProjectionSpec

(* Readings, history and downloads: the three invariants together.         *)
THEOREM DashboardCorrect == DashboardSpec => []DashboardInv
<1>1. MetricsInv /\ HistoryInv /\ FeedInv => DashboardInv
  BY DEF DashboardInv
<1> QED
  BY <1>1, DashboardSpecs, MetricsCorrect, HistoryCorrect, FeedCorrect, PTL

(* What the Dashboard shows of the host is current, covers time and comes  *)
(* back with the page; its cards pass the proxy and hide no trouble, and   *)
(* its polling spares the services.                                        *)
THEOREM DashboardIsHonest ==
  DashboardSpec => /\ [](CurrentReadingsAreLatest /\ CpuReadingsCoverTime /\ ResumingRefreshes)
                   /\ []QueueIsHonest
                   /\ UpstreamIsSpared
  BY DashboardSpecs, ReadingsAreLatest, CpuReadingsCover, ShowingRefreshes, QueueHonest,
     FeedSparesUpstream, PTL
=============================================================================
