----------------------------- MODULE CpuHistory -----------------------------
(***************************************************************************)
(* components/cpu-history.tsx (useCpuHistory, chartSegments): the readings *)
(* of the CPU that a page has seen, as a line that is broken where         *)
(* observations are missing.                                               *)
(*                                                                         *)
(* A reading is timed by the Server and kept or discarded by the page's    *)
(* clock; offset is how far the former is ahead.  Requests follow upon one *)
(* another, so that each reading is later than the last.  Samples are      *)
(* sorted by time, no two have the same: here they are a set.  Their       *)
(* percentages are left out.                                               *)
(***************************************************************************)
EXTENDS Integers, FiniteSets

CONSTANTS
    Offsets,               \* by how much the Server's clock may be ahead
    HistoryWindow,         \* HISTORY_WINDOW_MS
    MaxSamples,            \* MAX_SAMPLES
    MaxContinuousGap,      \* MAX_CONTINUOUS_GAP_MS
    MaxTicks               \* bound: times of the page's clock told apart

ASSUME HistoryAssumption ==
    /\ Offsets \subseteq Int
    /\ {HistoryWindow, MaxSamples, MaxContinuousGap, MaxTicks} \subseteq Nat \ {0}

VARIABLES
    offset,
    clock,                 \* Date.now() of the page
    reading,               \* its at is the time of the latest measurement, shown or dropped
    windowEnd,             \* useCpuHistory's now
    stored,                \* storedSamples
    shouldBreakPath,
    missed,                \* history: no reading since the latest sample, or a hidden page
    resumed                \* history: the samples before which something was missed

historyVars == <<offset, clock, reading, windowEnd, stored, shouldBreakPath, missed, resumed>>

Sample == [at : Int, breakBefore : BOOLEAN]

HistoryTypeOK ==
    /\ offset \in Offsets
    /\ {clock, windowEnd} \subseteq 0..MaxTicks
    /\ reading \in [status : {"loading", "available", "stale", "unavailable"}, at : Int]
    /\ stored \subseteq Sample
    /\ IsFiniteSet(stored)
    /\ shouldBreakPath \in BOOLEAN
    /\ missed \in BOOLEAN
    /\ resumed \subseteq Int

HistoryInit ==
    /\ offset \in Offsets
    /\ clock = 0
    /\ reading = [status |-> "loading", at |-> offset - 1]
    /\ windowEnd = 0
    /\ stored = {}
    /\ shouldBreakPath = TRUE
    /\ missed = FALSE
    /\ resumed = {}

-----------------------------------------------------------------------------
\* trimSamples.
Trimmed(samples, now) == {s \in samples : now - HistoryWindow <= s.at /\ s.at <= now}

\* The latest MaxSamples.
Latest(samples) ==
    {s \in samples : Cardinality({t \in samples : t.at > s.at}) < MaxSamples}

(* The effect of a reading that is not as it was: the path is unbroken     *)
(* again even if what ends the gap is discarded.                           *)
ReadingChanges(next) ==
    LET current == next.status = "available"
        retained == Trimmed(stored, clock)
        accepted ==
            /\ current
            /\ clock - HistoryWindow <= next.at /\ next.at <= clock
            /\ \A s \in retained : s.at # next.at
    IN  /\ next # reading
        /\ reading' = next
        /\ windowEnd' = clock
        /\ shouldBreakPath' = ~current
        /\ stored' = IF accepted
                     THEN Latest(retained \cup {[at |-> next.at, breakBefore |-> shouldBreakPath]})
                     ELSE retained
        /\ missed' = (~accepted /\ (missed \/ ~current))
        /\ resumed' = IF accepted /\ missed THEN resumed \cup {next.at} ELSE resumed
        /\ UNCHANGED <<offset, clock>>

(* A request brings a measurement that the Server made after the last, or  *)
(* it brings none: the last one is stale.                                  *)
Observed == \E at \in (reading.at + 1)..(clock + offset) : ReadingChanges([status |-> "available", at |-> at])

NotObserved ==
    ReadingChanges([reading EXCEPT
        !.status = IF @ \in {"available", "stale"} THEN "stale" ELSE "unavailable"])

ClockAdvances ==
    /\ clock < MaxTicks
    /\ clock' = clock + 1
    /\ UNCHANGED <<offset, reading, windowEnd, stored, shouldBreakPath, missed, resumed>>

\* setInterval.
WindowMoves ==
    /\ windowEnd' = clock
    /\ UNCHANGED <<offset, clock, reading, stored, shouldBreakPath, missed, resumed>>

\* visibility.
VisibilityChanges ==
    /\ shouldBreakPath' = TRUE
    /\ windowEnd' = clock
    /\ missed' = TRUE
    /\ UNCHANGED <<offset, clock, reading, stored, resumed>>

\* The provider is mounted anew.
HistoryRestarts ==
    /\ reading' = [reading EXCEPT !.status = "loading"]
    /\ windowEnd' = clock
    /\ stored' = {}
    /\ shouldBreakPath' = TRUE
    /\ missed' = FALSE
    /\ UNCHANGED <<offset, clock, resumed>>

HistoryNext ==
    \/ Observed \/ NotObserved
    \/ ClockAdvances \/ WindowMoves \/ VisibilityChanges \/ HistoryRestarts

HistorySpec == HistoryInit /\ [][HistoryNext]_historyVars

-----------------------------------------------------------------------------
(* Properties.                                                             *)

\* What the chart is drawn from, and the lines of chartSegments.
Samples == Trimmed(stored, windowEnd)

Joined(s, t) ==
    /\ s.at < t.at
    /\ \A u \in Samples : u.at <= s.at \/ t.at <= u.at
    /\ ~t.breakBefore
    /\ t.at - s.at <= MaxContinuousGap

(* "Gaps mark missing observations": no line joins two samples if between  *)
(* them a reading failed or the page was hidden, whatever was discarded    *)
(* for its age meanwhile.  This needs a Server whose clock is not ahead: a *)
(* reading discarded because it is later than now takes the break with it. *)
GapsAreDrawn ==
    offset <= 0 => \A s, t \in Samples : Joined(s, t) => t.at \notin resumed

(* Samples differ in time, as many as may be at most, and the window is    *)
(* never so late that it hides one which is not too old.                   *)
HistoryInv ==
    /\ HistoryTypeOK
    /\ \A s, t \in stored : s.at = t.at => s = t
    /\ \A s \in stored : s.at <= windowEnd
    /\ Cardinality(stored) <= MaxSamples
    /\ GapsAreDrawn
=============================================================================
