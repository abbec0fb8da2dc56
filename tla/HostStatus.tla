----------------------------- MODULE HostStatus -----------------------------
(***************************************************************************)
(* What the unprivileged Dashboard cannot read itself: a root helper       *)
(* (scripts/host/voidstation-host-status.py) asks the drives one by one,   *)
(* writes one file and renames it into place; the Dashboard reads that     *)
(* file (src/lib/linux-host-input.ts) and takes all of it or nothing       *)
(* (src/lib/host-metrics.ts).  The number of a drive's report stands for   *)
(* each of its numbers, and the drives for the updates and the reboot.     *)
(***************************************************************************)
EXTENDS Integers, Sequences, FiniteSets

CONSTANTS
    Drive,      \* the drives a scan can list
    MaxDrives,  \* MAX_DRIVES, and the reader's 32
    MaxFit,     \* the drives MAX_OUTPUT_BYTES leaves room for
    MaxValue,   \* the largest value of the number
    MaxAge,     \* HOST_STATUS_MAX_AGE_MS
    MaxFuture,  \* HOST_STATUS_MAX_FUTURE_MS
    MaxClock,
    Null

ASSUME StatusAssumption ==
    /\ MaxDrives \in Nat
    /\ MaxFit \in Nat
    /\ MaxValue \in Nat
    /\ MaxAge \in Nat
    /\ MaxFuture \in Nat
    /\ MaxClock \in Nat
    /\ Null \notin Int

(* What smartctl says of a drive: nothing it can be read from, that it     *)
(* cannot be opened, that it sleeps, or its report with or without the     *)
(* number, which may be out of range.                                      *)
Report ==
    [answer : {"none", "open failed", "standby"}, value : {Null}]
    \cup [answer : {"read"}, value : {Null} \cup (-1)..(MaxValue + 1)]

Mapped == [device : Drive, standby : BOOLEAN, value : {Null} \cup 0..MaxValue]

VARIABLES
    clock,      \* the wall clock
    scan,       \* the drives the running helper has listed, Null when it cannot scan
    drives,     \* those it has asked, as it will write them
    checked,    \* when it began, Null when it does not run
    file        \* status.json, Null before the first

statusVars == <<clock, scan, drives, checked, file>>

Scans == {s \in UNION {[1..n -> Drive] : n \in 0..MaxDrives} :
             \A i, j \in DOMAIN s : i # j => s[i] # s[j]}
File == [checkedAt : 0..MaxClock, drives : Seq(Mapped) \cup {Null}]

StatusTypeOK ==
    /\ clock \in 0..MaxClock
    /\ scan \in Scans \cup {Null}
    /\ drives \in Seq(Mapped)
    /\ checked \in 0..MaxClock \cup {Null}
    /\ file \in File \cup {Null}

StatusInit ==
    /\ clock = 0
    /\ scan = Null
    /\ drives = <<>>
    /\ checked = Null
    /\ file = Null

-----------------------------------------------------------------------------
(* count: a number out of range is left out, not passed on.                *)
Count(v) == IF v \in 0..MaxValue THEN v ELSE Null

(* map_drive: a drive that sleeps or cannot be read is listed all the same *)
MapDrive(d, report) ==
    [device |-> d,
     standby |-> report.answer = "standby",
     value |-> IF report.answer = "read" THEN Count(report.value) ELSE Null]

(* parse_scan lists a drive once, and at most MaxDrives of them.           *)
HelperBegins ==
    /\ checked = Null
    /\ checked' = clock
    /\ drives' = <<>>
    /\ scan' \in Scans \cup {Null}
    /\ UNCHANGED <<clock, file>>

AskDrive ==
    /\ checked # Null
    /\ scan # Null
    /\ Len(drives) < Len(scan)
    /\ \E report \in Report :
          drives' = Append(drives, MapDrive(scan[Len(drives) + 1], report))
    /\ UNCHANGED <<clock, scan, checked, file>>

(* encode, then write_atomically: what does not fit is left off the end.   *)
WriteStatus ==
    /\ checked # Null
    /\ scan # Null => Len(drives) = Len(scan)
    /\ file' = [checkedAt |-> checked,
                drives |-> IF scan = Null THEN Null
                           ELSE SubSeq(drives, 1, IF Len(drives) < MaxFit THEN Len(drives) ELSE MaxFit)]
    /\ checked' = Null
    /\ scan' = Null
    /\ drives' = <<>>
    /\ UNCHANGED clock

(* The unit's time limit or a power cut: the old file stays.               *)
HelperStops ==
    /\ checked # Null
    /\ checked' = Null
    /\ scan' = Null
    /\ drives' = <<>>
    /\ UNCHANGED <<clock, file>>

(* The wall clock advances, or is set.                                     *)
ClockMoves ==
    /\ clock' \in 0..MaxClock
    /\ UNCHANGED <<scan, drives, checked, file>>

StatusNext == HelperBegins \/ AskDrive \/ WriteStatus \/ HelperStops \/ ClockMoves

StatusSpec == StatusInit /\ [][StatusNext]_statusVars

-----------------------------------------------------------------------------
(* parseDrive, parseHostStatus: one field out of range rejects the file.   *)
AcceptsDrive(d) ==
    /\ d.value # Null => d.value \in 0..MaxValue
    /\ d.standby \in BOOLEAN

Accepts(f) ==
    /\ f # Null
    /\ f.drives # Null =>
          /\ Len(f.drives) <= MaxDrives
          /\ \A i \in DOMAIN f.drives : AcceptsDrive(f.drives[i])

(* measureHostStatus: what the Dashboard shows now, Null for unavailable.  *)
Shown ==
    IF /\ Accepts(file)
       /\ clock - file.checkedAt <= MaxAge
       /\ file.checkedAt - clock <= MaxFuture
    THEN file ELSE Null

(* Whatever the drives answer, the Dashboard accepts what the helper       *)
(* writes and hides it for its age alone: one drive that sleeps, fails or  *)
(* reports nonsense hides neither the other drives nor the other readings. *)
HelperIsUnderstood ==
    file # Null /\ Shown = Null => clock - file.checkedAt \notin (-MaxFuture)..MaxAge

(* What a run of the helper has begun to say is about the drives it has    *)
(* listed, in their order.                                                 *)
DrivesFollowScan ==
    IF scan = Null
    THEN drives = <<>>
    ELSE /\ Len(drives) <= Len(scan)
         /\ \A i \in DOMAIN drives : drives[i].device = scan[i]

StatusInv == StatusTypeOK /\ HelperIsUnderstood /\ DrivesFollowScan
=============================================================================
