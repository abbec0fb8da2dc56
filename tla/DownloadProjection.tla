------------------------- MODULE DownloadProjection -------------------------
(***************************************************************************)
(* worker/src/downloads.ts (downloadStatus, itemFor, projectQueue) and     *)
(* lib/downloads.ts (isServiceQueue): one service's records, as read page  *)
(* by page from its queue, become the items of the card.  Titles, sizes    *)
(* and the text of a problem are left out; names are in lower case.        *)
(*                                                                         *)
(* Sonarr has a record per episode, and a season pack shares one download. *)
(***************************************************************************)
EXTENDS Naturals, Sequences, FiniteSets

CONSTANTS
    Name,                  \* bound: numbers that name records, and perhaps downloads
    Lookalike,             \* bound: names of downloads that read like item-<n> or item-<n>-<m>
    State,                 \* bound: the combinations of the three fields that tell the state
    MaxItems,              \* MAX_ITEMS
    MaxQueued,             \* bound: records read
    More                   \* bound: the records beyond those that are read

ASSUME ProjectionAssumption ==
    /\ Name \subseteq Nat \ {0}
    /\ \A name \in Lookalike : name \in Seq(Nat) /\ Len(name) \in {2, 3} /\ name[1] = 0
    /\ {MaxItems, MaxQueued, More} \subseteq Nat

VARIABLES
    service,
    records,
    ids,                   \* the names of the groups, in the order of their first records
    totalRecords

projectionVars == <<service, records, ids, totalRecords>>

(* Names of items and downloads without the service before them: a number  *)
(* or text, item-<n>, item-<n>-<m>, a name that does not match             *)
(* SAFE_DOWNLOAD_ID, none at all.                                          *)
Numbered == {<<n>> : n \in Name}
ItemName(n) == <<0, n>>
LastResort(n, m) == <<0, n, m>>
Unsafe == <<0>>
Missing == <<>>

\* timed: has the record an estimated completion that can be read?  The
\* times themselves are taken to be equal.
Record == [downloadId : Numbered \cup Lookalike \cup {Unsafe, Missing}, id : Numbered \cup {Missing},
           state : State, timed : BOOLEAN]

-----------------------------------------------------------------------------
(* Status.                                                                 *)

Failing(r) == r.trackedState \in {"failed", "failedpending"} \/ r.status = "failed"

Warning(r) ==
    \/ r.trackedStatus \in {"warning", "error"}
    \/ r.trackedState = "importblocked"
    \/ r.status \in {"warning", "downloadclientunavailable"}

\* "Status precedence": the state of the download client comes last.
DownloadStatus(r) ==
    IF Failing(r) THEN "failed"
    ELSE IF Warning(r) THEN "warning"
    ELSE IF r.trackedState \in {"importpending", "importing"} THEN "importing"
    ELSE IF r.status = "delay" THEN "delayed"
    ELSE IF r.status \in {"downloading", "queued", "paused", "completed"} THEN r.status
    ELSE IF r.trackedState = "imported" THEN "completed"
    ELSE "queued"

StatusSeverity ==
    <<"failed", "warning", "importing", "downloading", "paused", "delayed", "queued", "completed">>

Severity(status) == CHOOSE i \in DOMAIN StatusSeverity : StatusSeverity[i] = status

-----------------------------------------------------------------------------
(* Groups, in the order of their first records.                            *)

SameDownload(i, j) ==
    /\ service = "sonarr"
    /\ records[i].downloadId # Missing
    /\ records[i].downloadId = records[j].downloadId

IsFirst(i) == \A j \in 1..(i - 1) : ~SameDownload(i, j)

Firsts == {i \in DOMAIN records : IsFirst(i)}

\* The group whose first record is i, and its number.
Members(i) == {j \in DOMAIN records : j = i \/ SameDownload(i, j)}

Index(i) == Cardinality({j \in Firsts : j < i})

\* The most severe status of the group.
GroupStatus(i) ==
    LET severities == {Severity(DownloadStatus(records[j].state)) : j \in Members(i)}
    IN  StatusSeverity[CHOOSE k \in severities : \A l \in severities : k <= l]

\* estimatedCompletion: has any record one?
IsTimed(i) == \E j \in Members(i) : records[j].timed

ProblemRank(status) == IF status = "failed" THEN 0 ELSE IF status = "warning" THEN 1 ELSE 2

\* Faulty variant: what is done first comes first.
SoonerOnly(i, j) ==
    \/ IsTimed(i) /\ ~IsTimed(j)
    \/ IsTimed(i) = IsTimed(j) /\ i < j

\* The order of a stable sort: problems, then the estimated completion.
Before(i, j) ==
    LET rank(k) == ProblemRank(GroupStatus(k))
        later(k) == IF IsTimed(k) THEN 0 ELSE 1
    IN  \/ rank(i) < rank(j)
        \/ rank(i) = rank(j) /\ later(i) < later(j)
        \/ rank(i) = rank(j) /\ later(i) = later(j) /\ i < j

Item(i) == [id |-> ids[Index(i) + 1], status |-> GroupStatus(i), timed |-> IsTimed(i)]

Shown == IF Cardinality(Firsts) < MaxItems THEN Cardinality(Firsts) ELSE MaxItems

\* The group that is sorted to place k.
Sorted(k) == CHOOSE i \in Firsts : Cardinality({j \in Firsts : Before(j, i)}) = k - 1

\* projectQueue; what is beyond the page read cannot be grouped.
ProjectQueue ==
    [items |-> [k \in 1..Shown |-> Item(Sorted(k))],
     total |-> Cardinality(Firsts)
                 + IF totalRecords > Len(records) THEN totalRecords - Len(records) ELSE 0]

\* isServiceQueue, in the proxy: what it does not accept is discarded whole.
IsServiceQueue(queue) ==
    /\ Len(queue.items) <= MaxItems
    /\ Cardinality({queue.items[k].id : k \in DOMAIN queue.items}) = Len(queue.items)
    /\ queue.total >= Len(queue.items)

-----------------------------------------------------------------------------
(* A service's queue, record by record.                                    *)

ProjectionInit ==
    /\ service \in {"radarr", "sonarr"}
    /\ records = <<>>
    /\ ids = <<>>
    /\ totalRecords = More

Joins(r) ==
    /\ service = "sonarr"
    /\ r.downloadId # Missing
    /\ \E j \in DOMAIN records : records[j].downloadId = r.downloadId

Used == {ids[k] : k \in DOMAIN ids}

Candidates(r) == <<r.downloadId, r.id, ItemName(Len(ids))>>

\* Places of the candidates that can be used and are not used yet.
Free(r) == {k \in 1..3 : Candidates(r)[k] \notin Used \cup {Missing, Unsafe}}

\* The first of them, or a name that nobody looks up.
FreeName(r) ==
    IF Free(r) = {} THEN LastResort(Len(ids), Cardinality(Used))
    ELSE Candidates(r)[CHOOSE k \in Free(r) : \A l \in Free(r) : k <= l]

(* parseRecord, and the next round of the loop over the groups: the name   *)
(* of a group depends on its first record and on the groups before it.     *)
ReadRecord(r) ==
    /\ Len(records) < MaxQueued
    /\ records' = Append(records, r)
    /\ ids' = IF Joins(r) THEN ids ELSE Append(ids, FreeName(r))
    /\ totalRecords' = totalRecords + 1
    /\ UNCHANGED service

ProjectionNext == \E r \in Record : ReadRecord(r)

ProjectionSpec == ProjectionInit /\ [][ProjectionNext]_projectionVars

-----------------------------------------------------------------------------
(* Properties.                                                             *)

(* The worker's queue passes the proxy's check whatever names the services *)
(* use, unless a download's name is one of last resort, which the worker   *)
(* gives without a look at those it has given.  And the limit never hides  *)
(* trouble: a download of which some record has failed or needs attention  *)
(* is shown before all that have not.                                      *)
QueueIsHonest ==
    LET queue == ProjectQueue
        troubled == {i \in Firsts : \E j \in Members(i) :
                        Failing(records[j].state) \/ Warning(records[j].state)}
        shown == {k \in DOMAIN queue.items : queue.items[k].status \in {"failed", "warning"}}
    IN  /\ IsServiceQueue(queue) \/ \E j \in DOMAIN records : Len(records[j].downloadId) = 3
        /\ Cardinality(shown) = IF Cardinality(troubled) < MaxItems
                                THEN Cardinality(troubled) ELSE MaxItems
        /\ queue.total <= totalRecords
=============================================================================
