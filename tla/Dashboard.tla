----------------------------- MODULE Dashboard -----------------------------
(***************************************************************************)
(* The Dashboard: its readings, the history of one of them, its download   *)
(* card and the projection of a queue.  The parts share no state, so that  *)
(* interleaving them shows nothing: each behaviour is one part's, and part *)
(* says whose.                                                             *)
(***************************************************************************)
EXTENDS MetricsFeed, CpuHistory, DownloadFeed, DownloadProjection

VARIABLE part

Only(p) ==
    /\ part = p
    /\ part' = p
    /\ p # "metrics" => UNCHANGED vars
    /\ p # "history" => UNCHANGED historyVars
    /\ p # "downloads" => UNCHANGED feedVars
    /\ p # "projection" => UNCHANGED projectionVars

DashboardInit ==
    /\ part \in {"metrics", "history", "downloads", "projection"}
    /\ Init
    /\ HistoryInit /\ (part # "history" => offset = 0)
    /\ FeedInit /\ (part # "downloads" => up = {})
    /\ ProjectionInit /\ (part # "projection" => service = "radarr")

DashboardNext ==
    \/ Only("metrics") /\ Next
    \/ Only("history") /\ HistoryNext
    \/ Only("downloads") /\ FeedNext
    \/ Only("projection") /\ ProjectionNext

DashboardSpec ==
    /\ DashboardInit
    /\ [][DashboardNext]_<<part, vars, historyVars, feedVars, projectionVars>>

FairDashboardSpec ==
    /\ DashboardSpec
    /\ \A c \in Collection : WF_vars((ReadSources(c) \/ Collect(c)) /\ Only("metrics"))
    /\ \A p \in Page :
          WF_vars(TimesOut(p) /\ Only("metrics")) /\ SF_vars(Unwinds(p) /\ Only("metrics"))
    /\ WF_feedVars(TimePasses /\ Only("downloads"))
    /\ WF_feedVars(CollectionProceeds /\ Only("downloads"))
    /\ \A d \in Card : WF_feedVars(CardProceeds(d) /\ Only("downloads"))

(* The invariants of the three parts that are systems: see MetricsFeed,    *)
(* CpuHistory and DownloadFeed.                                            *)
DashboardInv == MetricsInv /\ HistoryInv /\ FeedInv
=============================================================================
