---------------------------- MODULE MCDashboard ----------------------------
(* A small instance of Dashboard for TLC.                                  *)
EXTENDS Dashboard

QueueStates ==
    {[status |-> "downloading", trackedStatus |-> "ok", trackedState |-> "downloading"],
     [status |-> "completed", trackedStatus |-> "warning", trackedState |-> "importpending"],
     [status |-> "completed", trackedStatus |-> "ok", trackedState |-> "failedpending"]}

\* item-1
Lookalikes == {<<0, 1>>}

ServerOffsets == {-2, 0, 1}
=============================================================================
