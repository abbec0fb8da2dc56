-------------------------- MODULE MCAssistantWorker --------------------------
(***************************************************************************)
(* AssistantWorker on small instances.                                     *)
(***************************************************************************)
EXTENDS AssistantWorker, TLC

WorkerSymmetry == Permutations(Conversation) \cup Permutations(Request)
=============================================================================
