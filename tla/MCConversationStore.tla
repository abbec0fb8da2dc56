------------------------- MODULE MCConversationStore -------------------------
(***************************************************************************)
(* ConversationStore on a small instance: two conversations, so that the   *)
(* recovery has several deletions to replay and a stuck one can sit beside *)
(* a conversation in use.  No symmetry: the run checks liveness.           *)
(***************************************************************************)
EXTENDS ConversationStore
=============================================================================
