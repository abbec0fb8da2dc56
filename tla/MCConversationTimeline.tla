----------------------- MODULE MCConversationTimeline -----------------------
(* Small instances of ConversationTimeline for TLC.                        *)
EXTENDS ConversationTimeline
=============================================================================
