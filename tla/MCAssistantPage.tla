--------------------------- MODULE MCAssistantPage ---------------------------
EXTENDS AssistantPage

CONSTANTS c1, c2
=============================================================================
