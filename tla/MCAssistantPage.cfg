SPECIFICATION FairSpec
CONSTANTS
  c1 = c1
  c2 = c2
  Conversations = {c1, c2}
  None = None
  MaxVersion = 2
  MaxRequests = 2
  MaxEvents = 2
INVARIANTS PageInv ShowsTheSelection MessagesStayInTheirConversation NothingTypedIsLost
PROPERTIES Converges
CHECK_DEADLOCK FALSE
