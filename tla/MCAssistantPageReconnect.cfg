SPECIFICATION ReturningSpec
CONSTANTS
  Conversations = {c1}
  c1 = c1
  c2 = c2
  None = None
  MaxVersion = 1
  MaxRequests = 2
  MaxEvents = 2
PROPERTIES Reconnects
CHECK_DEADLOCK FALSE
