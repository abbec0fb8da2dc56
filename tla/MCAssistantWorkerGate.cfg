CONSTANTS
    NoConversation = NoConversation
    NoRequest = NoRequest
    Conversation = {c1, c2}
    Request = {r1, r2}
    Provider = {p1}
    MaxTurns = 1
    MaxFaults = 0
    SlowAuth = FALSE
SPECIFICATION WorkerSpec
PROPERTIES
    AuthenticationGateHolds
