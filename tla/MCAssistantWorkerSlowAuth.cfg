CONSTANTS
    NoConversation = NoConversation
    NoRequest = NoRequest
    Conversation = {c1}
    Request = {r1, r2}
    Provider = {p1}
    MaxTurns = 2
    MaxFaults = 0
    SlowAuth = TRUE
SPECIFICATION WorkerSpec
INVARIANTS
    OneWriter
