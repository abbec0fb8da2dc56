CONSTANTS
    NoConversation = NoConversation
    NoRequest = NoRequest
    Conversation = {c1, c2}
    Request = {r1, r2}
    Provider = {p1}
    MaxTurns = 2
    MaxFaults = 1
    SlowAuth = FALSE
SPECIFICATION WorkerSpec
SYMMETRY WorkerSymmetry
INVARIANTS
    WorkerInv
    OneWriter
    RunningTurnsHaveTasks
    ActiveConversationsAreKept
PROPERTIES
    ImplementsStore
