CONSTANTS
    NoConversation = NoConversation
    NoRequest = NoRequest
    Conversation = {c1, c2}
    Request = {r1}
    Provider = {p1}
    MaxTurns = 1
    MaxFaults = 1
    SlowAuth = FALSE
SPECIFICATION FairWorkerSpec
PROPERTIES
    EveryTurnEnds
    EveryTaskEnds
