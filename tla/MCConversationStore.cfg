CONSTANTS
    NoConversation = NoConversation
    Conversation = {c1, c2}
    MaxTurns = 2
    MaxFaults = 2
SPECIFICATION FairStoreSpec
INVARIANTS
    StoreInv
    DeletedLeavesNoFile
    KeptConversationKeepsTranscript
PROPERTIES
    OutcomeIsFinal
    ImplementsLedger
    RestartFinishesDeletions
    RestartEndsRunningTurns
