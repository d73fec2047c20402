SPECIFICATION BackSpec
CONSTANTS
    Tomls <- MCTomls
    Docs <- MCDocs
    OwnKeys <- MCOwnKeys
    Skipped = {"nan", "list"}
    Bare = {"list"}
    BlockKeys <- MCBlockKeys
    Errors <- MCErrors
    Msgs = {"m"}
    Objects = {"o"}
    NoKey = NoKey
    MaxWrites = 3
    MaxRuns = 2
INVARIANTS
    VerifiedBeforeRun
    KeyStoredOnce
    LossIsBounded
PROPERTIES
    MessagesStayPut
\* A start-up that a check refuses is the end of it.
CHECK_DEADLOCK FALSE
