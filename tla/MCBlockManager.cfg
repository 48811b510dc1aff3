CONSTANTS
    Blocks <- MCBlocks
    Round <- MCRound
    Author <- MCAuthor
    Ancestors <- MCAncestors
    OwnIndex <- MCOwnIndex
    GcDepth = 1
    MaxSuspended = 7
SPECIFICATION FairSpec
INVARIANTS
    TypeOK
    UnsuspendNeverPanics
    MissingBlocksExact
    NobodyWaitsForAccepted
    GcNeverMeetsSuspended
    CausallyComplete
PROPERTIES
    SuspendedEventuallyResolved
CHECK_DEADLOCK FALSE
