SPECIFICATION FairSpec
CONSTANTS
    Flushers = {"processor"}
    Sender = "processor"
    Canon <- LargeCanon
    Frags <- LargeFrags
    Extra <- LargeExtra
    N = 3
    Base = 2
    GapLimit = 3
    BatchLimit = 2
    MaxBuffer = 7
    Faults = {"write", "reorder"}
    InitSpawned = FALSE
    MaxRestarts = 0
INVARIANTS
    GeiDeterministic
    NothingLost
PROPERTIES
    ExecutesInOrder
    EverythingExecuted
CHECK_DEADLOCK FALSE
