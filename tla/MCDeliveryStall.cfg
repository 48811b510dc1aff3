SPECIFICATION FairSpec
CONSTANTS
    Flushers = {"processor"}
    Sender = "processor"
    Canon <- PlainCanon
    Frags <- PlainFrags
    Extra <- PlainExtra
    N = 4
    Base = 2
    GapLimit = 3
    BatchLimit = 2
    MaxBuffer = 7
    Faults = {"crash"}
    InitSpawned = FALSE
    MaxRestarts = 1
PROPERTIES
    EverythingExecuted
CHECK_DEADLOCK FALSE
