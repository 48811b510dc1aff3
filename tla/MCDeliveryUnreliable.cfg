SPECIFICATION Spec
CONSTANTS
    Flushers = {"processor"}
    Sender = "processor"
    Canon <- PlainCanon
    Frags <- PlainFrags
    Extra <- PlainExtra
    N = 4
    Base = 2
    GapLimit = 1
    BatchLimit = 2
    MaxBuffer = 7
    Faults = {"rpc", "peersync"}
    InitSpawned = TRUE
    MaxRestarts = 0
INVARIANTS
    BlocksKeepTheirGei
    NothingLost
CHECK_DEADLOCK FALSE
