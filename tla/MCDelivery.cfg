SPECIFICATION Spec
CONSTANTS
    Flushers = {"processor", "transition"}
    Sender = "processor"
    Canon <- SmallCanon
    Frags <- SmallFrags
    Extra <- SmallExtra
    N = 3
    Base = 2
    GapLimit = 3
    BatchLimit = 2
    MaxBuffer = 2
    Faults = {"write", "closed", "crash", "peersync", "reorder", "leader"}
    InitSpawned = FALSE
    MaxRestarts = 2
INVARIANTS
    TypeOK
    GeiDeterministic
    
    BlocksKeepTheirGei
    NothingLost
    
CHECK_DEADLOCK FALSE
