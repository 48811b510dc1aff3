SPECIFICATION Spec
CONSTANTS
    Flushers = {"processor", "transition"}
    Sender = "processor"
    Canon <- PlainCanon
    Frags <- PlainFrags
    Extra <- PlainExtra
    N = 4
    Base = 5
    GapLimit = 3
    BatchLimit = 2
    MaxBuffer = 7
    Faults = {"rpc"}
    InitSpawned = TRUE
    MaxRestarts = 0
INVARIANTS
    NoDeadlyEmbrace
CHECK_DEADLOCK FALSE
