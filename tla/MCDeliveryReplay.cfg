SPECIFICATION Spec
CONSTANTS
    Flushers = {"processor", "transition"}
    Sender = "processor"
    Canon <- LargeCanon
    Frags <- LargeFrags
    Extra <- LargeExtra
    N = 3
    Base = 2
    GapLimit = 3
    BatchLimit = 2
    MaxBuffer = 7
    Faults = {"crash"}
    InitSpawned = FALSE
    MaxRestarts = 1
INVARIANTS
    GeiDeterministic
CHECK_DEADLOCK FALSE
