SPECIFICATION Spec
CONSTANTS
    Flushers = {"processor", "transition"}
    Sender = "processor"
    Canon <- PlainCanon
    Frags <- PlainFrags
    Extra <- PlainExtra
    N = 4
    Base = 2
    GapLimit = 3
    BatchLimit = 2
    MaxBuffer = 7
    Faults = {}
    InitSpawned = FALSE
    MaxRestarts = 0
INVARIANTS
    SwitchAfterAllExecuted
CHECK_DEADLOCK FALSE
