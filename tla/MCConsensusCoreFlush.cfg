SPECIFICATION Spec
CONSTANTS
    Authorities <- mc_five
    Honest <- mc_honest
    Stake <- mc_small
    BaseLeader <- mc_slow_leader
    GoodNode <- mc_good
    ScoreOrder <- mc_order5
    Timestamp <- mc_timestamp
    Universes <- mc_universes
    Patterns <- mc_slow
    Absent = {}
    Rounds = 7
    GcDepth = 1
    CommitsPerSchedule = 4
    SwapThreshold = 30
    OwnIndex = 4
    CachedRounds = 1
    MaxBatch = 3
    MaxCrashes = 1
INVARIANTS NoPanic
CHECK_DEADLOCK FALSE
