SPECIFICATION Spec
CONSTANTS
    Authorities <- mc_four
    Honest <- mc_honest
    Stake <- mc_equal
    BaseLeader <- mc_leader
    GoodNode <- mc_good
    ScoreOrder <- mc_order4
    Timestamp <- mc_timestamp
    Universes <- mc_universes
    Patterns <- mc_patterns
    Absent = {}
    Rounds = 7
    GcDepth = 2
    CommitsPerSchedule = 2
    SwapThreshold = 30
    OwnIndex = 0
    CachedRounds = 1
    MaxBatch = 0
    MaxCrashes = 0
INVARIANTS TypeOK Agreement NoPanic
CHECK_DEADLOCK FALSE
