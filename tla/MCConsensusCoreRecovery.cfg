SPECIFICATION Spec
CONSTANTS
    Authorities <- mc_five
    Honest <- mc_honest
    Stake <- mc_small
    BaseLeader <- mc_follower_leader
    GoodNode <- mc_good
    ScoreOrder <- mc_order5
    Timestamp <- mc_timestamp
    Universes <- mc_universes
    Patterns <- mc_recovery
    Absent <- mc_absent
    Rounds = 6
    GcDepth = 1
    CommitsPerSchedule = 2
    SwapThreshold = 30
    OwnIndex = 4
    CachedRounds = 1
    MaxBatch = 1
    MaxCrashes = 1
INVARIANTS TypeOK Agreement NoPanic DeliveredIsDurable
CHECK_DEADLOCK FALSE
