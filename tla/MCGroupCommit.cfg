SPECIFICATION GroupFairSpec
CONSTANTS
    t1 = t1
    t2 = t2
    t3 = t3
    Nobody = Nobody
    Thread = {t1, t2, t3}
INVARIANTS
    GroupTypeOK
    OkIsDurable
    OneLeader
    SleepersHaveLeader
PROPERTIES
    EveryFsyncCounts
    EveryRequestAnswered
CHECK_DEADLOCK FALSE
