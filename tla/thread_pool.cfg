SPECIFICATION PoolFairSpec
CONSTANTS
    Workers = {w1, w2, w3}
    Callers = {c1}
    Tasks = {t1, t2, t3, t4}
CHECK_DEADLOCK FALSE
INVARIANTS
    NoLostWakeup
    StartedInOrder
    DrainedWhenGone
PROPERTIES
    EveryTaskStarts
    DestructorReturns
