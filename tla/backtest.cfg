SPECIFICATION LoopSpec
CONSTANTS
    s1 = s1
    s2 = s2
    BarInterval = 2
    ReaderTicks <- MC_Ticks
    MaxTicks = 4
CHECK_DEADLOCK FALSE
INVARIANTS
    BarsFaithful
    BarsComplete
