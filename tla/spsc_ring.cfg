SPECIFICATION FairSpec
CONSTANTS
    Values = {v1, v2}
    NoValue = NoValue
    Capacity = 4
    IndexMod = 12
INVARIANTS
    NoSlotRace
PROPERTIES
    ImplementsFifo
    EventuallyTaken
