SPECIFICATION Spec
CONSTANTS
    Prices = {1, 2}
    Quantities = {2}
    Ticks <- MC_Ticks
    InitialCash = 3
    MaxOrders = 3
INVARIANTS
    BookConsistent
    RestsWhileActive
    LimitHonoured
    FillsAccountedFor
PROPERTIES
    PriceTimePriority
    PrintNeverOversold
