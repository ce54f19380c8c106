SPECIFICATION Spec
CONSTANTS
    Prices = {10, 20}
    Quantities = {1, 3}
    Ticks <- MC_Ticks
    InitialCash = 60
    SlippageDivisor = 10
    MaxOrders = 2
INVARIANTS
    ListedWhileActive
PROPERTIES
    TouchNeverOversold
    OlderFirst
