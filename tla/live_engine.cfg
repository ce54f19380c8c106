SPECIFICATION EngineSpec
CONSTANTS
    Orders = {o1, o2}
    Quantity = 2
INVARIANTS
    IntentMatchesOrders
    QuietSessionReconciles
PROPERTIES
    EventuallyReconciled
CHECK_DEADLOCK FALSE
