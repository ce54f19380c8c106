SPECIFICATION FairSpec
CONSTANTS
    Orders = {o1, o2, o3}
    Quantity = 2
INVARIANTS
    ReportedAtMostOnce
    WorkingIsTracked
PROPERTIES
    DroppedUpToDate
    EventuallyReported
