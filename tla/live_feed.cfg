SPECIFICATION FeedFairSpec
CONSTANTS
    Capacity = 3
    MaxQuotes = 5
CHECK_DEADLOCK FALSE
INVARIANTS
    OnceInOrder
    EveryQuoteAccounted
PROPERTIES
    SessionEnds
