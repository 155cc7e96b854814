\* Three ids in a cache of two; a history of one, so that four orders are enough
\* to push finished ones off both tables.
CONSTANTS
    Tables = {1, 2}
    c1 = c1
    c2 = c2
    c3 = c3
    ClientOrders = {c1, c2, c3}
    MaxServedHistory = 1
    DedupeCacheSize = 2
    MaxOrders = 4
    MaxEpochs = 2
SPECIFICATION MCStoreSpec
INVARIANTS
    HistoryBounded
    SeenIsMostRecent
PROPERTIES
    VersionIdentifiesContent
    LatestAreKept
    OrderLifecycle
CHECK_DEADLOCK FALSE
