\* Two tables of one cooking dish each, so that one dish can finish while the
\* tables are being published; a cache of one, so that an id is forgotten.
CONSTANTS
    Tables = {1, 2}
    ClientOrders = {c1, c2}
    MaxServedHistory = 1
    DedupeCacheSize = 1
    MaxOrders = 3
    MaxEpochs = 2
    MaxOrdersPerTable = 1
    MaxOrdersGlobal = 2
    EnableReset = TRUE
SPECIFICATION MCKitchenSpec
INVARIANTS
    CapacityRespected
    CooksHaveTheirOrder
    AcceptedOnceInTheWindow
PROPERTIES
    PublishesForward
CHECK_DEADLOCK FALSE
