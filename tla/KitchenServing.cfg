\* No publish raises and the kitchen may shut down: every dish is served.
CONSTANTS
    Tables = {1, 2}
    ClientOrders = {c1, c2}
    MaxServedHistory = 1
    DedupeCacheSize = 1
    MaxOrders = 2
    MaxEpochs = 2
    MaxOrdersPerTable = 2
    MaxOrdersGlobal = 2
    EnableReset = TRUE
SPECIFICATION FairSteadySpec
INVARIANTS
    OrdersHaveACook
PROPERTIES
    NoDishCooksForever
CHECK_DEADLOCK FALSE
