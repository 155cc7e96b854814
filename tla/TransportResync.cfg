\* Two tables: one is being announced while a dish is served at the other.
CONSTANTS
    Tables = {1, 2}
    ClientOrders = {c1}
    MaxServedHistory = 1
    DedupeCacheSize = 1
    MaxOrders = 1
    MaxEpochs = 1
    MaxOrdersPerTable = 1
    MaxOrdersGlobal = 1
    EnableReset = FALSE
    MaxFaults = 1
SPECIFICATION TSpec
INVARIANTS
    ResyncRepairs
CHECK_DEADLOCK FALSE
