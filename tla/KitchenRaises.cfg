\* The publish of an accepted order may raise.
CONSTANTS
    Tables = {1}
    ClientOrders = {c1}
    MaxServedHistory = 1
    DedupeCacheSize = 1
    MaxOrders = 1
    MaxEpochs = 1
    MaxOrdersPerTable = 1
    MaxOrdersGlobal = 1
    EnableReset = FALSE
SPECIFICATION FairSpec
PROPERTIES
    NoDishCooksForever
CHECK_DEADLOCK FALSE
