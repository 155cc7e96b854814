\* One table, two dishes at once, one finished dish kept.
CONSTANTS
    Tables = {1}
    ClientOrders = {c1, c2}
    MaxServedHistory = 1
    DedupeCacheSize = 2
    MaxOrders = 3
    MaxEpochs = 1
    MaxOrdersPerTable = 2
    MaxOrdersGlobal = 2
    EnableReset = FALSE
SPECIFICATION FairSteadySpec
PROPERTIES
    ServedIsVisible
CHECK_DEADLOCK FALSE
