\* Two tables, so that an announcement can overwrite a retained state with an older
\* one; two faults, so that a window and the kitchen can both lose the broker.
CONSTANTS
    Tables = {1, 2}
    ClientOrders = {c1}
    MaxServedHistory = 1
    DedupeCacheSize = 1
    MaxOrders = 1
    MaxEpochs = 2
    MaxOrdersPerTable = 1
    MaxOrdersGlobal = 1
    EnableReset = TRUE
    MaxFaults = 2
    Browsers = {b1}
SPECIFICATION MCRestaurantSpec
INVARIANTS
    RTypeOK
    VersionsNameStates
    QuietWindowsAreCaughtUp
    QuietWindowsShowTheKitchen
PROPERTIES
    WindowsFollow
    WindowsCatchUp
    ShownTablesAreLive
CHECK_DEADLOCK FALSE
