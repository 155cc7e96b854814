\* Two tables, so that a dish can be served between the publications of the
\* two; two faults, so that a crash can follow a broken link and a takeover.
CONSTANTS
    Tables = {1, 2}
    ClientOrders = {c1, c2}
    MaxServedHistory = 1
    DedupeCacheSize = 2
    MaxOrders = 2
    MaxEpochs = 2
    MaxOrdersPerTable = 1
    MaxOrdersGlobal = 2
    EnableReset = TRUE
    MaxFaults = 2
SPECIFICATION MCTransportSpec
INVARIANTS
    OnlineIsBacked
    ServingIsAnnounced
    DishesSurviveReconnect
    ResyncRepairsUnlessOvertaken
PROPERTIES
    RecoversToServing
CHECK_DEADLOCK FALSE
