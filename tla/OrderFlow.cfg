\* Three requests: an order of an earlier dialog, one of the present one and a
\* reset; a connection that comes, goes and comes back.
CONSTANTS
    Tables = {t1, t2}
    MaxRequests = 3
    MaxChanges = 4
SPECIFICATION FlowSpec
INVARIANTS
    FlowTypeOK
    WaitsAreOwed
    OneOrderAtATime
PROPERTIES
    FailedOrdersStillArrive
    WaitsEnd
CHECK_DEADLOCK FALSE
