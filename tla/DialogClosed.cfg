\* An earlier order is acknowledged while the dialog is open for another.
CONSTANTS
    Tables = {t1, t2}
    MaxRequests = 2
    MaxChanges = 3
SPECIFICATION FlowSpec
PROPERTIES
    ClosesOnItsOwnSuccess
CHECK_DEADLOCK FALSE
