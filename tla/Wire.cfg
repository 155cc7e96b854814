\* Two windows, orders that arrive twice, one of them perhaps from another program,
\* names of up to four characters of the classes that the two sides treat differently,
\* one more than is allowed.
CONSTANTS
    Windows = {"w1", "w2"}
    TableCount = 1
    MaxFoodNameLength = 3
    Characters = {"blank", "nel", "bom", "separator"}
    MaxVisibleNotices = 1
    MaxTyped = 4
    MaxOrders = 2
    MaxForeign = 1
    MaxCopies = 2
SPECIFICATION WireSpec
INVARIANTS
    WireTypeOK
    NothingGoesAstray
    OrdersAreAnswered
    CookingIsNeverRefused
    WindowNamesAreAccepted
PROPERTIES
    NoticesEnd
    NoticesStayTheirTime
CHECK_DEADLOCK FALSE
