\* Half seconds. The window's clock is behind or ahead by more than a second, a
\* message may be older than a second, and a dish may take no time at all.
CONSTANTS
    Second = 2
    Cooks = {0, 2}
    Behind = 3
    Ahead = 4
    MaxLatency = 3
    MaxDishes = 2
    MaxUpsets = 2
    MaxTime = 5
SPECIFICATION DisplaySpec
INVARIANTS
    DisplayTypeOK
    OffsetIsHonest
    NeverMoreThanAssigned
    CountdownIsClose
    BarAndCountdownAgree
CHECK_DEADLOCK FALSE
