SPECIFICATION LiveSpec
CONSTANTS
    a = a
    b = b
    r1 = r1
    r2 = r2
    Sides = {a, b}
    Callers = {r1, r2}
    SideOf <- MCSideOf
    MaxID = 2
    WireCap = 1
    Strayers = {b}
    MaxStray = 1
    MayClose = TRUE
CHECK_DEADLOCK FALSE
INVARIANTS
    TypeOK
    OwnID
    NeverBlocked
PROPERTY CallReturns
