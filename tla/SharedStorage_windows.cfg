SPECIFICATION Spec
CONSTANTS
    w1 = w1
    w2 = w2
    k1 = k1
    k2 = k2
    v1 = v1
    v2 = v2
    Main = Main
    NoValue = NoValue
    Nothing = Nothing
    Windows <- MCWindows
    Waiters = {}
    Faults = FALSE
    Keys <- MCKeys
    Values <- MCValues
    MaxWrites = 3
    ChannelRoom = 1
SYMMETRY Symmetry
CHECK_DEADLOCK FALSE
INVARIANTS
    TypeOK
    PendingIsScheduled
    WindowsAgree
