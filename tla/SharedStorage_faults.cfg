SPECIFICATION FairSpec
CONSTANTS
    w1 = w1
    w2 = w2
    k1 = k1
    k2 = k2
    v1 = v1
    v2 = v2
    Main = Main
    NoValue = NoValue
    Nothing = Nothing
    Windows <- MCWindow
    Waiters <- MCWindow
    Faults = TRUE
    Keys <- MCTwoKeys
    Values <- MCValues
    MaxWrites = 2
    ChannelRoom = 0
CHECK_DEADLOCK FALSE
INVARIANTS
    DiskFollowsCache
    ClosedIsStored
PROPERTIES
    DurableSpec
    WaitersAreReleased
    EventuallyAgree
