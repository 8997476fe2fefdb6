SPECIFICATION FairSpec
CONSTANTS
    m = m
    x = x
    Connections <- ExtensionHost
    Fatal <- None
    MaxSockets = 3
INVARIANTS
    DeadIsWatched
PROPERTIES
    EventuallyReconnected
    EventuallyForgotten
CHECK_DEADLOCK FALSE
