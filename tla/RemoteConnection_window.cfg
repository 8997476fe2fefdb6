SPECIFICATION Spec
CONSTANTS
    m = m
    x = x
    Connections <- Window
    Fatal <- Management
    MaxSockets = 2
INVARIANTS
    TypeOK
    RefusedOnlyIfGone
    ConnectedIsSafe
PROPERTIES
    NoNewAttempts
CHECK_DEADLOCK FALSE
