SPECIFICATION FairSpec
CONSTANTS
    Capacity = 2
    MaxActions = 2
    MaxOthers = 1
    MaxRequests = 2
    MaxBreaks = 1
CHECK_DEADLOCK FALSE
INVARIANTS
    TypeOK
    ConfirmedFollowsHost
    ActionsKeepTheirOrder
PROPERTIES
    EventuallySettled
