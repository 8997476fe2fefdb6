SPECIFICATION FairSpec
CONSTANTS
    Client = Client
    Server = Server
    a = a
    b = b
    c = c
    Data <- MCData
    NoData <- MCNoData
    Script <- TwoNone
    ExtensionHost = TRUE
    LossyLink = FALSE
    MaxSockets = 3
    KeepAliveRoom = 0
INVARIANTS
    SocketsAreReadable
PROPERTIES
    EventuallyConfirmed
CHECK_DEADLOCK FALSE
