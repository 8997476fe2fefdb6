SPECIFICATION Spec
CONSTANTS
    Client = Client
    Server = Server
    a = a
    b = b
    c = c
    Data <- MCData
    NoData <- MCNoData
    Script <- TwoOne
    ExtensionHost = FALSE
    LossyLink = TRUE
    MaxSockets = 2
    KeepAliveRoom = 1
INVARIANTS
    TypeOK
    DeliveredInOrder
    ReplayIsPossible
    NothingIsForgotten
PROPERTIES
    ChannelSpec
CHECK_DEADLOCK FALSE
