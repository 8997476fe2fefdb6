SPECIFICATION FairSpec
CONSTANTS
    c1 = c1
    e1 = e1
    e2 = e2
    ch1 = ch1
    Calls <- OneCall
    Events <- TwoEvents
    Throwing <- SecondEvent
    Channels <- OneChannel
    ChannelOf <- AllFirst
    MaxSubscriptions = 2
    MaxFires = 1
    MaxAborts = 2
INVARIANTS
    TypeOK
    CalledOnce
    HandlersMatchCalls
    SidesAgree
PROPERTIES
    EventuallySettled
CHECK_DEADLOCK FALSE
