SPECIFICATION FairSpec
CONSTANTS
    MaxSteps = 4
    MaxFailures = 1
    OthersWrite = TRUE
CHECK_DEADLOCK FALSE
INVARIANTS
    TypeOK
    CleanIsSaved
PROPERTIES
    UnsavedIsKept
    EventuallySaved
