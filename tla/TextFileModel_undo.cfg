SPECIFICATION Spec
CONSTANTS
    MaxSteps = 2
    MaxFailures = 0
    OthersWrite = FALSE
CHECK_DEADLOCK FALSE
INVARIANT
    SavedVersionIsOnDisk
