SPECIFICATION Spec
CONSTANTS
    m1 = m1
    m2 = m2
    c1 = c1
    c2 = c2
    Machines <- MCMachines
    Contents <- MCContents
    NoFile = NoFile
    MaxEdits = 2
    MaxFailures = 0
CHECK_DEADLOCK FALSE
INVARIANT
    SyncingIsRunning
