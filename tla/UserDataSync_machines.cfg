SPECIFICATION FairSpec
CONSTANTS
    m1 = m1
    m2 = m2
    c1 = c1
    c2 = c2
    Machines <- MCMachines
    Contents <- MCContents
    NoFile = NoFile
    MaxEdits = 2
    MaxFailures = 1
CHECK_DEADLOCK FALSE
INVARIANTS
    TypeOK
    EditsAreKept
    NoConflictWithItself
PROPERTIES
    NothingUnseenReplaced
    Converges
