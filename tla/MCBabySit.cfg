SPECIFICATION Spec
CONSTANTS
    p1 = p1
    p2 = p2
    a1 = a1
    a2 = a2
    Procs <- TwoProcs
    Threads <- TwoThreads
    MaxRetries = 1
    MaxErrors = 1
    Reported = {"failure"}
    MaxHeads = 2
    MaxCalls = 2
    MaxFaults = 1
SYMMETRY AnyOrder
INVARIANTS
    TypeOK
    LockIsolates
    DispatchedOnce
    RerunsBounded
    CronFollowsWatch
PROPERTIES
    OwnedByOne
CHECK_DEADLOCK FALSE
CONSTRAINT NotRaced
