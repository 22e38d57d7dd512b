SPECIFICATION Spec
CONSTANTS
    c1 = c1
    c2 = c2
    Calls <- TwoCalls
    MaxProxies = 3
    MaxTasks = 3
    MaxBoxes = 3
    MaxRuns = 2
    MaxUses = 2
    MaxFaults = 2
SYMMETRY AnyOrder
INVARIANTS
    TypeOK
    OneStartup
    CachedIsBound
PROPERTIES
    WorkStays
CHECK_DEADLOCK FALSE
