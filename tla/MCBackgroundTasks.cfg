SPECIFICATION Spec
CONSTANTS
    t1 = t1
    t2 = t2
    p1 = p1
    p2 = p2
    Tasks <- TwoTasks
    Monitors <- TwoTicks
    MaxActive = 1
    MaxFaults = 1
    NewestFirst = TRUE
SYMMETRY AnyOrder
INVARIANTS
    TypeOK
    Monitored
    AnnouncedOnce
    ActiveBounded
CHECK_DEADLOCK FALSE
