SPECIFICATION FairSpec
CONSTANTS
    t1 = t1
    t2 = t2
    p1 = p1
    p2 = p2
    Tasks <- TwoTasks
    Monitors <- OneTick
    MaxActive = 1
    MaxFaults = 1
    NewestFirst = TRUE
PROPERTIES
    Announced
    CronsRetired
CHECK_DEADLOCK FALSE
