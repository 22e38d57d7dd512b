SPECIFICATION FairSpec
CONSTANTS
    p1 = p1
    p2 = p2
    a1 = a1
    a2 = a2
    Procs <- OneProc
    Threads <- OneThread
    MaxRetries = 1
    MaxErrors = 2
    Reported = {"pending", "failure", "success", "blocked", "closed"}
    MaxHeads = 2
    MaxCalls = 2
    MaxFaults = 1
PROPERTIES
    Attended
    Retired
CHECK_DEADLOCK FALSE
