SPECIFICATION Spec
CONSTANTS
    i1 = i1
    h1 = h1
    h2 = h2
    Issues <- OneIssue
    Hooks <- OneHook
    MaxHeads = 2
    MaxEvents = 2
    MaxFaults = 0
INVARIANTS
    ReviewedIsVisible
CHECK_DEADLOCK FALSE
