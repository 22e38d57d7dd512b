SPECIFICATION Spec
CONSTANTS
    i1 = i1
    h1 = h1
    h2 = h2
    Issues <- OneIssue
    Hooks <- TwoHooks
    MaxHeads = 2
    MaxEvents = 2
    MaxFaults = 2
SYMMETRY AnyOrder
INVARIANTS
    TypeOK
    PostedOnce
    NoEmptyRepeat
    QuietIsSettled
    SuccessIsReviewed
PROPERTIES
    SuccessStays
CHECK_DEADLOCK FALSE
