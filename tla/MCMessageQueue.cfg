SPECIFICATION Spec
CONSTANTS
    m1 = m1
    m2 = m2
    m3 = m3
    Messages <- Three
    MaxQueued = 2
SYMMETRY AnyOrder
INVARIANTS
    TypeOK
    KeptInOrder
    DiscardedIsGone
