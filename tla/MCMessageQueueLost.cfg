SPECIFICATION Spec
CONSTANTS
    m1 = m1
    m2 = m2
    m3 = m3
    Messages <- Two
    MaxQueued = 2
INVARIANT
    QueuedIsKept
