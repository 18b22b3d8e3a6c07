CONSTANTS
    s1 = s1
    s2 = s2
    t1 = t1
    t2 = t2
    NoState = NoState
    Threads = {t1, t2}
    States = {s1, s2}
    MaxTokens = 3
    MaxRequests = 3
    MaxFaults = 1
SPECIFICATION Spec
SYMMETRY Symmetry
INVARIANTS GoneStaysGone LinkedIsServed
CHECK_DEADLOCK FALSE
