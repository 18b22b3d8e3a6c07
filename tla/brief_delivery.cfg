CONSTANTS
    d1 = d1
    d2 = d2
    a = a
    b = b
    Captures = {d1, d2}
    Dispatches = {d1, d2}

    Fingerprints = {a}
    NoAlert = NoAlert
    MaxRows = 1
    MaxDay = 2
    MaxStarts = 2
    MaxFaults = 1
SPECIFICATION FairSpec
INVARIANTS  ActiveIsReported
PROPERTIES BriefOncePerDay CapturesAreExact DispatchEnds
CHECK_DEADLOCK FALSE
