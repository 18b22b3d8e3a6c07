CONSTANTS
    s1 = s1
    s2 = s2
    t1 = t1
    t2 = t2
    NoState = NoState
    Threads = {t1}
    States = {s1, s2}
    MaxTokens = 3
    MaxRequests = 3
    MaxFaults = 2
SPECIFICATION FairSpec
PROPERTIES NeverOlder AccessRecovers
CHECK_DEADLOCK FALSE
