CONSTANTS
    a1 = a1
    a2 = a2
    s1 = s1
    s2 = s2
    t1 = t1
    t2 = t2
    p1 = p1
    p2 = p2
    NoAlert = NoAlert
    Symbols = {s1, s2}
    Alerts <- OneAlert
    SymbolOf <- SameSymbol
    Threads <- Pair
    Processes = {p1, p2}
    ProcessOf <- OwnProcess
    Roles <- SchedulerAndWorker
    MaxRequests = 3
    MaxFaults = 0
    MaxRestarts = 0
SPECIFICATION Spec
INVARIANTS StillPending CreatedOnce
PROPERTIES PendingNeverReturns
CHECK_DEADLOCK FALSE
