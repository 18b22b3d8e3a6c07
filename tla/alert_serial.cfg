CONSTANTS
    a1 = a1
    a2 = a2
    s1 = s1
    s2 = s2
    t1 = t1
    t2 = t2
    p1 = p1
    p2 = p2
    NoAlert = NoAlert
    Symbols = {s1, s2}
    Alerts <- TwoAlerts
    SymbolOf <- SameSymbol
    Threads <- Serial
    Processes = {p1, p2}
    ProcessOf <- OwnProcess
    Roles <- AllRoles
    MaxRequests = 4
    MaxFaults = 1
    MaxRestarts = 1
SPECIFICATION Spec
INVARIANTS RecordsAreTrue RecordsCatchUp
PROPERTIES ImplementsBook
CHECK_DEADLOCK FALSE
