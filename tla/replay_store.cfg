SPECIFICATION Spec
CONSTANTS
    OrLow = 20
    OrHigh = 28
    Vwap = 24
    NoLevel = NoLevel
    Visitors = {v1}
    Shapes <- MCShapes
    LivePlans <- MCPlans
    MaxBars = 2
    MaxRequests = 1
    MaxFaults = 1
    MaxDays = 2
INVARIANTS StoredIsTrue MovesAreServed OneRunPerWindow
CHECK_DEADLOCK FALSE
