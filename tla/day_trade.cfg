SPECIFICATION Spec
CONSTANTS
    OrLow = 20
    OrHigh = 28
    Vwap = 24
    NoLevel = NoLevel
    Confirmations = 2
    Noon = 2
    Lows = {11, 19, 25}
    Highs = {19, 25, 29, 37, 45}
    Closes = {11, 19, 25, 29, 32}
    Asked <- MCAsked
    LiveStops = {NoLevel, 24}
    LiveTargets <- MCTargets
    MaxBars = 3
INVARIANTS StoryIsTrue ActiveIsUnstopped 
PROPERTIES StoryStands
CHECK_DEADLOCK FALSE
