SPECIFICATION GuardSpec
CONSTANTS
    Nodes = {a, b}
    Inputs = {x}
    Instances = {i}
    Digests = {d}
    Undefined = Undefined
    Threshold = 2
    Laps = 2
    MinPeriod = 2
    MaxPeriod = 2
    Failures = 2
    HistorySize = 5
    MaxOpen = 2
    MaxCalls = 6
    MaxUnknown = 1
SYMMETRY Symmetric
INVARIANTS
    StreakIsBackToBack VerdictIsTrue HoldsLoopsOnce
CHECK_DEADLOCK FALSE
