SPECIFICATION Spec
CONSTANTS
    NULL = NULL
    r1 = r1
    r2 = r2
    Handles <- MCHandles
    Periods <- MCPeriods
    Times <- MCTimes
    Durations <- MCDurations
    InitialPeriod = 3
    GroupThreshold = 1
    MoveThreshold = 3
    MaxLate = 0
    MaxStale = 0
SYMMETRY HandleSymmetry
INVARIANT NotOverdue
