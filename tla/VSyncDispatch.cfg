SPECIFICATION Spec
CONSTANTS
    NULL = NULL
    r1 = r1
    r2 = r2
    Handles <- MCHandles
    Periods <- MCPeriods
    Times <- MCTimes
    Durations <- MCDurations
    InitialPeriod = 3
    GroupThreshold = 2
    MoveThreshold = 2
    MaxLate = 1
    MaxStale = 0
SYMMETRY HandleSymmetry
INVARIANTS
    TypeOK
    ArmedNearMinimum
    NotOverdue
    ReleasedIsQuiet
    PredictionIsPulseNotBefore
    PredictionIsFirstPulse
