SPECIFICATION FairSpec
CONSTANTS
    NULL = NULL
    Tests <- MCTests
    Clients <- MCClients
    Periods <- MCPeriods
    Times <- MCTimes
    InitialPeriod = 6
    Iterations = 20
    JumpFrameAt = 10
    GroupThreshold = 0
    MoveThreshold = 1
    MaxLate = 0
INVARIANTS
    TypeOK
    TestExpectation
PROPERTIES
    OneInvocationPerCycle
    StrideWithinPeriod
    ScheduledForFirstPulse
    TestFinishes
