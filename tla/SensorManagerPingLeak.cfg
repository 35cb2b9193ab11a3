SPECIFICATION Spec
CONSTANTS
    NULL = NULL
    t1 = t1
    t2 = t2
    h1 = h1
    h2 = h2
    n1 = n1
    n2 = n2
    Threads <- MCThreads
    Handles <- MCHandles
    Names <- MCNames
    MaxGen = 2
    MaxTries = 1
    MaxBlocks = 2
    MaxChannels = 1
    PingBinderFlag = FALSE
    StaticSensors <- MCStaticSensors
    DynamicSensors <- MCDynamicSensors
SYMMETRY ThreadSymmetry
INVARIANTS
    NoLeak
