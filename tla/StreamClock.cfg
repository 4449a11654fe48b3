SPECIFICATION Spec
CONSTANTS
    PcrUpperBound = 22
    TicksPerSec = 4
    TicksPerMs = 1
    GapThreshold = 1
    GapCountSize = 256
    NoPid = NoPid
    p1 = p1
    p2 = p2
    Pids <- MCPids
    MaxPcrInterval = 1
    MaxTotInterval = 5
    MaxDisturbances = 2
INVARIANTS
    TypeOK
    NowAccurate
PROPERTIES
    NowSteady
    ImplementsStatus
    EventuallyAccurate
