SPECIFICATION Spec
CONSTANTS
    PcrUpperBound = 16
    TicksPerMs = 1
    pat = pat
    null = null
    unlisted = unlisted
    m1 = m1
    m2 = m2
    c1 = c1
    c2 = c2
    PatPid = pat
    NullPid = null
    None = None
    Unlisted = unlisted
    PmtPids <- MCPmtPids
    PcrPids <- MCPcrPids
    Streams <- MCStreams
    FirstPcrs <- MCFirstPcrs
    MaxDuration = 2
    MaxPackets = 6
    MaxInput = 7
    MaxTicks = 3
INVARIANTS
    TypeOK
    StartCorrect
    SeekBounded
SYMMETRY MCSymmetry
CHECK_DEADLOCK FALSE
