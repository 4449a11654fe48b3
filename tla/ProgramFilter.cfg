SPECIFICATION Spec
CONSTANTS
    PcrUpperBound = 30
    TicksPerMs = 1
    pmt1 = pmt1
    pmt2 = pmt2
    es1 = es1
    es2 = es2
    PmtPids <- OnePmtPid
    EsPids <- MCEsPids
    BlackLists <- NoTags
    ClockPid = es1
    EventTimes <- MCEventTimes
    WaitUntil = None
    PreStreamings = {FALSE}
    FirstPcrs <- LowPcrs
    MaxPcrInterval = 1
    MaxEitInterval = 1
    MaxTime = 6
    None = None
INVARIANTS
    TypeOK
    InTime
    OnAirStreamed
CHECK_DEADLOCK FALSE
