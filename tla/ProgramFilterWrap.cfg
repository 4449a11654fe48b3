SPECIFICATION Spec
CONSTANTS
    PcrUpperBound = 30
    TicksPerMs = 1
    pmt1 = pmt1
    pmt2 = pmt2
    es1 = es1
    es2 = es2
    PmtPids <- OnePmtPid
    EsPids <- MCEsPids
    BlackLists <- NoTags
    ClockPid = es1
    EventTimes <- OneEventTime
    WaitUntil = None
    PreStreamings = {FALSE}
    FirstPcrs <- AnyPcrs
    MaxPcrInterval = 1
    MaxEitInterval = 1
    MaxTime = 6
    None = None
INVARIANTS
    OnAirStreamed
CHECK_DEADLOCK FALSE
