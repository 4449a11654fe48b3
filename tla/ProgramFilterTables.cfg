SPECIFICATION Spec
CONSTANTS
    PcrUpperBound = 30
    TicksPerMs = 1
    pmt1 = pmt1
    pmt2 = pmt2
    es1 = es1
    es2 = es2
    PmtPids <- TwoPmtPids
    EsPids <- MCEsPids
    BlackLists <- OneTag
    ClockPid = es1
    EventTimes <- OneEventTime
    WaitUntil = 1
    PreStreamings = {FALSE, TRUE}
    FirstPcrs <- LowPcrs
    MaxPcrInterval = 1
    MaxEitInterval = 1
    MaxTime = 2
    None = None
INVARIANTS
    AnnouncedFirst
    RetryUnstreamed
CHECK_DEADLOCK FALSE
