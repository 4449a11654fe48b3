SPECIFICATION Spec
CONSTANTS
    None = None
    PatPid = 0
    NitPid = 16
    SdtPid = 17
    TotPid = 20
    NullPid = 8191
    PcrUpperBound = 16
    TicksPerMs = 1
    TicksPerSec = 4
    IncludedSids = {}
    ExcludedSids = {3}
    ScanPats <- MCScanPats
    ScanSdts <- MCScanSdts
    NitMoves = FALSE
    ScanChanges = 4
    Sids = {1, 2}
    SyncPats <- MCSyncPats
    SyncSdts <- MCSyncSdts
    SyncPcrPids <- MCSyncPcrPids
    Changing = {"PAT"}
    SyncChanges = 2
    TotInterval = 2
    PcrInterval = 1
    Regular = TRUE
    MaxError = 3
    Services = {1, 2, 3}
    EitpfSids = {1, 2}
    Streamings = {TRUE, FALSE}
    NumVersions = 3
    MaxGen = 2
    NumEvents = 5
    Tracked = 3
    MaxMoves = 3
    PmtPid = 101
    EsPid = 301
    PesPcrPids = {201, 202}
    Origins <- MCOrigins
    MaxAhead = 2
    PesPcrInterval = 2
    StrangePats = {TRUE, FALSE}
    MaxTicks = 4
    PesChanges = 2
    GapThreshold = 1
    GapCountSize = 4
    PktSize = 3
    BufferSize = 8
    MaxPackets = 9
INVARIANTS
    ScanCorrect
    ClocksCorrect
    EitpfCorrect
    AirtimeCorrect
    DatetimeAccurate
    StdoutCorrect
PROPERTIES
    CommandsEnd
    PmtShown
CHECK_DEADLOCK FALSE
