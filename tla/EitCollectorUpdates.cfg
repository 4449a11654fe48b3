SPECIFICATION Spec
CONSTANTS
    NumTables = 2
    NumSegments = 2
    NumSections = 2
    s1 = s1
    s2 = s2
    s3 = s3
    Services <- MCServices
    Versions = {0, 1, 2}
    Schedules <- MCUpdates
    Actual = {s1, s3}
    CollectActual = TRUE
    CollectOthers = TRUE
    IncludedSids = {}
    ExcludedSids = {s3}
    TimeLimit = 2
    MaxChanges <- MCOneUpdate
INVARIANT
    UpdatesNotDropped
CHECK_DEADLOCK FALSE
