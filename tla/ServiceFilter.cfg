SPECIFICATION Spec
CONSTANTS
    pat = pat
    cat = cat
    tot = tot
    eit = eit
    null = null
    d1 = d1
    d2 = d2
    d3 = d3
    s1 = s1
    s2 = s2
    Pids <- MCPids
    PatPid = pat
    CatPid = cat
    TotPid = tot
    NullPid = null
    PsiFilterPids <- MCPsiFilterPids
    Sids <- MCSids
    Sid = s1
    HasTimeLimit = TRUE
    PmtPids <- MCPmtPids
    CatPids <- MCCatPids
    None = None
SYMMETRY Symmetry
INVARIANTS
    TypeOK
    PmtFollowed
    SinksSafe
    ServicePassed
CHECK_DEADLOCK FALSE
