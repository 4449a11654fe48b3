SPECIFICATION Spec
CONSTANTS
    PktSize = 2
    BufferSize = 3
    BuffersPerChunk = 1
    NumChunks = 2
    pmt1 = pmt1
    pmt2 = pmt2
    pcr1 = pcr1
    pcr2 = pcr2
    ev1 = ev1
    ev2 = ev2
    ev3 = ev3
    PmtPids <- MCPmtPids
    PcrPids <- MCPcrPids
    EventIds <- MCEventIds
    Times <- MCTimes
    None = None
SYMMETRY Symmetry
INVARIANTS
    TypeOK
    MessagesConsistent
    AppInStep
CHECK_DEADLOCK FALSE
