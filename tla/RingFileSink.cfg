SPECIFICATION Spec
CONSTANTS
    PktSize = 2
    BufferSize = 3
    BuffersPerChunk = 2
    NumChunks = 3
    MaxBytes = 32
    MaxStops = 2
    OldSize = 20
INVARIANTS
    TypeOK
    WithinRing
    HeldSafe
PROPERTIES
    ImplementsLog
    ImplementsPacketRingSink
