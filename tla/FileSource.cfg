SPECIFICATION SourceSpec
CONSTANTS
    PktSize = 2
    ReadChunkSize = 3
    MaxFile = 12
INVARIANTS
    BufferSound
PROPERTIES
    ImplementsPacketStream
    EventuallyEnded
CHECK_DEADLOCK FALSE
