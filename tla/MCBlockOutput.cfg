SPECIFICATION Spec
CONSTANTS
    Byte <- MCByte
    Chunks <- MCChunks
    BufferSize = 3
    MaxSize = 7
    IntMax = 7
CHECK_DEADLOCK TRUE
INVARIANTS
    TypeOK
    BlocksIntact
    FlushTestSound
PROPERTIES
    FileOnlyGrows
    ImplementsLog
