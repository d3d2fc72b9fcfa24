SPECIFICATION Spec
CONSTANTS
    AddrMod = 16
    AllocBase = 4
    AllocLen = 6
    MaxRw = 4
    Chunk = 2
    PageAlign = 2
    FileLen = 4
    Extent = 12
    Sizes = {0, 2, 3, 6}
    Pointers = {0, 1}
    Lengths = {3, 12}
    FileOffsets <- MCFileOffsets
    BufferOffsets <- MCBufferOffsets
    DioAligns <- MCDioAligns
CHECK_DEADLOCK FALSE
INVARIANTS
    TypeOK
    ReturnedWasMoved
    FallbackWriteIsDurable
    StaysInBuffer
    CompatModeRespected
    StatsMatchReturns
