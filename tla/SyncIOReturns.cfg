SPECIFICATION Spec
CONSTANTS
    AddrMod = 16
    AllocBase = 4
    AllocLen = 4
    MaxRw = 4
    Chunk = 2
    PageAlign = 2
    FileLen = 4
    Extent = 12
    Sizes = {0, 2, 4}
    Pointers = {0}
    Lengths = {4}
    FileOffsets <- MCFileOffsets
    BufferOffsets <- MCBufferOffsets
    DioAligns <- MCDioAligns
CHECK_DEADLOCK FALSE
INVARIANTS
    ReturnIsDocumented
