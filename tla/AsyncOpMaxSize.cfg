SPECIFICATION Spec
CONSTANTS
    MaxRw = 3
    MaxSize = 4
    BufLen = 4
    FileLen = 4
CHECK_DEADLOCK FALSE
INVARIANTS
    MaxIoSizeRespected
