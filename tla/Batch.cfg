SPECIFICATION Spec
CONSTANTS
    Threads = {t1, t2}
    Contexts = {c1, c2}
    BatchOps = {o1, o2, o3}
    Files = {f1}
    MAX_SIZE = 2
    MaxNr = 3
    BufLen = 1
    SizeMod = 8
    NoContext = NoContext
    NoRequest = NoRequest
SYMMETRY Symmetry
INVARIANTS
    TypeOK
    WithinCapacity
    AcceptedAreValid
PROPERTIES
    AllOrNone
