SPECIFICATION Spec
CONSTANTS
    Threads = {t1, t2}
    Ops = {o1}
    Fds = {fd1, fd2}
    Handles = {h1, h2, h3}
    Bufs = {p1}
    BufObjs = {b1, b2, b3}
    Streams = {s1}
    MaxRef = 3
    MaxExcess = 1
    NoFile = NoFile
    NoFd = NoFd
    NoBuf = NoBuf
SYMMETRY Symmetry
INVARIANTS
    TypeOK
    RegistryConsistent
    ClosedMeansEmpty
    OpenersCounted
    PinnedStaysRegistered
PROPERTIES
    InUseLeavesOnlyByClose
