SPECIFICATION Spec
CONSTANTS
    Threads = {t1, t2}
    Inodes = {i1, i2}
    Fds = {n1, n2, n3, n4}
    Files = {f1, f2, f3, f4}
    NoFd = NoFd
    NoFile = NoFile
    Closed = Closed
SYMMETRY Symmetry
INVARIANTS
    TypeOK
    OwnedExactlyOnce
    BothReachTheFile
