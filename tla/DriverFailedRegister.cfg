SPECIFICATION Spec
CONSTANTS
    Threads = {t1, t2}
    Ops = {}
    Fds = {fd1}
    Handles = {h1}
    Bufs = {p1}
    BufObjs = {b1}
    Streams = {s1}
    MaxRef = 2
    MaxExcess = 1
    NoFile = NoFile
    NoFd = NoFd
    NoBuf = NoBuf
PROPERTIES
    OnlySuccessfulRegisterOpens
