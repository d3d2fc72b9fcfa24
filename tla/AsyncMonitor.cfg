SPECIFICATION Spec
CONSTANTS
    Ops = {o1, o2}
    HipStreams = {s1, s2}
    StreamObjs = {x1}
    FixedObjs = {x1}
    NoOp = NoOp
    NoStream = NoStream
CHECK_DEADLOCK FALSE
SYMMETRY Symmetry
INVARIANTS
    TypeOK
    NoUseAfterFree
    DestroyedOnce
    PublishedReleases
    StreamSerial
PROPERTIES
    ImplementsLifecycle
