SPECIFICATION FairSpec
CONSTANTS
    Ops = {o1, o2}
    HipStreams = {s1}
    StreamObjs = {}
    FixedObjs = {}
    NoOp = NoOp
    NoStream = NoStream
CHECK_DEADLOCK FALSE
PROPERTIES
    EventuallyFreed
    EventuallyJoined
