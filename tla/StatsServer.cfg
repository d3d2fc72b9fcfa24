SPECIFICATION Spec
CONSTANTS
    Clients = {c1, c2}
    Counters = {"read", "write"}
    Level = "Basic"
    Backlog = 1
    MaxBytes = 1
    NoClient = NoClient
CHECK_DEADLOCK FALSE
INVARIANTS
    TypeOK
    WaitingReportIsFinal
    NobodyForgotten
PROPERTIES
    EventuallyStopped
    ClientFinishes
