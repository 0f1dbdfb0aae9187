SPECIFICATION LiveSpec
CONSTANTS
    Infras = {i1}
    Conns = {c1, c2}
    NoConn = NoConn
    Dispatchers = {d1}
    LogRequests = {q1}
    Observers = {o1}
    NoOne = NoOne
    Leavers = {o1}
    Timely = TRUE
    MaxSending = 1
    FaultKinds = {"update", "panic"}
    MaxFaults = 1
CHECK_DEADLOCK FALSE
INVARIANTS
    TypeOK
    UpIsInStore
    UpIsActive
    AnsweredOnce
PROPERTIES
    LostLeavesStore
