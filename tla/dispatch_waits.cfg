SPECIFICATION DispatchSpec
CONSTANTS
    Infras = {i1}
    Conns = {c1}
    NoConn = NoConn
    Dispatchers = {d1}
    LogRequests = {}
    Observers = {o1}
    NoOne = NoOne
    Leavers = {o1}
    Timely = TRUE
    MaxSending = 1
    FaultKinds = {}
    MaxFaults = 0
CHECK_DEADLOCK FALSE
PROPERTIES
    DispatchEnds
