SPECIFICATION Spec
CONSTANTS
    Workflows = {w1}
    Faults = {f1, f2}
    MaxParallel = 1
    StreamSize = 1
    MaxFaults = 1
    FaultKinds = {"restart", "send"}
    Shutdowns = TRUE
    Timely = {"revert", "operator"}
    MaxUnread = 2
SYMMETRY Symmetric
CHECK_DEADLOCK FALSE
INVARIANTS
    TypeOK
    
    
    EndIsUnderWay
