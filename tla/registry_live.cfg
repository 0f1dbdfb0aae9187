SPECIFICATION FairSpec
CONSTANTS
    Models = {m1}
    Aliases = {a1}
    Keys = {k1}
    Callers = {c1}
    Pass = Pass
    Runners = {r1}
    None = None
    Requests = {"create", "delete", "key"}
    FaultKinds = {"crash", "gateway", "mongo", "reset", "offline"}
    MaxFaults = 2
    Timely = TRUE
CHECK_DEADLOCK FALSE
PROPERTIES
    IntentSettles
    LossIsNoticed
