SPECIFICATION Spec
CONSTANTS
    Models = {m1, m2}
    Aliases = {a1}
    Keys = {k1}
    Callers = {c1, c2}
    Pass = Pass
    Runners = {r1}
    None = None
    Requests = {"create", "delete"}
    FaultKinds = {"crash", "gateway", "mongo"}
    MaxFaults = 1
    Timely = TRUE
SYMMETRY Symmetry
CHECK_DEADLOCK FALSE
INVARIANTS
    TypeOK
    OneServedPerAlias
    NothingUnrecorded
    AliasNamesOneModel
