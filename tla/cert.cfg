SPECIFICATION Spec
CONSTANTS
    Runs = {r1, r2}
    Agents = {a1, a2}
    NoAgent = NoAgent
    Pipelines = {p1, p2}
    Planned = 2
    MaxCalls = 4
    Resubmits = TRUE
    FaultKinds = {"task", "trigger", "slow", "store", "restart"}
    MaxFaults = 2
SYMMETRY Symmetry
CHECK_DEADLOCK FALSE
INVARIANTS
    TypeOK
    OneAgent
    OneAggregation
    
PROPERTIES
    CompletedIsFinal
