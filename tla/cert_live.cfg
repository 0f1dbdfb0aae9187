SPECIFICATION FairSpec
CONSTANTS
    Runs = {r1, r2, r3}
    Agents = {a1}
    NoAgent = NoAgent
    Pipelines = {p1, p2}
    Planned = 2
    MaxCalls = 3
    Resubmits = FALSE
    FaultKinds = {"task"}
    MaxFaults = 1
CHECK_DEADLOCK FALSE
PROPERTIES
    GateIsSeen
