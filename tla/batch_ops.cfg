SPECIFICATION Spec
CONSTANTS
    Runs = {r1, r2}
    NoRun = NoRun
    Handlers = {h1}
    Users = {u1}
    Reconciler = Reconciler
    MaxRuns = 2
    MaxBatches = 1
    MaxFaults = 1
    FaultKinds = {"stop"}
    UserOps = {"start", "stop", "delete", "edit"}
    Timely = {"subscriber", "dispatch", "events"}
SYMMETRY Symmetry
CONSTRAINT DeletedAlone
CHECK_DEADLOCK FALSE
INVARIANTS
    IInv
    PhaseAgreesWithCompleted
    CountedRunsEnded
    LaunchedUnderCeiling
PROPERTIES
    CompletedIsFinal
