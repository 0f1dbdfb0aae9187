SPECIFICATION Spec
CONSTANTS
    Runs = {r1, r2, r3, r4}
    NoRun = NoRun
    Handlers = {h1, h2}
    Users = {u1}
    Reconciler = Reconciler
    MaxRuns = 3
    MaxBatches = 1
    MaxFaults = 2
    FaultKinds = {"refuse", "delivery", "event", "chain", "sweep", "restart"}
    UserOps = {"start"}
    Timely = {"subscriber", "dispatch", "events"}
SYMMETRY Symmetry
CHECK_DEADLOCK FALSE
INVARIANTS
    TypeOK
    BatchNotShort
PROPERTIES
    ImplementsSequentialBatch
