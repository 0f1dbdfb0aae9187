SPECIFICATION FairSpec
CONSTANTS
    Runs = {r1, r2, r3}
    NoRun = NoRun
    Handlers = {h1}
    Users = {u1}
    Reconciler = Reconciler
    MaxRuns = 2
    MaxBatches = 1
    MaxFaults = 2
    FaultKinds = {"refuse", "delivery", "chain", "sweep", "restart"}
    UserOps = {"start"}
    Timely = {"subscriber", "dispatch", "events"}
CHECK_DEADLOCK FALSE
PROPERTIES
    ImplementsLiveBatch
