SPECIFICATION FairSpec
CONSTANTS
    ServerRuns = {r1}
    ClusterRuns = {c1}
    NoRun = NoRun
    Starters = {s1}
    Handlers = {h1}
    Closers = {k1}
    RecentRuns = 1
    Deletable = {c1}
    FaultKinds = {"start", "event", "copy"}
    MaxFaults = 1
CHECK_DEADLOCK FALSE
INVARIANTS
    TypeOK
    CopyNeverAhead
PROPERTIES
    CopyStaysClosed
    CopyFollowsRun
