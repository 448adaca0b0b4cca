SPECIFICATION Spec
CONSTANTS
    Tasks = {t1, t2, t3}
    Jobs = {j1}
    Links = {l1}
    Conns = {c1}
    LinkOf <- OneLink
    ConnOf <- OneConnector
    PruneJobs = {j1}
    ScanWindow = 2
    ScanLimit = 1
    Procs = {p1, p2}
    Workers = {w1, w2}
    QueueSize = 1
    Deployments <- UsersAndRivals
    NoTask = NoTask
    NoJob = NoJob
SYMMETRY Symm
CHECK_DEADLOCK FALSE
INVARIANT OneRunPerConnector
INVARIANT ChainAlive
INVARIANT ExclusiveClaim
