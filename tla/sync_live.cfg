SPECIFICATION FairSpec
CONSTANTS
    Tasks = {t1, t2, t3}
    Jobs = {j1, j2}
    Links = {l1}
    Conns = {c1}
    LinkOf <- OneLink
    ConnOf <- OneConnector
    PruneJobs = {j2}
    ScanWindow = 2
    ScanLimit = 1
    Procs = {p1}
    Workers = {w1}
    QueueSize = 1
    Deployments <- LiveDeployments
    NoTask = NoTask
    NoJob = NoJob
CHECK_DEADLOCK FALSE
PROPERTY ClaimedSettles
PROPERTY DueIsClaimed
