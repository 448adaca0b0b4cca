SPECIFICATION FairSpec
CONSTANTS
    Tasks = {t1, t2, t3}
    Jobs = {j1}
    Links = {l1}
    Conns = {c1}
    LinkOf <- OneLink
    ConnOf <- OneConnector
    PruneJobs = {}
    ScanWindow = 2
    ScanLimit = 1
    Procs = {p1}
    Workers = {w1}
    QueueSize = 1
    Deployments <- LeftAlone
    NoTask = NoTask
    NoJob = NoJob
CHECK_DEADLOCK FALSE
PROPERTY ScheduledRuns
