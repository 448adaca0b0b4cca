SPECIFICATION FairSpec
CONSTANTS
    Jobs = {j1, j2}
    Workers = {w1, w2}
    InitWorkers = {w1}
    QueueSize = 1
    Sizes = {2}
    Resizers = {r1}
    Stoppers = {s1}
    NoJob = NoJob
CHECK_DEADLOCK FALSE
INVARIANT StopDrains
PROPERTY AcceptedSettles
