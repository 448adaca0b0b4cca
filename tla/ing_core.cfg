SPECIFICATION FairSpec
CONSTANTS
    Tasks = {t1, t2}
    Msgs = {m1, m2}
    Workers = {w1}
    Capacity = 2
    MaxDeliver = 3
    MaxFaults = 0
    MaxExits = 1
    ExitKinds = {"crash"}
    UserOps = {"stop", "remove"}
    SlowHolders = {"unwinding"}
    NoTask = NoTask
    NoMsg = NoMsg
CHECK_DEADLOCK FALSE
INVARIANT Recoverable
INVARIANT StoppedOnlyOnRequest
PROPERTY FinishedNeverRerun
PROPERTY EveryTaskSettles
