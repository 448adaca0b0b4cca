SPECIFICATION FairSpec
CONSTANTS
    Items = {i1, i2}
    Stops = {s1}
    PushKinds = {"strategy", "preempt", "delayed"}
    StopKinds = {"bare", "cancel", "skip", "idle"}
    MaxRuns = 3
    MaxFaults = 1
CHECK_DEADLOCK FALSE
INVARIANT TypeOK
INVARIANT Accounted
PROPERTY PreemptAcked
PROPERTY StopEnds
