SPECIFICATION Spec
CONSTANTS
    Tasks = {t1, t2}
    Msgs = {m1, m2}
    Workers = {w1, w2}
    Capacity = 1
    MaxDeliver = 2
    MaxFaults = 1
    MaxExits = 1
    ExitKinds = {"crash", "shutdown"}
    UserOps = {"stop", "retry"}
    SlowHolders = {"queued"}
    NoTask = NoTask
    NoMsg = NoMsg
SYMMETRY Symm
CHECK_DEADLOCK FALSE
INVARIANT ExclusiveExecution
