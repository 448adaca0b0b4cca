SPECIFICATION FairSpec
CONSTANTS
    Asks = {a1, a2}
    Posts = {p1}
    Seeds = 1
    Kinds = {"task", "event", "other", "nameless", "badtask", "badevent"}
    MaxActions = 2
    UserOps = {"post", "delete", "crash"}
    MaxCrashes = 1
    NoAsk = NoAsk
CHECK_DEADLOCK FALSE
INVARIANT ConfirmedKept
PROPERTY EveryAskAnswered
