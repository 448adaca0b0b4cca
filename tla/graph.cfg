SPECIFICATION FairSpec
CONSTANTS
    a = a
    b = b
    c = c
    d = d
    Nodes = {a, b, c, d}
    End = End
    None = None
    Configs <- Sound
    MaxAttempts = 2
    RecursionLimit = 5
    MaxPending = 2
CHECK_DEADLOCK FALSE
INVARIANT TypeOK
INVARIANT FanInReads
INVARIANT DoneHasAllOutputs
PROPERTY ResumesAtNode
INVARIANT PauseKeepsProgress
PROPERTY RunEnds
