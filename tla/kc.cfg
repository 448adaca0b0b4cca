SPECIFICATION FairSpec
CONSTANTS
    Docs = {d1, d2}
    Workers = {w1, w2}
    BatchMax = 2
    MaxEvents = 2
    MaxTroubles = 1
    Nobody = Nobody
CHECK_DEADLOCK FALSE
INVARIANT NothingDropped
INVARIANT Serialized
INVARIANT DrainedIsConsistent
INVARIANT StatusTruthful
PROPERTY LiveLeaseRespected
PROPERTY EventuallyDrained
