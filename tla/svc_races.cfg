SPECIFICATION Spec
CONSTANTS
    Tasks = {t1, t2}
    Docs = {d1}
    DocOf <- OneDocOf
    Users = {u1, u2}
    Procs = {p1}
    UserOps = {"ingest", "reparse", "stop", "remove"}
    PublishOutcomes = {"stored", "refused", "unacked"}
    MaxQueued = 1
    NoTask = NoTask
    NoDoc = NoDoc
SYMMETRY Symm
CHECK_DEADLOCK FALSE
INVARIANT OneRowPerDocument
INVARIANT CreatedIsQueued
PROPERTY TableKeepsPromise
PROPERTY ReparseSparesExecuting
