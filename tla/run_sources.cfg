SPECIFICATION RunSpec
CONSTANTS
    Docs = {1, 2}
    Coarse = FALSE
    MaxCrashes = 1
    Connectors <- Sources
INVARIANT RunTypeOK
INVARIANT WaterlineCovers
INVARIANT ObjectsFollowRows
PROPERTY PruneOnlyStale
PROPERTY SkippedIsComplete
