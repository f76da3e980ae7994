SPECIFICATION Spec
CONSTANTS
    Base = 6
    Width = 2
    Clusters = 4
    Before = 1
    Behind = 1
    ClusterSize = 2
    MaxRuns = 3
    MaxAttrs = 2
INVARIANTS TypeOK FileRecovered NothingForeign LostForCause
CHECK_DEADLOCK FALSE
