SPECIFICATION FairSpec
CONSTANTS
    MaxSize = 11
    BlockSizes = {3, 4, 5, 7}
    Overlap = 4
    HeaderLen = 4
INVARIANTS TypeOK VisitedInOrder NothingMissed ErrorLosesOnlyUnread
PROPERTIES Sweeps Terminates
CHECK_DEADLOCK FALSE
