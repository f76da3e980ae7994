SPECIFICATION Spec
CONSTANTS
    MaxRecords = 4
    PerBlock = 2
    MaxTime = 2
    Inodes = {5}
INVARIANTS PreDeletionCopiesUsed
CHECK_DEADLOCK FALSE
