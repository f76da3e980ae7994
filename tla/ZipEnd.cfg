SPECIFICATION FairSpec
CONSTANTS
    MaxData = 9
    MaxRecords = 2
    ChunkSize = 3
    MaxSize = 8
    HeadLen = 1
    EocdLen = 2
    MaxComment = 2
INVARIANTS TypeOK NoArchivePassed LoneArchiveSaved
PROPERTIES Terminates
CHECK_DEADLOCK FALSE
