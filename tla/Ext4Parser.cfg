SPECIFICATION ParserSpec
CONSTANTS
    MaxRecords = 4
    PerBlock = 2
    MaxTime = 2
    Inodes = {1}
    BlockSize = 2
    Blocks = 200
    RootEntries = 2
    NodeEntries = 2
    Direct = 1
    Pointers = 2
    MaxDepth = 5
    Unwritten = 8
    FirstData = 10
    TreeBase = 50
    MaxExtentBlocks = 5
    MaxHeight = 2
    MaxPointerBlocks = 8
    MaxTotal = 7
    GroupBlocks = 3
    GroupInodes = 2
    InodesPerBlock = 1
    FirstTable = 1
    Word = 16
INVARIANTS ParserTypeOK DeletedDelivered FileRecovered NothingForeign LostForCause UsableDeliveredOnce
CHECK_DEADLOCK FALSE
