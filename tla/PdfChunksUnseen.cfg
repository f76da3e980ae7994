SPECIFICATION Spec
CONSTANTS
    MaxData = 10
    ChunkSize = 4
    PdfInitialLimit = 9
    MaxSize = 12
    HeaderLen = 1
    EofLen = 2
    XrefLen = 2
    TableLen = 2
    Lookback = 3
    LeastBody = 3
    MinSize = 6
INVARIANT ChunksUnseen
CHECK_DEADLOCK FALSE
