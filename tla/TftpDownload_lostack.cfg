SPECIFICATION Spec
CONSTANTS
    DEFAULT_BLKSIZE = 2
    SinkSize = 6
    BlockNumbers = 3
    FileSizes = {0, 1, 2, 5, 6, 7}
    OackSizes = {0, 1}
    MaxLosses = 2
    MaxStrays = 2
    MaxResends = 2
    LoseAcks = TRUE
CHECK_DEADLOCK FALSE
INVARIANTS CompleteIsFile
