CONSTANTS
    MaxBytes = 4
    ReadBuffer = 3
    MaxChunk = 2
    MaxChunks = 6
SPECIFICATION FairOutputSpec
INVARIANTS NoSilentGap CompleteWhenDone
PROPERTIES PagingEnds
CHECK_DEADLOCK FALSE
