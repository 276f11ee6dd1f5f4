CONSTANTS
    NULL = NULL
    Codes <- MCSharedCodes
    Messages <- MCMessages
    ChunkRows = 1
    Garbage = {0, 165}
    Noise = {1, 90}
    SplitsAlone = FALSE
SPECIFICATION Spec
CHECK_DEADLOCK FALSE
INVARIANT SharesAreCodeWords
