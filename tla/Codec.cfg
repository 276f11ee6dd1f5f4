CONSTANTS
    NULL = NULL
    Codes <- MCCodes
    Messages <- MCMessages
    ChunkRows = 1
    Garbage = {0, 165}
    Noise = {90}
    SplitsAlone = TRUE
SPECIFICATION Spec
CHECK_DEADLOCK FALSE
INVARIANTS
    TypeOK
    SharesAreCodeWords
    MergeGivesMessage
