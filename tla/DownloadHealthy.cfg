\* K storages are healthy; the others have the share, a part of it or nothing,
\* and may stall.  The bytes arrive at any time and in any pieces.
CONSTANTS
    N = 3
    K = 2
    BufferSize = 2
    MagicSize = 2
    Len = 3
    DownLen = 0
    NoObject = NoObject
    Shares = {NoObject, 1}
    MinHealthy = 2
SPECIFICATION FairSpec
CHECK_DEADLOCK FALSE
INVARIANTS
    Complete
PROPERTIES
    PiecesAligned
    EnoughPieces
    Terminates
