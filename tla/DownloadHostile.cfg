\* Shares may be missing or cut, and every storage may stall.
CONSTANTS
    N = 3
    K = 2
    BufferSize = 2
    MagicSize = 1
    Len = 3
    DownLen = 5
    NoObject = NoObject
    Shares = {NoObject, 1}
    MinHealthy = 0
SPECIFICATION Spec
CHECK_DEADLOCK FALSE
INVARIANTS
    PoolInv
    ReadableFits
    NoReadFailure
