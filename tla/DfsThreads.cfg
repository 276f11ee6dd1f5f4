\* Readers of a file run together, everything else alone.
CONSTANTS
    NULL = NULL
    Files = {f}
    Threads = {t1, t2}
    MaxWrites = 2
    Together = {{"read"}}
    Pids = {p1, p2}
SPECIFICATION FairSpec
CHECK_DEADLOCK FALSE
INVARIANTS
    TypeOK
    NoDangling
    ReadersSeeLatest
    WritesKept
PROPERTIES
    LockIsReleased
