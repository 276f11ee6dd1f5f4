\* One program closes the file while another one reads it.
CONSTANTS
    NULL = NULL
    Files = {f}
    Threads = {t1, t2}
    MaxWrites = 1
    Together = {{"read", "release"}}
    Pids = {p1, p2}
SPECIFICATION FairSpec
CHECK_DEADLOCK FALSE
INVARIANT NoDangling
