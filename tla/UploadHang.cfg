\* One storage of N - K may die at any time; a share fits the buffer.
CONSTANTS
    N = 2
    K = 1
    L = 2
    B = 2
    P = 2
    Files = {1, 2}
    MAX_THREAD = 2
    THREAD_SIZE = 3
    Refusing = {}
    Mortal = {2}
    MaxLoss = 4
SPECIFICATION FairSpec
CHECK_DEADLOCK FALSE
PROPERTIES
    AlwaysEnds
