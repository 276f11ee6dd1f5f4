\* Storages 1 and 2 may refuse, 2 may die at any time; 3 is a FILE of others.
CONSTANTS
    N = 2
    K = 1
    L = 3
    B = 3
    P = 2
    Files = {1, 2, 3}
    MAX_THREAD = 2
    THREAD_SIZE = 3
    Refusing = {1, 2}
    Mortal = {2}
    MaxLoss = 3
SPECIFICATION FairSpec
CHECK_DEADLOCK FALSE
INVARIANTS
    TypeOK
    PoolInv
    InOrder
    ReturnMeansHanded
PROPERTIES
    Terminates
