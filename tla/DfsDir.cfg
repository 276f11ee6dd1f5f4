CONSTANTS
    NULL = NULL
    Names = {a, b}
    MaxFile = 3
    MaxCreated = 4
SPECIFICATION Spec
CHECK_DEADLOCK FALSE
INVARIANTS
    TypeOK
    ListingIsLookup
PROPERTIES
    ImplementsNamespace
