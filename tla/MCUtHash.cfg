SPECIFICATION Spec
CONSTANTS
    Keys = {1, 2, 3, 4, 5}
    Elements = {e1, e2, e3, e4, e5}
    NULL = NULL
    HashValues = {0, 1, 2, 4}
    HashFunctions <- UpToRenaming
    InitialLog2 = 0
    Threshold = 1
INVARIANTS
    TypeOK
    Integrity
    FindExact
    NoDangling
    ChainsBounded
PROPERTIES
    ImplementsOrderedMap
