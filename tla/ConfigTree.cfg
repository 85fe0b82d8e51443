\* The configuration tree: T_FLAG_READONLY, so tree_remove does nothing.
SPECIFICATION Spec
CONSTANTS
    k1 = k1
    k2 = k2
    Keys = {k1, k2}
    Step = 2
    ReadOnly = TRUE
    MaxPuts = 4
    NULL = NULL
SYMMETRY KeySymmetry
INVARIANTS TypeOK InPutOrder NewestWins BorrowedValid
PROPERTIES ImplementsMap
\* After tree_free there is nothing left to do.
CHECK_DEADLOCK FALSE
