\* A tree without the flag, as the cache is: removals leave holes.
SPECIFICATION Spec
CONSTANTS
    k1 = k1
    k2 = k2
    Keys = {k1, k2}
    Step = 2
    ReadOnly = FALSE
    MaxPuts = 5
    NULL = NULL
SYMMETRY KeySymmetry
INVARIANTS NoItemLost OneAnswer
PROPERTIES RemoveIsExact
\* After tree_free there is nothing left to do.
CHECK_DEADLOCK FALSE
