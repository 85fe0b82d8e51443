\* Stores and fetches of two workers, with every failure.
SPECIFICATION Spec
CONSTANTS
    w1 = w1
    w2 = w2
    o1 = o1
    u1 = u1
    u2 = u2
    b1 = b1
    b2 = b2
    Workers = {w1, w2}
    ObjectIds = {o1}
    Uuids = {u1, u2}
    Blocks = {b1, b2}
    MaxBlocks = 2
    HEADER = HEADER
    TORN = TORN
    NULL = NULL
SYMMETRY StoreSymmetry
INVARIANTS TypeOK StoredWhole
PROPERTIES FetchedWhole ImplementsBlobs
