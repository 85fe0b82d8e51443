\* Two connections at a time, few requests, and a reload: what adds up.
SPECIFICATION FairSpec
CONSTANTS
    c1 = c1
    c2 = c2
    Conns = {c1, c2}
    Requests <- FewRequests
    Settings <- OneSetting
    SlowFrom = 2
    SlowerFrom = 3
    Width = 8
    MaxConnects = 5
    MaxReloads = 1
    NULL = NULL
INVARIANTS Throttled ActiveCount
PROPERTIES  EventuallyServed ShutdownHappens
\* The worker stops, and the model stops connecting at MaxConnects.
CHECK_DEADLOCK FALSE
