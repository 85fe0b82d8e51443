\* Every request of every route, one after another, across a reload.
SPECIFICATION Spec
CONSTANTS
    c1 = c1
    c2 = c2
    Conns = {c1}
    Requests <- AllRequests
    Settings <- AllSettings
    SlowFrom = 2
    SlowerFrom = 3
    Width = 8
    MaxConnects = 2
    MaxReloads = 1
    NULL = NULL
INVARIANTS TypeOK AnsweredOnce GuardedPage
PROPERTIES LossIsExact StatusFlagHonest
\* The worker stops, and the model stops connecting at MaxConnects.
CHECK_DEADLOCK FALSE
