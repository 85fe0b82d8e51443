\* Two workers, one user, two tokens.
SPECIFICATION Spec
CONSTANTS
    Workers = {w1, w2}
    UIDS_PER_TICK = 2
    Resolution = 2
    MaxTime = 3
    MaxBacks = 1
    Users = {u1}
    Secrets = {s1, s2, s3}
    Quoted = Quoted
    NoHash = NoHash
    Confs <- MCConfs
    PerSecond = 2
    MaxTokens = 2
    MaxSets = 1
INVARIANTS TypeOK SecretKept OnlyOwners TokensDistinct
PROPERTIES LivesItsTime
SYMMETRY Alike
\* A run is not followed beyond a query that left its quotes.
CONSTRAINT AsMeant
\* The clock and what is done are bounded.
CHECK_DEADLOCK FALSE
