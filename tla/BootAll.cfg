\* Every file and environment of the instance, reloaded with every other one.
SPECIFICATION FairSpec
CONSTANTS
    Files <- BootFiles
    Environments <- BootEnvironments
    Words = {"0", "1", "true", "3600", "a", "b", "name", "=", "[", "dbrw"}
    Durations = {"3600"}
    NONE = NONE
    MaxReloads = 1
INVARIANTS TypeOK ConfigAsWritten Complete LoginHasDatabase
PROPERTIES BootEnds
\* An abort ends the process, and the model stops at MaxReloads.
CHECK_DEADLOCK FALSE
