\* A reload with a variable in the environment.
SPECIFICATION Spec
CONSTANTS
    Files <- FewFiles
    Environments <- SectionVariables
    Words = {"0", "1", "true", "3600", "a", "b", "name", "=", "[", "dbrw"}
    Durations = {"3600"}
    NONE = NONE
    MaxReloads = 1
INVARIANTS EnvironmentKept
\* An abort ends the process, and the model stops at MaxReloads.
CHECK_DEADLOCK FALSE
