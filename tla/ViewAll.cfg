\* All views of two segments.
SPECIFICATION FairSpec
CONSTANTS
    NULL = NULL
    MaxSegments = 2
    Views <- MCViews
    Assets <- MCAssets
    Functions <- MCFunctions
    Globals <- MCGlobals
    Sessions <- MCSessions
    Predefined <- MCPredefined
    Args <- MCArgs
INVARIANTS TypeOK Rendered
PROPERTIES Terminates
\* A page that is answered is done with.
CHECK_DEADLOCK FALSE
