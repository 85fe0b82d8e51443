\* Branches after @else are shown.
SPECIFICATION FairSpec
CONSTANTS
    NULL = NULL
    MaxSegments = 2
    Views <- MCViews
    Assets <- MCAssets
    Functions <- MCFunctions
    Globals <- MCGlobals
    Sessions <- MCSessions
    Predefined <- MCPredefined
    Args <- MCArgs
INVARIANTS ElseShown
\* A page that is answered is done with.
CHECK_DEADLOCK FALSE
