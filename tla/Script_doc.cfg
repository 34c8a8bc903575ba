CONSTANTS
    Levels <- MCLevels
    Programs <- MCNoPrograms
    Others <- MCDocumented
SPECIFICATION ReferenceSpec
INVARIANT DocumentedScriptsLoad
CHECK_DEADLOCK FALSE
