CONSTANTS
    MaxSize = 5
    Capacity = 2
    MaxCalls = 3
SPECIFICATION ProgramSpec
INVARIANTS ProgramInv CallsTell NoneLeft
PROPERTY Returns
CHECK_DEADLOCK FALSE
