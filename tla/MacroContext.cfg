CONSTANTS
    p = p
    q = q
    Daemons <- MCDaemons
    Names <- MCNames
    TimeNames <- MCTimeNames
    ClockTexts <- MCClockTexts
    Scripts <- MCScripts
    Commands <- MCCommands
    Sheets <- MCSheets
    IntMax = 6
    MaxPasses = 3
    FirstMax = 1
    MaxIssued = 2
    MaxChanges = 3
    MaxMacros = 2
SYMMETRY Symmetric
SPECIFICATION Spec
INVARIANTS TypeOK NumbersConsecutive OwnNumber BranchExact MathExact
CHECK_DEADLOCK FALSE
