SPECIFICATION FairSpec
CONSTANTS
    legacy = legacy
    cond = cond
    hold = hold
    stop = stop
    Macros = {legacy, cond, hold, stop}
    Units <- MCUnits
    Kind <- MCKind
    Backspace = "backspace"
    EraseCount <- MCEraseCount
    Commands <- MCCommands
    Replacement <- MCReplacement
    TailKeys <- MCTailKeys
    Then <- MCThen
    Else <- MCElse
    MaxSubmits = 4
INVARIANTS
    TypeOK
    FifoExact
    CancelExact
    LateBound
    ShutdownExact
PROPERTIES
    EveryJobServed
    ShutdownCompletes
    ImplementsService
