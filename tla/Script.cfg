CONSTANTS
    Levels <- MCLevels
    Programs <- MCPrograms
    Others <- MCOthers
SPECIFICATION ReferenceSpec
INVARIANTS ReaderInv TriggersAccounted ReadsWhatIsWritten
CHECK_DEADLOCK FALSE
