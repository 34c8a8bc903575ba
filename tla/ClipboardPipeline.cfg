CONSTANTS
    empty = empty
    draft = draft
    link = link
    Contents <- MCContents
    Empty = empty
    Faults <- MCAllFaults
    MaxPastes = 2
    MaxCopies = 2
SPECIFICATION Spec
INVARIANTS TypeOK Restored PastedExact
CHECK_DEADLOCK FALSE
