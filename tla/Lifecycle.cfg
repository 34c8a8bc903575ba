CONSTANTS
    d1 = d1
    d2 = d2
    d3 = d3
    Daemons <- MCDaemons
    Faults <- MCAllFaults
SPECIFICATION Spec
INVARIANTS TurnsKept NameRemoved CrashRecovers
CHECK_DEADLOCK FALSE
