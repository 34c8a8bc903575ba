SPECIFICATION Spec
CONSTANTS
    ctrlL = ctrlL
    ctrlR = ctrlR
    a = a
    b = b
    Keys = {ctrlL, ctrlR, a, b}
    Modifiers = {ctrlL, ctrlR}
    Counterpart <- MCCounterpart
    MinTrigger = 1
    RingSlack = 0
    Scripts <- MCScripts
    InitialScript <- MCShort
    QueueSize = 3
    MaxEvents = 5
    MaxReloads = 1
INVARIANTS
    TypeOK
    RingExact
    MatchExact
    NoPhantomModifier
CHECK_DEADLOCK FALSE
