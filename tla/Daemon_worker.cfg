SPECIFICATION FairSpec
CONSTANTS
    ctrlL = ctrlL
    ctrlR = ctrlR
    a = a
    b = b
    Keys = {a}
    Modifiers = {}
    Counterpart <- MCCounterpart
    MinTrigger = 1
    RingSlack = 0
    Scripts <- MCHotkeyScripts
    InitialScript <- MCHotkeys
    QueueSize = 3
    MaxEvents = 7
    MaxReloads = 2
INVARIANT
    AncientBound
PROPERTY
    KeyboardAlive
    FailureCloses
CHECK_DEADLOCK FALSE
