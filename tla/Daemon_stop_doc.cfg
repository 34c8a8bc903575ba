SPECIFICATION FairSpec
CONSTANTS
    ctrlL = ctrlL
    ctrlR = ctrlR
    a = a
    b = b
    Keys = {a}
    Modifiers = {}
    Counterpart <- MCCounterpart
    MinTrigger = 1
    RingSlack = 0
    Scripts <- MCHotkeyScripts
    InitialScript <- MCHotkeys
    QueueSize = 2
    MaxEvents = 2
    MaxReloads = 1
PROPERTY
    StopEnds
CHECK_DEADLOCK FALSE
