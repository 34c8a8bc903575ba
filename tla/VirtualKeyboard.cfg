CONSTANTS
    Keys <- MCKeys
    Modifiers <- MCModifiers
    Ctrl = ctrl
    TapKeys <- MCTapKeys
    Paste = v
    ctrl = ctrl
    alt = alt
    v = v
    a = a
    MaxStrokes = 3
SPECIFICATION Spec
INVARIANTS KeyboardInv PasteExact
PROPERTY UserKeysPlain
CHECK_DEADLOCK FALSE
