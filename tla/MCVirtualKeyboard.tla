------------------------- MODULE MCVirtualKeyboard -------------------------
(* A keyboard of two modifiers, the V of the paste and a letter, which the *)
(* macros tap as well as the user.                                         *)
EXTENDS VirtualKeyboard
CONSTANTS ctrl, alt, v, a
MCKeys == {ctrl, alt, v, a}
MCModifiers == {ctrl, alt}
MCTapKeys == {a}
=============================================================================
