------------------------------ MODULE MCDaemon ------------------------------
(***************************************************************************)
(* Daemon on two scripts: the first has a hotkey and two triggers, one the *)
(* end of the other; the second needs a longer ring, and has an interrupt. *)
(***************************************************************************)
EXTENDS Daemon

CONSTANTS ctrlL, ctrlR, a, b

MCCounterpart == [m \in Modifiers |-> IF m = ctrlL THEN ctrlR ELSE ctrlL]

Hotstring(trigger, mods, interrupt) ==
    [trigger |-> trigger, mods |-> mods, interrupt |-> interrupt]

MCShort == << Hotstring(<<b>>, {}, FALSE), Hotstring(<<a, b>>, {}, FALSE),
              Hotstring(<<a>>, {ctrlL}, FALSE) >>
MCLong == << Hotstring(<<a, b, a>>, {}, FALSE), Hotstring(<<b, b>>, {}, TRUE) >>
MCHotkeys == << Hotstring(<<a>>, {}, FALSE) >>

MCScripts == {MCShort, MCLong}
MCHotkeyScripts == {MCHotkeys}
=============================================================================
