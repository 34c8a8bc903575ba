------------------------- MODULE MCMacroDispatcher -------------------------
(***************************************************************************)
(* MacroDispatcher on four hotstrings: one that erases its trigger and     *)
(* pastes through the legacy path with a tail key, one that chooses        *)
(* between branches, one that sleeps and taps a key, and a Cancel hotkey.  *)
(***************************************************************************)
EXTENDS MacroDispatcher, TLC

CONSTANTS legacy, cond, hold, stop

MCUnits == {"backspace", "key", "text", "slice", "branch", "count", "cancel"}

MCKind == [u \in MCUnits |->
    CASE u \in {"backspace", "key"} -> "key"
      [] u = "text" -> "paste"
      [] u = "slice" -> "sleep"
      [] u = "branch" -> "if"
      [] u = "count" -> "silent"
      [] u = "cancel" -> "cancel"]

MCEraseCount == [m \in Macros |-> IF m = legacy THEN 2 ELSE 0]

MCCommands == [m \in Macros |->
    CASE m = legacy -> <<>>
      [] m = cond -> <<"count", "branch">>
      [] m = hold -> <<"slice", "slice", "key">>
      [] m = stop -> <<"cancel">>]

MCReplacement == [m \in Macros |-> IF m = legacy THEN <<"text">> ELSE <<>>]
MCTailKeys == [m \in Macros |-> IF m = legacy THEN <<"key">> ELSE <<>>]
MCThen == [u \in MCUnits |-> IF u = "branch" THEN <<"text", "key">> ELSE <<>>]
MCElse == [u \in MCUnits |-> IF u = "branch" THEN <<"cancel">> ELSE <<>>]
=============================================================================
