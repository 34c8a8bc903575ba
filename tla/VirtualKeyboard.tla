-------------------------- MODULE VirtualKeyboard --------------------------
(***************************************************************************)
(* The virtual keyboard (src/src/UinputKeyboard.cpp), written to by two    *)
(* threads: the main thread forwards the physical events, the macro worker *)
(* taps keys and the Ctrl+V of a paste.  One mutex covers each operation;  *)
(* every write to uinput, of a key event or of the SYN_REPORT after some,  *)
(* is a step, and any of them may fail.                                    *)
(*                                                                         *)
(* The kernel is external: it drops a press of a key that is down already  *)
(* and a release of a key that is up, so the device has one state per key  *)
(* however many threads press it.                                          *)
(***************************************************************************)
EXTENDS Integers, Sequences, FiniteSets

CONSTANTS
    Keys,           \* the keys of the user's keyboard
    Modifiers,      \* those of them applications read as modifiers
    Ctrl,           \* KEY_LEFTCTRL, one of them
    TapKeys,        \* the keys macros tap
    Paste,          \* KEY_V
    MaxStrokes      \* bound on the operations of each thread

Codes == Keys \cup TapKeys \cup {Paste}

(* The V is left to pastes, so that they can be told from taps.            *)
ASSUME KeyboardAssumption ==
    /\ Modifiers \subseteq Keys
    /\ Ctrl \in Modifiers
    /\ Paste \notin TapKeys \cup Modifiers
    /\ "SYN_REPORT" \notin Codes
    /\ MaxStrokes \in Nat

Threads == {"main", "worker"}

VARIABLES
    held,       \* the keys physically down, as far as they were forwarded
    down,       \* the keys of the virtual device that are down
    owner,      \* who holds Impl::mutex: a sequence of at most one thread
    writes,     \* [thread] the events it has still to write
    ops,        \* [thread] operations begun, to bound them
    struck,     \* the keys applications saw struck: who, code, modifiers
    pastes,     \* Ctrl+V begun while the V of the device was up
    failed,     \* a write has failed
    crashed     \* the main thread was left by an exception

vars == <<held, down, owner, writes, ops, struck, pastes, failed, crashed>>

Event(code, value) == [code |-> code, value |-> value]
Sync == Event("SYN_REPORT", 0)
Events == [code : Codes, value : {0, 1}] \cup {Sync}

TypeOK ==
    /\ held \subseteq Keys
    /\ down \subseteq Codes
    /\ owner \in {<<>>} \cup {<<t>> : t \in Threads}
    /\ writes \in [Threads -> Seq(Events)]
    /\ \A t \in Threads : writes[t] # <<>> => owner = <<t>>
    /\ ops \in [Threads -> 0 .. MaxStrokes]
    /\ struck \in Seq([by : Threads, code : Codes, mods : SUBSET Modifiers])
    /\ pastes \in 0 .. MaxStrokes
    /\ failed \in BOOLEAN
    /\ crashed \in BOOLEAN

Init ==
    /\ held = {}
    /\ down = {}
    /\ owner = <<>>
    /\ writes = [t \in Threads |-> <<>>]
    /\ ops = [t \in Threads |-> 0]
    /\ struck = <<>>
    /\ pastes = 0
    /\ failed = FALSE
    /\ crashed = FALSE

----------------------------------------------------------------------------
(* Taking the mutex with the events of one operation to write.             *)
Lock(t, events) ==
    /\ owner = <<>>
    /\ ops[t] < MaxStrokes
    /\ owner' = <<t>>
    /\ writes' = [writes EXCEPT ![t] = events]
    /\ ops' = [ops EXCEPT ![t] = @ + 1]
    /\ UNCHANGED <<down, struck, failed, crashed>>

(* The main thread forwards a press or a release it has read.              *)
Forward(k) ==
    /\ ~crashed
    /\ held' = IF k \in held THEN held \ {k} ELSE held \cup {k}
    /\ Lock("main", << Event(k, IF k \in held THEN 0 ELSE 1), Sync >>)
    /\ UNCHANGED pastes

(* tap, of the keys of SendInput, the backspaces and the tail keys.        *)
Tap(k) ==
    /\ Lock("worker", << Event(k, 1), Sync, Event(k, 0), Sync >>)
    /\ UNCHANGED <<held, pastes>>

(* A slip: the modifier of the combination is not released.                *)
HoldComboAndTap_KeepsModifier ==
    /\ Lock("worker", << Event(Ctrl, 1), Event(Paste, 1), Sync,
                         Event(Paste, 0), Sync >>)
    /\ pastes' = IF Paste \in down THEN pastes ELSE pastes + 1
    /\ UNCHANGED held

(* hold_combo_and_tap({KEY_LEFTCTRL}, KEY_V).                              *)
HoldComboAndTap ==
    /\ Lock("worker", << Event(Ctrl, 1), Event(Paste, 1), Sync,
                         Event(Paste, 0), Event(Ctrl, 0), Sync >>)
    /\ pastes' = IF Paste \in down THEN pastes ELSE pastes + 1
    /\ UNCHANGED held

(* The kernel turns a press into a change of state or drops it; an         *)
(* application sees the press of an ordinary key with the modifiers then   *)
(* down.                                                                   *)
Input(t, e) ==
    IF e = Sync
      THEN UNCHANGED <<down, struck>>
      ELSE /\ down' = IF e.value = 1 THEN down \cup {e.code} ELSE down \ {e.code}
           /\ struck' = IF e.value = 1 /\ e.code \notin down \cup Modifiers
                          THEN Append(struck, [by |-> t, code |-> e.code,
                                               mods |-> down \cap Modifiers])
                          ELSE struck

(* A slip: the mutex covers each write and not the operation.              *)
Emit_UnlockedBetween(t) ==
    /\ writes[t] # <<>>
    /\ Input(t, Head(writes[t]))
    /\ writes' = [writes EXCEPT ![t] = Tail(@)]
    /\ owner' = <<>>
    /\ UNCHANGED <<held, ops, pastes, failed, crashed>>

(* One write.  The mutex is released after the last.                       *)
Emit(t) ==
    /\ writes[t] # <<>>
    /\ Input(t, Head(writes[t]))
    /\ writes' = [writes EXCEPT ![t] = Tail(@)]
    /\ owner' = IF Tail(writes[t]) = <<>> THEN <<>> ELSE owner
    /\ UNCHANGED <<held, ops, pastes, failed, crashed>>

(* A short write throws: the rest of the operation is skipped, and the     *)
(* mutex released.  The worker gives up the macro, the main thread run().  *)
EmitFails(t) ==
    /\ writes[t] # <<>>
    /\ writes' = [writes EXCEPT ![t] = <<>>]
    /\ owner' = <<>>
    /\ failed' = TRUE
    /\ crashed' = (crashed \/ t = "main")
    /\ UNCHANGED <<held, down, ops, struck, pastes>>

Next ==
    \/ \E k \in Keys : Forward(k)
    \/ \E k \in TapKeys : Tap(k)
    \/ HoldComboAndTap
    \/ \E t \in Threads : Emit(t) \/ EmitFails(t)

Spec == Init /\ [][Next]_vars

----------------------------------------------------------------------------
(* Properties.                                                             *)

Quiet == owner = <<>>
Pastes == {i \in DOMAIN struck : struck[i].by = "worker" /\ struck[i].code = Paste}

(* Every V of a paste is struck with Ctrl down, whatever writes fail: no   *)
(* forwarded release of the user's own Ctrl falls between the two, and no  *)
(* V is typed as text.                                                     *)
PasteHasCtrl == \A i \in Pastes : Ctrl \in struck[i].mods

(* As long as no write has failed, no key the user struck is seen with a   *)
(* modifier he did not hold: the Ctrl of a paste never turns a letter he   *)
(* types meanwhile into a shortcut.                                        *)
UserKeysPlain ==
    [][(struck' # struck /\ struck'[Len(struck')].by = "main" /\ ~failed)
         => struck'[Len(struck')].mods \subseteq held]_vars

(* As long as no write has failed, no key stays down that the user does    *)
(* not hold, in whatever order the two threads press the same keys.        *)
NothingStuck == Quiet /\ ~failed => down \subseteq held

(* Only the owner of the mutex has something to write, and nothing sticks. *)
KeyboardInv == TypeOK /\ NothingStuck

(* Every Ctrl+V is struck, once, whatever the user types meanwhile, unless *)
(* he holds the V when it begins: then the kernel drops the press, also    *)
(* that of a hotstring whose trigger ends in V.                            *)
PasteArrives == Quiet /\ ~failed => Cardinality(Pastes) = pastes

(* Both: a paste is struck, and struck as Ctrl+V.                          *)
PasteExact == PasteHasCtrl /\ PasteArrives
=============================================================================
