------------------------- MODULE ClipboardPipeline -------------------------
(***************************************************************************)
(* Clipboard::paste_text_synchronously (src/src/Clipboard.cpp): how the    *)
(* macro worker inserts a text.  It saves the clipboard, puts the text     *)
(* there, strikes Ctrl+V, gives the focused application 120 ms to read it  *)
(* and puts back what it saved.                                            *)
(*                                                                         *)
(* The clipboard belongs to the desktop and is reached through programs    *)
(* (wl-copy, xclip, xsel): the application that answers Ctrl+V and the     *)
(* user who copies something else are actors of their own.  Each of these  *)
(* misfortunes may happen, and is remembered:                              *)
(*   "get"    the clipboard cannot be read as text, or not to its end:     *)
(*            get_text returns less, and mostly nothing                      *)
(*   "set"    set_text throws, before or after the program took the text   *)
(*   "combo"  a write of Ctrl+V to uinput fails, before or after its V     *)
(*   "copy"   the user copies something while a paste is under way         *)
(*   "slow"   the application reads the clipboard after the 120 ms         *)
(***************************************************************************)
EXTENDS Integers, Sequences

CONSTANTS
    Contents,       \* what a clipboard may hold
    Empty,          \* one of them, the empty text
    Faults,         \* what may go wrong
    MaxPastes,      \* bound on the texts inserted
    MaxCopies       \* bound on what the user copies

ASSUME ClipboardAssumption ==
    /\ Empty \in Contents
    /\ Faults \subseteq {"get", "set", "combo", "copy", "slow"}
    /\ MaxPastes \in Nat
    /\ MaxCopies \in Nat

VARIABLES
    pc,             \* where paste_text_synchronously is
    text,           \* its argument
    saved,          \* old_clipboard
    clipboard,      \* the clipboard of the desktop
    requests,       \* Ctrl+V struck and not answered: the texts meant
    pasted,         \* what the application inserted, and what was meant
    own,            \* what the user copied last
    misfortunes,    \* what has gone wrong so far
    pastes, copies  \* how many there were

vars == <<pc, text, saved, clipboard, requests, pasted, own, misfortunes,
          pastes, copies>>

Misfortune(f) == f \in Faults /\ misfortunes' = misfortunes \cup {f}

Places == {"idle", "save", "set", "combo", "settle", "restore", "undo"}

(* Ctrl+V were struck at most once a paste, the one under way not before   *)
(* its text is on the clipboard.                                           *)
StruckOnce ==
    Len(requests) + Len(pasted) + (IF pc \in {"save", "set", "combo"} THEN 1 ELSE 0)
        <= pastes

TypeOK ==
    /\ pc \in Places
    /\ text \in Contents
    /\ saved \in Contents
    /\ clipboard \in Contents
    /\ requests \in Seq(Contents)
    /\ pasted \in Seq([meant : Contents, got : Contents])
    /\ own \in Contents
    /\ misfortunes \subseteq Faults
    /\ pastes \in 0 .. MaxPastes
    /\ copies \in 0 .. MaxCopies
    /\ StruckOnce

Init ==
    /\ pc = "idle"
    /\ text = Empty
    /\ saved = Empty
    /\ clipboard \in Contents
    /\ requests = <<>>
    /\ pasted = <<>>
    /\ own = clipboard
    /\ misfortunes = {}
    /\ pastes = 0
    /\ copies = 0

----------------------------------------------------------------------------
(* The worker.                                                             *)

(* SendInput, or the replacement of a hotstring without commands.          *)
Begin ==
    /\ pc = "idle"
    /\ pastes < MaxPastes
    /\ text' \in Contents
    /\ pastes' = pastes + 1
    /\ pc' = "save"
    /\ UNCHANGED <<saved, clipboard, requests, pasted, own, misfortunes, copies>>

(* get_text: where it fails it returns what it has, any text.              *)
GetText ==
    /\ pc = "save"
    /\ \/ saved' = clipboard /\ UNCHANGED misfortunes
       \/ saved' \in Contents /\ Misfortune("get")
    /\ pc' = "set"
    /\ UNCHANGED <<text, clipboard, requests, pasted, own, pastes, copies>>

SetText ==
    /\ pc = "set"
    /\ clipboard' = text
    /\ pc' = "combo"
    /\ UNCHANGED <<text, saved, requests, pasted, own, misfortunes, pastes, copies>>

(* A throw of the first set_text leaves the function: it is not in the try *)
(* block.  The program may have taken the text before it failed.           *)
SetTextThrows ==
    /\ Misfortune("set")
    /\ pc = "set"
    /\ clipboard' \in {clipboard, text}
    /\ pc' = "idle"
    /\ UNCHANGED <<text, saved, requests, pasted, own, pastes, copies>>

(* A slip: Ctrl+V is written once more if it was not answered.             *)
StrikePaste_Retried ==
    /\ pc = "combo"
    /\ requests' = Append(requests, text)
    /\ pc' \in {"combo", "settle"}
    /\ UNCHANGED <<text, saved, clipboard, pasted, own, misfortunes, pastes, copies>>

(* hold_combo_and_tap.                                                     *)
StrikePaste ==
    /\ pc = "combo"
    /\ requests' = Append(requests, text)
    /\ pc' = "settle"
    /\ UNCHANGED <<text, saved, clipboard, pasted, own, misfortunes, pastes, copies>>

(* A slip: the exception of a failed write passes by without the restore.  *)
StrikePasteThrows_NoUndo ==
    /\ Misfortune("combo")
    /\ pc = "combo"
    /\ requests' \in {requests, Append(requests, text)}
    /\ pc' = "idle"
    /\ UNCHANGED <<text, saved, clipboard, pasted, own, pastes, copies>>

(* The catch block is entered, and the wait is skipped.                    *)
StrikePasteThrows ==
    /\ Misfortune("combo")
    /\ pc = "combo"
    /\ requests' \in {requests, Append(requests, text)}
    /\ pc' = "undo"
    /\ UNCHANGED <<text, saved, clipboard, pasted, own, pastes, copies>>

(* A slip: the clipboard is restored without the wait.                     *)
Settle_NoWait ==
    /\ pc = "settle"
    /\ pc' = "restore"
    /\ UNCHANGED <<text, saved, clipboard, requests, pasted, own, misfortunes,
                   pastes, copies>>

(* The 120 ms are over.  An application that is not slow has answered.     *)
Settle ==
    /\ pc = "settle"
    /\ \/ requests = <<>> /\ UNCHANGED misfortunes
       \/ requests # <<>> /\ Misfortune("slow")
    /\ pc' = "restore"
    /\ UNCHANGED <<text, saved, clipboard, requests, pasted, own, pastes, copies>>

(* The second set_text, or the one of the catch block.                     *)
Restore ==
    /\ pc \in {"restore", "undo"}
    /\ clipboard' = saved
    /\ pc' = "idle"
    /\ UNCHANGED <<text, saved, requests, pasted, own, misfortunes, pastes, copies>>

(* Either way what it throws ends in the handler of macro_worker_loop.     *)
RestoreThrows ==
    /\ Misfortune("set")
    /\ pc \in {"restore", "undo"}
    /\ clipboard' \in {clipboard, saved}
    /\ pc' = "idle"
    /\ UNCHANGED <<text, saved, requests, pasted, own, pastes, copies>>

----------------------------------------------------------------------------
(* The focused application and the user.                                   *)
Answer ==
    /\ requests # <<>>
    /\ pasted' = Append(pasted, [meant |-> Head(requests), got |-> clipboard])
    /\ requests' = Tail(requests)
    /\ UNCHANGED <<pc, text, saved, clipboard, own, misfortunes, pastes, copies>>

Copy ==
    /\ \/ pc = "idle" /\ UNCHANGED misfortunes
       \/ pc # "idle" /\ Misfortune("copy")
    /\ copies < MaxCopies
    /\ \E c \in Contents : clipboard' = c /\ own' = c
    /\ copies' = copies + 1
    /\ UNCHANGED <<pc, text, saved, requests, pasted, pastes>>

Next ==
    \/ Begin \/ GetText \/ SetText \/ SetTextThrows
    \/ StrikePaste \/ StrikePasteThrows \/ Settle \/ Restore \/ RestoreThrows
    \/ Answer \/ Copy

Spec == Init /\ [][Next]_vars

----------------------------------------------------------------------------
(* Properties.                                                             *)

(* After every paste the clipboard holds again what the user copied last,  *)
(* as long as nothing worse has happened than a Ctrl+V that could not be   *)
(* written.                                                                *)
Restored == pc = "idle" /\ misfortunes \subseteq {"combo"} => clipboard = own

(* The application inserts the text of the macro, however the clipboard's  *)
(* programs fail: the text is there before Ctrl+V and until it was read,   *)
(* and a paste that failed to put it there strikes nothing.                *)
PastedExact ==
    misfortunes \subseteq {"get", "set"} =>
        \A i \in DOMAIN pasted : pasted[i].got = pasted[i].meant
=============================================================================
