--------------------------- MODULE ClipboardProgram ---------------------------
(***************************************************************************)
(* Clipboard::set_text and get_text (src/src/Clipboard.cpp): how the       *)
(* worker has a program take a text (run_with_stdin), or tell one          *)
(* (read_stdout).  They talk through a pipe that holds less than a text    *)
(* may have, and whose ends are known to be closed only by who holds them: *)
(* a reader that waits sees the end of the text when no one holds the end  *)
(* to write, a writer fails when no one holds the end to read.             *)
(*                                                                         *)
(* The program (wl-copy, xclip, xsel, wl-paste) is external.  It may die   *)
(* at any time, and may fail after it took the text; it takes a text only  *)
(* at its end, and succeeds only if it took it.  Texts are told apart by   *)
(* the call they belong to, and only their length is looked at.            *)
(***************************************************************************)
EXTENDS Integers, FiniteSets

CONSTANTS
    MaxSize,        \* the length of the longest text
    Capacity,       \* of a pipe
    MaxCalls        \* bound on the calls

ASSUME ProgramAssumption ==
    MaxSize \in Nat /\ Capacity \in Nat \ {0} /\ MaxCalls \in Nat

VARIABLES
    place,          \* where the worker is in a call
    size,           \* of each call, the length of its text
    call,           \* the number of this one
    moved,          \* bytes the worker has written, or read
    outcome,        \* of the last call: "ok", "told" by a get, or "threw"
    pipe,           \* bytes in the pipe
    readers,        \* who holds the end to read
    writers,        \* who holds the end to write
    program,        \* "none", "runs", how it ended, or "unknown" to the worker
    through,        \* bytes the program has read, or written
    selection       \* the text on it, and how much of it

programVars == <<place, size, call, moved, outcome, pipe, readers, writers,
                 program, through, selection>>

Text(n, bytes) == [of |-> n, bytes |-> bytes]

Ends == {"worker", "program"}
Gone == {"succeeded", "failed", "died"}
Setting == {"set", "piped", "spawned", "writing", "waiting"}
Getting == {"get", "reading", "closing"}
CallPlaces == {"idle", "killed"} \cup Setting \cup Getting

ProgramTypeOK ==
    /\ place \in CallPlaces
    /\ size \in [0 .. MaxCalls -> 0 .. MaxSize]
    /\ call \in 0 .. MaxCalls
    /\ moved \in 0 .. MaxSize
    /\ outcome \in {"none", "ok", "told", "threw"}
    /\ pipe \in 0 .. Capacity
    /\ readers \subseteq Ends
    /\ writers \subseteq Ends
    /\ program \in {"none", "runs"} \cup Gone
    /\ through \in 0 .. MaxSize
    /\ selection \in [of : 0 .. MaxCalls, bytes : 0 .. MaxSize]

ProgramInit ==
    /\ place = "idle"
    /\ \E n \in 0 .. MaxSize :
           /\ size = [c \in 0 .. MaxCalls |-> IF c = 0 THEN n ELSE 0]
           /\ selection = Text(0, n)
    /\ call = 0 /\ moved = 0
    /\ outcome = "none"
    /\ pipe = 0 /\ readers = {} /\ writers = {}
    /\ program = "none" /\ through = 0

----------------------------------------------------------------------------
(* The worker.                                                             *)

BeginCall ==
    /\ place = "idle" /\ call < MaxCalls
    /\ call' = call + 1
    /\ \/ place' = "set" /\ \E n \in 0 .. MaxSize : size' = [size EXCEPT ![call + 1] = n]
       \/ place' = "get" /\ UNCHANGED size
    /\ moved' = 0 /\ through' = 0
    /\ outcome' = "none"
    /\ program' = "none"
    /\ UNCHANGED <<pipe, readers, writers, selection>>

(* A throw: the two Fd close what is open.                                 *)
Throw ==
    /\ place' = "idle"
    /\ outcome' = "threw"
    /\ readers' = readers \ {"worker"}
    /\ writers' = writers \ {"worker"}

(* pipe.                                                                   *)
MakePipe ==
    /\ place = "set"
    /\ \/ /\ place' = "piped" /\ readers' = {"worker"} /\ writers' = {"worker"}
          /\ UNCHANGED outcome
       \/ Throw
    /\ pipe' = 0
    /\ UNCHANGED <<size, call, moved, program, through, selection>>

(* A slip: the program is not told to close the end to write.              *)
Spawn_NoClose ==
    /\ place = "piped"
    /\ \/ /\ place' = "spawned" /\ program' = "runs"
          /\ readers' = Ends /\ writers' = Ends
          /\ UNCHANGED outcome
       \/ Throw /\ UNCHANGED program
    /\ UNCHANGED <<size, call, moved, pipe, through, selection>>

(* posix_spawnp: the program inherits both ends, and closes that to write. *)
Spawn ==
    /\ place = "piped"
    /\ \/ /\ place' = "spawned" /\ program' = "runs"
          /\ readers' = Ends /\ UNCHANGED <<writers, outcome>>
       \/ Throw /\ UNCHANGED program
    /\ UNCHANGED <<size, call, moved, pipe, through, selection>>

(* read_end.reset.                                                         *)
CloseReadEnd ==
    /\ place = "spawned"
    /\ readers' = readers \ {"worker"}
    /\ place' = "writing"
    /\ UNCHANGED <<size, call, moved, outcome, pipe, writers, program, through, selection>>

(* write: as much as the pipe takes, and it waits while that is nothing.   *)
Write ==
    /\ place = "writing" /\ moved < size[call] /\ readers # {}
    /\ \E n \in 1 .. size[call] - moved :
           /\ pipe + n <= Capacity
           /\ pipe' = pipe + n
           /\ moved' = moved + n
    /\ UNCHANGED <<place, size, call, outcome, readers, writers, program, through, selection>>

(* A slip: a write that a signal interrupted throws as well.               *)
WriteThrows_Interrupted ==
    /\ place = "writing" /\ moved < size[call]
    /\ Throw
    /\ UNCHANGED <<size, call, moved, pipe, program, through, selection>>

(* EPIPE, SIGPIPE being ignored.  The program is not waited for.           *)
WriteThrows ==
    /\ place = "writing" /\ moved < size[call] /\ readers = {}
    /\ Throw
    /\ UNCHANGED <<size, call, moved, pipe, program, through, selection>>

CloseWriteEnd ==
    /\ place = "writing" /\ moved = size[call]
    /\ writers' = writers \ {"worker"}
    /\ place' = "waiting"
    /\ UNCHANGED <<size, call, moved, outcome, pipe, readers, program, through, selection>>

(* A slip: the status of the program is not looked at.                     *)
Wait_AnyStatus ==
    /\ place = "waiting" /\ program \in Gone
    /\ place' = "idle"
    /\ outcome' = "ok"
    /\ program' = "none"
    /\ readers' = readers \ {"worker"}
    /\ UNCHANGED <<size, call, moved, pipe, writers, through, selection>>

(* waitpid, without a timeout, and what the status says.                   *)
Wait ==
    /\ place = "waiting" /\ program \in Gone
    /\ place' = "idle"
    /\ outcome' = IF program = "succeeded" THEN "ok" ELSE "threw"
    /\ program' = "none"
    /\ readers' = readers \ {"worker"}
    /\ UNCHANGED <<size, call, moved, pipe, writers, through, selection>>

(* popen; where it fails get_text returns the empty text.                  *)
Popen ==
    /\ place = "get"
    /\ \/ /\ place' = "reading" /\ program' = "runs"
          /\ readers' = {"worker"} /\ writers' = {"program"}
          /\ UNCHANGED outcome
       \/ /\ place' = "idle" /\ outcome' = "told"
          /\ UNCHANGED <<program, readers, writers>>
    /\ pipe' = 0
    /\ UNCHANGED <<size, call, moved, through, selection>>

(* fread, as often as there is something.                                  *)
Read ==
    /\ place = "reading" /\ pipe > 0
    /\ \E n \in 1 .. pipe : pipe' = pipe - n /\ moved' = moved + n
    /\ UNCHANGED <<place, size, call, outcome, readers, writers, program, through, selection>>

(* feof.                                                                   *)
ReadEnds ==
    /\ place = "reading" /\ pipe = 0 /\ writers = {}
    /\ place' = "closing"
    /\ UNCHANGED <<size, call, moved, outcome, pipe, readers, writers, program, through, selection>>

(* pclose waits for the program, and its status is not looked at.          *)
Pclose ==
    /\ place = "closing" /\ program \in Gone
    /\ readers' = {}
    /\ place' = "idle"
    /\ outcome' = "told"
    /\ UNCHANGED <<size, call, moved, pipe, writers, program, through, selection>>

(* The daemon is killed; the kernel closes its ends.                       *)
Killed ==
    /\ place # "killed"
    /\ place' = "killed"
    /\ readers' = readers \ {"worker"}
    /\ writers' = writers \ {"worker"}
    /\ UNCHANGED <<size, call, moved, outcome, pipe, program, through, selection>>

Worker ==
    \/ MakePipe \/ Spawn \/ CloseReadEnd \/ Write \/ WriteThrows \/ CloseWriteEnd \/ Wait
    \/ Popen \/ Read \/ ReadEnds \/ Pclose

----------------------------------------------------------------------------
(* The program.                                                            *)
Takes == program = "runs" /\ "program" \in readers
Tells == program = "runs" /\ "program" \in writers /\ ~Takes

ProgramReads ==
    /\ Takes /\ pipe > 0
    /\ \E n \in 1 .. pipe : pipe' = pipe - n /\ through' = through + n
    /\ UNCHANGED <<place, size, call, moved, outcome, readers, writers, program, selection>>

Exit(how) ==
    /\ program' = how
    /\ readers' = readers \ {"program"}
    /\ writers' = writers \ {"program"}

(* At the end of its input it takes what it read, and may fail even so.    *)
ProgramTakes ==
    /\ Takes /\ pipe = 0 /\ writers = {}
    /\ selection' = Text(call, through)
    /\ Exit("succeeded") \/ Exit("failed")
    /\ UNCHANGED <<place, size, call, moved, outcome, pipe, through>>

ProgramTells ==
    /\ Tells /\ readers # {} /\ through < selection.bytes
    /\ \E n \in 1 .. selection.bytes - through :
           pipe + n <= Capacity /\ pipe' = pipe + n /\ through' = through + n
    /\ UNCHANGED <<place, size, call, moved, outcome, readers, writers, program, selection>>

ProgramToldAll ==
    /\ Tells /\ through = selection.bytes
    /\ Exit("succeeded")
    /\ UNCHANGED <<place, size, call, moved, outcome, pipe, through, selection>>

ProgramDies ==
    /\ program = "runs"
    /\ Exit("died")
    /\ UNCHANGED <<place, size, call, moved, outcome, pipe, through, selection>>

Program == ProgramReads \/ ProgramTakes \/ ProgramTells \/ ProgramToldAll

ProgramNext == BeginCall \/ Worker \/ Killed \/ Program \/ ProgramDies

(* The worker is scheduled, and so is a program that does not hang.        *)
ProgramSpec ==
    /\ ProgramInit /\ [][ProgramNext]_programVars
    /\ WF_programVars(Worker) /\ WF_programVars(Program)

----------------------------------------------------------------------------
(* Properties.                                                             *)

(* Whatever fails, the clipboard never holds a text cut short, unless the  *)
(* daemon was killed while it wrote: the program cannot tell that end from *)
(* the real one, so the worker must not close the pipe before.             *)
NeverCut == place # "killed" => selection.bytes = size[selection.of]

(* No buffer or pipe is overrun, and no text is cut.                       *)
ProgramInv == ProgramTypeOK /\ NeverCut

(* A set_text that returns has put the text there, all of it.              *)
OkIsThere == outcome = "ok" => selection = Text(call, size[call])

(* A get_text that returns gives the clipboard whole, or only what a       *)
(* program that died had said of it (or could not be started to say).      *)
GetExact ==
    outcome = "told" /\ program = "succeeded" => moved = selection.bytes

(* So what a call says when it returns is true.                            *)
CallsTell == OkIsThere /\ GetExact

(* When a call has returned or thrown, its program is gone: it cannot      *)
(* change the clipboard under a later one.                                 *)
NoneLeft == place = "idle" => program # "runs"

(* No call waits for ever for a program that does not hang: neither for    *)
(* the end of a text longer than the pipe, nor for one that died.          *)
Returns == (place # "idle") ~> (place \in {"idle", "killed"})
=============================================================================
