--------------------------- MODULE ClipboardProofs ---------------------------
(***************************************************************************)
(* What the two machines of the clipboard promise.  ClipboardPipeline, for *)
(* any contents, any number of pastes and of copies: each promise holds    *)
(* until something happens that it does not survive.  ClipboardProgram,    *)
(* for texts of any length, a pipe of any capacity and any number of       *)
(* calls, whatever the program does and wherever the daemon is killed.     *)
(***************************************************************************)
EXTENDS ClipboardPipeline, ClipboardProgram, TLAPS

----------------------------------------------------------------------------
(* Sequences.                                                              *)

(* A queue of requests stays a sequence when one is added or answered, and *)
(* holds nothing that was not there or is not the one added.               *)
LEMMA QueueFacts ==
    ASSUME NEW S, NEW s \in Seq(S), NEW e \in S
    PROVE  /\ Append(s, e) \in Seq(S)
           /\ Len(s) \in Nat
           /\ Len(Append(s, e)) = Len(s) + 1
           /\ \A i \in DOMAIN Append(s, e) :
                  (i \in DOMAIN s /\ Append(s, e)[i] = s[i]) \/ Append(s, e)[i] = e
           /\ s # <<>> => /\ Head(s) \in S
                          /\ Head(s) = s[1]
                          /\ 1 \in DOMAIN s
                          /\ Tail(s) \in Seq(S)
                          /\ Len(Tail(s)) = Len(s) - 1
                          /\ \A i \in DOMAIN Tail(s) :
                                 i + 1 \in DOMAIN s /\ Tail(s)[i] = s[i + 1]
  OBVIOUS

----------------------------------------------------------------------------
(* The variables have their types, whatever goes wrong.                    *)

LEMMA TypeStep == TypeOK /\ [Next]_vars => TypeOK'
<1> SUFFICES ASSUME TypeOK, [Next]_vars PROVE TypeOK'
  OBVIOUS
<1> USE ClipboardAssumption DEF TypeOK, Places, StruckOnce, Misfortune
<1>1. CASE Begin
  BY <1>1 DEF Begin
<1>2. CASE GetText
  BY <1>2 DEF GetText
<1>3. CASE SetText
  BY <1>3 DEF SetText
<1>4. CASE SetTextThrows
  BY <1>4 DEF SetTextThrows
<1>5. CASE StrikePaste
  BY <1>5 DEF StrikePaste
<1>6. CASE StrikePasteThrows
  BY <1>6 DEF StrikePasteThrows
<1>7. CASE Settle
  BY <1>7 DEF Settle
<1>8. CASE Restore
  BY <1>8 DEF Restore
<1>9. CASE RestoreThrows
  BY <1>9 DEF RestoreThrows
<1>10. CASE Answer
  <2>1. requests \in Seq(Contents) /\ requests # <<>>
    BY <1>10 DEF Answer
  <2>2. Head(requests) \in Contents /\ Tail(requests) \in Seq(Contents)
    BY <2>1, QueueFacts
  <2>3. [meant |-> Head(requests), got |-> clipboard]
          \in [meant : Contents, got : Contents]
    BY <2>2
  <2>4. pasted' \in Seq([meant : Contents, got : Contents])
    BY <2>3, <1>10, QueueFacts DEF Answer
  <2> QED
    BY <2>2, <2>4, <1>10 DEF Answer
<1>11. CASE Copy
  <2>1. misfortunes' \subseteq Faults
    BY <1>11 DEF Copy
  <2>2. clipboard' \in Contents /\ own' \in Contents /\ copies' \in 0 .. MaxCopies
    BY <1>11 DEF Copy
  <2> QED
    BY <2>1, <2>2, <1>11 DEF Copy
<1>12. CASE UNCHANGED vars
  BY <1>12 DEF vars
<1> QED
  BY <1>1, <1>2, <1>3, <1>4, <1>5, <1>6, <1>7, <1>8, <1>9, <1>10, <1>11, <1>12
     DEF Next

LEMMA TypeInit == Init => TypeOK
  BY ClipboardAssumption DEF Init, TypeOK, Places, StruckOnce

(* Type correctness of the paste, under every set of faults.               *)
THEOREM TypeCorrect == Spec => []TypeOK
  BY TypeInit, TypeStep, PTL DEF Spec

----------------------------------------------------------------------------
(* While the pipeline is at work, what it saved is what the user copied    *)
(* last; before it has saved, the clipboard still holds it.                *)
Kept ==
    misfortunes \subseteq {"combo"} =>
        /\ pc \in {"idle", "save", "set"} => clipboard = own
        /\ pc \in {"set", "combo", "settle", "restore", "undo"} => saved = own

LEMMA KeptStep ==
    ASSUME TypeOK, Kept, [Next]_vars
    PROVE  Kept'
<1> USE DEF Kept, Misfortune
<1>1. CASE Begin
  BY <1>1 DEF Begin
<1>2. CASE GetText
  <2>1. CASE saved' = clipboard /\ misfortunes' = misfortunes
    BY <1>2, <2>1 DEF GetText
  <2>2. CASE Misfortune("get")
    BY <2>2
  <2> QED
    BY <1>2, <2>1, <2>2 DEF GetText
<1>3. CASE SetText
  BY <1>3 DEF SetText
<1>4. CASE SetTextThrows
  BY <1>4 DEF SetTextThrows
<1>5. CASE StrikePaste
  BY <1>5 DEF StrikePaste
<1>6. CASE StrikePasteThrows
  BY <1>6 DEF StrikePasteThrows
<1>7. CASE Settle
  BY <1>7 DEF Settle
<1>8. CASE Restore
  BY <1>8 DEF Restore
<1>9. CASE RestoreThrows
  BY <1>9 DEF RestoreThrows
<1>10. CASE Answer
  BY <1>10 DEF Answer
<1>11. CASE Copy
  BY <1>11 DEF Copy
<1>12. CASE UNCHANGED vars
  BY <1>12 DEF vars
<1> QED
  BY <1>1, <1>2, <1>3, <1>4, <1>5, <1>6, <1>7, <1>8, <1>9, <1>10, <1>11, <1>12
     DEF Next

(* As long as nothing worse has happened than a Ctrl+V that could not be   *)
(* written, the clipboard is the user's again after every paste.           *)
THEOREM Restoring == Spec => []Restored
<1>1. Init => Kept
  BY DEF Init, Kept
<1>2. TypeOK /\ Kept /\ [Next]_vars => Kept'
  BY KeptStep
<1>3. Kept => Restored
  BY DEF Kept, Restored
<1> QED
  BY <1>1, <1>2, <1>3, TypeCorrect, PTL DEF Spec

----------------------------------------------------------------------------
(* A Ctrl+V is unanswered only while the pipeline waits, and for the text  *)
(* that is on the clipboard.                                               *)
Awaited ==
    misfortunes \subseteq {"get", "set"} =>
        /\ requests # <<>> => pc = "settle"
        /\ pc \in {"combo", "settle"} => clipboard = text
        /\ \A i \in DOMAIN requests : requests[i] = text

LEMMA AwaitedStep ==
    ASSUME TypeOK, Awaited, [Next]_vars
    PROVE  Awaited'
<1> requests \in Seq(Contents) /\ text \in Contents
  BY DEF TypeOK
<1> USE DEF Awaited, Misfortune
<1>1. CASE Begin
  BY <1>1 DEF Begin
<1>2. CASE GetText
  BY <1>2 DEF GetText
<1>3. CASE SetText
  BY <1>3 DEF SetText
<1>4. CASE SetTextThrows
  BY <1>4 DEF SetTextThrows
<1>5. CASE StrikePaste
  BY <1>5, QueueFacts DEF StrikePaste
<1>6. CASE StrikePasteThrows
  BY <1>6 DEF StrikePasteThrows
<1>7. CASE Settle
  BY <1>7 DEF Settle
<1>8. CASE Restore
  BY <1>8 DEF Restore
<1>9. CASE RestoreThrows
  BY <1>9 DEF RestoreThrows
<1>10. CASE Answer
  BY <1>10, QueueFacts DEF Answer
<1>11. CASE Copy
  <2>1. CASE pc = "idle" /\ misfortunes' = misfortunes
    BY <1>11, <2>1 DEF Copy
  <2>2. CASE Misfortune("copy")
    BY <2>2
  <2> QED
    BY <1>11, <2>1, <2>2 DEF Copy
<1>12. CASE UNCHANGED vars
  BY <1>12 DEF vars
<1> QED
  BY <1>1, <1>2, <1>3, <1>4, <1>5, <1>6, <1>7, <1>8, <1>9, <1>10, <1>11, <1>12
     DEF Next

LEMMA PastedStep ==
    ASSUME TypeOK, Awaited, PastedExact, [Next]_vars
    PROVE  PastedExact'
<1>1. CASE Answer
  <2> SUFFICES ASSUME misfortunes' \subseteq {"get", "set"}, NEW i \in DOMAIN pasted'
               PROVE  pasted'[i].got = pasted'[i].meant
    BY DEF PastedExact
  <2>1. misfortunes \subseteq {"get", "set"}
    BY <1>1 DEF Answer
  <2>2. requests \in Seq(Contents) /\ requests # <<>>
    BY <1>1 DEF Answer, TypeOK
  <2>3. Head(requests) = clipboard /\ Head(requests) \in Contents
    BY <2>1, <2>2, QueueFacts DEF Awaited
  <2> DEFINE answer == [meant |-> Head(requests), got |-> clipboard]
  <2>4. pasted \in Seq([meant : Contents, got : Contents])
        /\ answer \in [meant : Contents, got : Contents]
    BY <2>3 DEF TypeOK
  <2>5. pasted' = Append(pasted, answer)
    BY <1>1 DEF Answer
  <2>6. answer.got = answer.meant
    BY <2>3
  <2> HIDE DEF answer
  <2>7. (i \in DOMAIN pasted /\ pasted'[i] = pasted[i]) \/ pasted'[i] = answer
    BY <2>4, <2>5, QueueFacts
  <2> QED
    BY <2>1, <2>6, <2>7 DEF PastedExact
<1>2. CASE ~Answer
  <2>1. pasted' = pasted /\ misfortunes \subseteq misfortunes'
    BY <1>2 DEF Next, Begin, GetText, SetText, SetTextThrows, StrikePaste,
       StrikePasteThrows, Settle, Restore, RestoreThrows, Copy, vars, Misfortune
  <2> QED
    BY <2>1 DEF PastedExact
<1> QED
  BY <1>1, <1>2

(* Whatever the clipboard programs do, an application that answers Ctrl+V  *)
(* within the wait inserts the text of the macro.                          *)
THEOREM Pasting == Spec => []PastedExact
<1>1. Init => Awaited /\ PastedExact
  BY DEF Init, Awaited, PastedExact
<1>2. TypeOK /\ Awaited /\ [Next]_vars => Awaited'
  BY AwaitedStep
<1>3. TypeOK /\ Awaited /\ PastedExact /\ [Next]_vars => PastedExact'
  BY PastedStep
<1> QED
  BY <1>1, <1>2, <1>3, TypeCorrect, PTL DEF Spec

----------------------------------------------------------------------------
(* The invariant.                                                          *)

(* The program holds its end of the pipe as long as it runs.               *)
Held == IF program = "runs" THEN {"program"} ELSE {}

(* Between two calls, and before a call has opened anything.               *)
Apart ==
    /\ place \in {"idle", "set", "get"} =>
           program # "runs" /\ readers = {} /\ writers = {}
    /\ place \in {"set", "get", "piped"} => program = "none"
    /\ place \in {"set", "get", "piped", "spawned"} => moved = 0 /\ through = 0
    /\ place = "piped" =>
           /\ pipe = 0 /\ readers = {"worker"} /\ writers = {"worker"}

(* A set: all bytes written are in the pipe or with the program, who sees  *)
(* no end of them before the worker has written them all.                  *)
Sets ==
    /\ place \in {"spawned", "writing"} =>
           program \in {"runs", "died"} /\ writers = {"worker"}
    /\ place = "spawned" => readers = {"worker"} \cup Held /\ pipe = 0
    /\ place \in {"writing", "waiting"} =>
           /\ readers = Held
           /\ moved <= size[call] /\ through + pipe = moved
    /\ place = "waiting" =>
           /\ writers = {} /\ program # "none"
           /\ moved = size[call]
           /\ program = "succeeded" => selection = Text(call, size[call])

(* A get: all bytes told are in the pipe or with the worker, who sees no   *)
(* end of them before the program is gone.                                 *)
Gets ==
    /\ place \in {"reading", "closing"} =>
           /\ program \in {"runs", "succeeded", "died"}
           /\ readers = {"worker"} /\ writers = Held
           /\ moved + pipe = through /\ through <= selection.bytes
           /\ program = "succeeded" => through = selection.bytes
    /\ place = "closing" => pipe = 0 /\ program # "runs"

(* The daemon was killed, and the program goes on with what is in the pipe. *)
Orphan ==
    place = "killed" =>
        /\ "worker" \notin readers
        /\ "program" \in readers => through + pipe <= MaxSize

Outcomes ==
    /\ outcome # "none" => place \in {"idle", "killed"} /\ program # "runs"
    /\ selection.of <= call

IInv ==
    /\ ProgramTypeOK /\ Apart /\ Sets /\ Gets /\ Orphan /\ Outcomes
    /\ NeverCut /\ CallsTell
LEMMA InitHolds == ProgramInit => IInv
  BY ProgramAssumption DEF ProgramInit, IInv, ProgramTypeOK, CallPlaces, Setting, Getting, Ends, Gone, Text,
     Apart, Sets, Gets, Orphan, Outcomes, Held, NeverCut, CallsTell, OkIsThere, GetExact

LEMMA StepKeeps == IInv /\ [ProgramNext]_programVars => IInv'
<1> SUFFICES ASSUME IInv, [ProgramNext]_programVars PROVE IInv'
  OBVIOUS
<1> USE ProgramAssumption
    DEF IInv, ProgramTypeOK, CallPlaces, Setting, Getting, Ends, Gone, Text, Apart, Sets, Gets,
        Orphan, Outcomes, Held, NeverCut, CallsTell, OkIsThere, GetExact
<1>1. CASE BeginCall
  <2>1. call' = call + 1 /\ call + 1 \in 0 .. MaxCalls
    BY <1>1 DEF BeginCall
  <2>2. CASE place' = "set" /\ \E n \in 0 .. MaxSize : size' = [size EXCEPT ![call + 1] = n]
    <3>1. PICK n \in 0 .. MaxSize : size' = [size EXCEPT ![call + 1] = n]
      BY <2>2
    <3>2. /\ size' \in [0 .. MaxCalls -> 0 .. MaxSize]
          /\ size'[selection.of] = size[selection.of]
      BY <2>1, <3>1
    <3>3. ProgramTypeOK'
      BY <1>1, <2>1, <2>2, <3>2 DEF BeginCall
    <3>4. QED
      BY <1>1, <2>1, <2>2, <3>2, <3>3 DEF BeginCall
  <2>3. CASE place' = "get" /\ size' = size
    <3>1. ProgramTypeOK'
      BY <1>1, <2>1, <2>3 DEF BeginCall
    <3>2. QED
      BY <1>1, <2>1, <2>3, <3>1 DEF BeginCall
  <2>4. QED
    BY <1>1, <2>2, <2>3 DEF BeginCall
<1>2. CASE MakePipe
  <2>1. CASE /\ place' = "piped" /\ readers' = {"worker"} /\ writers' = {"worker"}
             /\ outcome' = outcome
    <3>1. ProgramTypeOK'
      BY <1>2, <2>1 DEF MakePipe
    <3>2. QED
      BY <1>2, <2>1, <3>1 DEF MakePipe
  <2>2. CASE Throw
    BY <1>2, <2>2 DEF MakePipe, Throw
  <2>3. QED
    BY <1>2, <2>1, <2>2 DEF MakePipe
<1>3. CASE Spawn
  BY <1>3 DEF Spawn, Throw
<1>4. CASE CloseReadEnd
  BY <1>4 DEF CloseReadEnd
<1>5. CASE Write
  BY <1>5 DEF Write
<1>6. CASE WriteThrows
  BY <1>6 DEF WriteThrows, Throw
<1>7. CASE CloseWriteEnd
  BY <1>7 DEF CloseWriteEnd
<1>8. CASE Wait
  BY <1>8 DEF Wait
<1>9. CASE Popen
  <2>1. CASE /\ place' = "reading" /\ program' = "runs"
             /\ readers' = {"worker"} /\ writers' = {"program"}
             /\ outcome' = outcome
    BY <1>9, <2>1 DEF Popen
  <2>2. CASE /\ place' = "idle" /\ outcome' = "told" /\ program' = program
             /\ readers' = readers /\ writers' = writers
    <3>1. ProgramTypeOK'
      BY <1>9, <2>2 DEF Popen
    <3>2. QED
      BY <1>9, <2>2, <3>1 DEF Popen
  <2>3. QED
    BY <1>9, <2>1, <2>2 DEF Popen
<1>10. CASE Read
  BY <1>10 DEF Read
<1>11. CASE ReadEnds
  BY <1>11 DEF ReadEnds
<1>12. CASE Pclose
  BY <1>12 DEF Pclose
<1>13. CASE Killed
  BY <1>13 DEF Killed
<1>14. CASE ProgramReads
  BY <1>14 DEF ProgramReads, Takes
<1>15. CASE ProgramTakes
  <2>1. place \in {"waiting", "killed"}
    BY <1>15 DEF ProgramTakes, Takes
  <2>2. selection' = Text(call, through) /\ through \in 0 .. MaxSize
    BY <1>15 DEF ProgramTakes
  <2>3. /\ selection' \in [of : 0 .. MaxCalls, bytes : 0 .. MaxSize]
        /\ selection'.of = call /\ selection'.bytes = through
    BY <2>2
  <2>4. place = "waiting" => through = size[call]
    BY <1>15 DEF ProgramTakes, Takes
  <2>5. /\ program = "runs" /\ program' \in Gone
        /\ readers' = readers \ {"program"}
        /\ writers' = writers \ {"program"}
    BY <1>15 DEF ProgramTakes, Takes, Exit
  <2>6. UNCHANGED <<place, size, call, moved, outcome, pipe, through>>
    BY <1>15 DEF ProgramTakes
  <2>7. ProgramTypeOK'
    BY <2>3, <2>5, <2>6
  <2>8. Apart' /\ Gets' /\ Orphan' /\ Outcomes'
    BY <2>1, <2>3, <2>5, <2>6
  <2>9. Sets'
    BY <2>1, <2>2, <2>4, <2>5, <2>6
  <2>10. NeverCut' /\ CallsTell'
    BY <2>1, <2>3, <2>4, <2>5, <2>6
  <2>11. QED
    BY <2>7, <2>8, <2>9, <2>10
<1>16. CASE ProgramTells
  BY <1>16 DEF ProgramTells, Tells, Takes
<1>17. CASE ProgramToldAll
  BY <1>17 DEF ProgramToldAll, Tells, Takes, Exit
<1>18. CASE ProgramDies
  BY <1>18 DEF ProgramDies, Exit
<1>19. CASE UNCHANGED programVars
  BY <1>19 DEF programVars
<1>20. QED
  BY <1>1, <1>2, <1>3, <1>4, <1>5, <1>6, <1>7, <1>8, <1>9, <1>10,
     <1>11, <1>12, <1>13, <1>14, <1>15, <1>16, <1>17, <1>18, <1>19
     DEF ProgramNext, Worker, Program

----------------------------------------------------------------------------
(* The theorems.                                                           *)

(* Every reachable state is one the invariant describes: where the bytes   *)
(* of a text are, who holds the ends of the pipe, and how the program is.  *)
THEOREM Inductive == ProgramSpec => []IInv
<1>1. IInv /\ [ProgramNext]_programVars => IInv'
  BY StepKeeps
<1>2. QED
  BY InitHolds, <1>1, PTL DEF ProgramSpec

(* No text is ever taken cut short, but where the daemon was killed, and   *)
(* no buffer overrun: Clipboard::run_with_stdin closes its end of the pipe *)
(* only behind the last byte, or when nobody can read any more.            *)
THEOREM NothingCut == ProgramSpec => []ProgramInv
<1>1. IInv => ProgramInv
  BY DEF IInv, ProgramInv
<1>2. QED
  BY Inductive, <1>1, PTL

(* set_text returns only when the clipboard has its text, and get_text     *)
(* with all of the clipboard, unless its program failed.                   *)
THEOREM TrueToTheCaller == ProgramSpec => []CallsTell
<1>1. IInv => CallsTell
  BY DEF IInv
<1>2. QED
  BY Inductive, <1>1, PTL

(* No program outlives its call, returned or thrown, to change the         *)
(* clipboard under a later one.                                            *)
THEOREM NobodyLeft == ProgramSpec => []NoneLeft
<1>1. IInv => NoneLeft
  BY DEF IInv, Apart, NoneLeft
<1>2. QED
  BY Inductive, <1>1, PTL
=============================================================================
