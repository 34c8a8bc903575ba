----------------------- MODULE MacroDispatcherProofs -----------------------
(***************************************************************************)
(* Theorems about MacroDispatcher, for every set of hotstrings and every   *)
(* number of jobs.                                                         *)
(***************************************************************************)
EXTENDS MacroDispatcher, SequenceTheorems, TLAPS

(* The units of a macro are units.                                         *)
LEMMA ProgramType ==
    ASSUME NEW m \in Macros
    PROVE  Program(m) \in Seq(Units)
<1> USE DispatcherAssumption DEF DispatcherAssumption
<1>1. Backspaces(m) \in Seq(Units)
  <2>1. ASSUME NEW n \in Nat, NEW f \in [1 .. n -> Units]
        PROVE  f \in Seq(Units)
    BY SeqDef
  <2> QED
    BY <2>1 DEF Backspaces
<1>2. (IF Commands[m] # <<>> THEN Commands[m] ELSE Legacy(m)) \in Seq(Units)
  BY DEF Legacy
<1> QED
  BY <1>1, <1>2 DEF Program

----------------------------------------------------------------------------
(* Type correctness.  TypeOK is handled in two parts, the flags and the    *)
(* rest, which different provers are good at.                              *)

FlagsOK == stopRequested \in BOOLEAN /\ macroWorkerStop \in BOOLEAN

DataOK ==
    /\ queue \in Seq(Macros)
    /\ caller \in [Threads -> CallerStates]
    /\ caller["ipc"] \in {"idle", "notify"}
    /\ worker \in WorkerStates
    /\ todo \in Seq(Units)
    /\ log \in Seq(Macros)
    /\ started \in Nat
    /\ cancelled \in Nat
    /\ late \in Nat

LEMMA TypeParts == TypeOK <=> FlagsOK /\ DataOK
BY DEF TypeOK, FlagsOK, DataOK

(* A unit is only ever begun when there is one; ChooseBranch relies on it  *)
(* to read the branches of an If.                                          *)
ActHasUnit == worker = "act" => todo # <<>>

LEMMA FlagsNext == FlagsOK /\ [Next]_vars => FlagsOK'
BY Zenon DEF FlagsOK, Next, CallerStep, WorkerProgress, vars, SubmitMacro,
   Interrupt, Reload, StopMacroWorker, RequestMacroStop, Close, Notify, Join,
   Block, SpuriousWakeup, ExitLoop, Dequeue, Checkpoint, LeaveMacro, Tap, SleepSlice, RunSilent,
   Paste, Restore, ChooseBranch, UnitThrows, RestoreThrows, Act

LEMMA DataInit == Init => DataOK /\ ActHasUnit
BY DEF Init, DataOK, ActHasUnit, Threads, CallerStates, WorkerStates

LEMMA DataNext == DataOK /\ ActHasUnit /\ [Next]_vars => (DataOK /\ ActHasUnit)'
<1> SUFFICES ASSUME DataOK, ActHasUnit, [Next]_vars
             PROVE  (DataOK /\ ActHasUnit)'
  OBVIOUS
<1> USE DEF DataOK, ActHasUnit, Threads, CallerStates, WorkerStates
<1>1. CASE \E m \in Macros : SubmitMacro(m)
  BY <1>1, AppendProperties DEF SubmitMacro
<1>2. ASSUME NEW t \in Threads, NEW next \in CallerStates,
             t = "ipc" => next = "notify",
             RequestMacroStop(t, next)
      PROVE  (DataOK /\ ActHasUnit)'
  BY <1>2 DEF RequestMacroStop
<1>3. CASE (\E m \in Macros : Interrupt(m)) \/ Reload \/ StopMacroWorker
  BY <1>3, <1>2 DEF Interrupt, Reload, StopMacroWorker
<1>4. CASE Close
  <2>1. /\ caller' = [caller EXCEPT !["main"] = "closeNotify"]
        /\ queue' = <<>>
        /\ UNCHANGED <<worker, todo, log, started, cancelled, late>>
    BY <1>4, Zenon DEF Close
  <2> QED
    BY <2>1
<1>5. CASE \E t \in Threads : Notify(t)
  BY <1>5 DEF Notify
<1>6. CASE Block \/ SpuriousWakeup \/ ExitLoop
  BY <1>6 DEF Block, SpuriousWakeup, ExitLoop
<1>7. CASE Dequeue
  <2>1. Head(queue) \in Macros /\ Tail(queue) \in Seq(Macros)
    BY <1>7, HeadTailProperties DEF Dequeue
  <2>2. Program(Head(queue)) \in Seq(Units)
    BY <2>1, ProgramType
  <2> QED
    BY <1>7, <2>1, <2>2 DEF Dequeue, NextJob
<1>8. CASE Checkpoint
  BY <1>8 DEF Checkpoint
<1>9. CASE LeaveMacro \/ RestoreThrows
  <2>1. /\ worker' = "check"
        /\ todo' = <<>>
        /\ UNCHANGED <<queue, caller, log, started, cancelled, late>>
    BY <1>9, Zenon DEF LeaveMacro, RestoreThrows
  <2> QED
    BY <2>1
<1>10. CASE Restore \/ Join
  BY <1>10 DEF Restore, Join
<1>11. ASSUME NEW kinds, UnitIs(kinds)
       PROVE  Head(todo) \in Units /\ Tail(todo) \in Seq(Units)
  BY <1>11, HeadTailProperties DEF UnitIs
<1>12. ASSUME NEW next \in {"checkpoint", "restore", "check"},
              NEW left \in Seq(Units), Act(next, left)
       PROVE  (DataOK /\ ActHasUnit)'
  BY <1>12 DEF Act
<1>13. CASE Tap \/ SleepSlice \/ RunSilent
  BY <1>11, <1>12, <1>13 DEF Tap, SleepSlice, RunSilent
<1>14. CASE Paste
  BY <1>11, <1>12, <1>14 DEF Paste
<1>15. CASE UnitThrows
  <2>1. <<>> \in Seq(Units)
    OBVIOUS
  <2> QED
    BY <1>12, <1>15, <2>1 DEF UnitThrows
<1>16. CASE ChooseBranch
  <2> PICK branch \in {Then[Head(todo)], Else[Head(todo)]} :
               Act("checkpoint", branch \o Tail(todo))
    BY <1>16 DEF ChooseBranch
  <2>1. Head(todo) \in Units /\ Tail(todo) \in Seq(Units)
    BY <1>11, <1>16 DEF ChooseBranch
  <2>2. branch \in Seq(Units)
    BY <2>1, DispatcherAssumption DEF DispatcherAssumption
  <2>3. branch \o Tail(todo) \in Seq(Units)
    BY <2>1, <2>2, ConcatProperties
  <2> QED
    BY <1>12, <2>3
<1>17. CASE UNCHANGED vars
  BY <1>17 DEF vars
<1> QED
  BY <1>1, <1>3, <1>4, <1>5, <1>6, <1>7, <1>8, <1>9, <1>13, <1>14, <1>15,
     <1>16, <1>17, <1>10 DEF Next, CallerStep, WorkerProgress

(* Every reachable state has its type.                                     *)
THEOREM TypeCorrect == Spec => []TypeOK
<1>1. Init => FlagsOK
  BY Zenon DEF Init, FlagsOK
<1>2. Init => FlagsOK /\ DataOK /\ ActHasUnit
  BY <1>1, DataInit
<1>3. FlagsOK /\ DataOK /\ ActHasUnit /\ [Next]_vars
         => (FlagsOK /\ DataOK /\ ActHasUnit)'
  BY FlagsNext, DataNext
<1> QED
  BY <1>2, <1>3, TypeParts, PTL DEF Spec

----------------------------------------------------------------------------
(* The inductive invariant.  FifoExact needs the two history positions to  *)
(* be within the log; LateBound needs to know that a unit about to begin   *)
(* was let through before any cancellation; ShutdownExact needs to know    *)
(* that a shutdown has cancelled all of the log.                           *)

Bounds ==
    /\ started <= Len(log)
    /\ cancelled <= Len(log)
    /\ Running => started >= 1

LateExact ==
    /\ LateBound
    /\ Running /\ ~Doomed => late = 0
    /\ worker = "act" => late = 0

Stopping == {"stopNotify", "close", "closeNotify", "join", "joined"}

StopExact ==
    /\ caller["main"] \in Stopping => cancelled = Len(log)
    /\ macroWorkerStop <=> caller["main"] \in {"closeNotify", "join", "joined"}
    /\ worker = "exited" => macroWorkerStop
    /\ caller["main"] = "joined" => worker = "exited"

IInv ==
    /\ FlagsOK
    /\ DataOK
    /\ ActHasUnit
    /\ Bounds
    /\ FifoExact
    /\ CancelExact
    /\ LateExact
    /\ StopExact

(* Submitting a job extends the part of the log that is the queue.         *)
LEMMA SubSeqAppend ==
    ASSUME NEW S, NEW s \in Seq(S), NEW e \in S, NEW i \in 1 .. Len(s) + 1
    PROVE  SubSeq(Append(s, e), i, Len(s) + 1) = Append(SubSeq(s, i, Len(s)), e)
OBVIOUS

(* Taking a job removes the oldest one of that part.                       *)
LEMMA SubSeqHead ==
    ASSUME NEW S, NEW s \in Seq(S), NEW i \in 1 .. Len(s)
    PROVE  /\ SubSeq(s, i, Len(s)) # <<>>
           /\ Head(SubSeq(s, i, Len(s))) = s[i]
           /\ Tail(SubSeq(s, i, Len(s))) = SubSeq(s, i + 1, Len(s))
OBVIOUS

(* Nothing is left of it past the end of the log.                          *)
LEMMA SubSeqNone ==
    ASSUME NEW S, NEW s \in Seq(S), NEW i \in Nat, i > Len(s)
    PROVE  SubSeq(s, i, Len(s)) = <<>>
OBVIOUS

(* Where NextJob is, and what the length of the log says about the queue.  *)
LEMMA NextJobFacts ==
    ASSUME DataOK, Bounds, FifoExact
    PROVE  /\ NextJob \in 1 .. Len(log) + 1
           /\ Len(log) \in Nat
           /\ queue # <<>> => NextJob \in 1 .. Len(log)
           /\ cancelled = Len(log) => queue = <<>>
<1>1. NextJob \in 1 .. Len(log) + 1 /\ Len(log) \in Nat
  BY DEF DataOK, Bounds, NextJob
<1>2. NextJob > Len(log) => queue = <<>>
  BY <1>1, SubSeqNone DEF DataOK, FifoExact
<1>3. cancelled = Len(log) => NextJob > Len(log)
  BY <1>1 DEF DataOK, NextJob
<1> QED
  BY <1>1, <1>2, <1>3

LEMMA InitIInv == Init => IInv
<1> SUFFICES ASSUME Init PROVE IInv
  OBVIOUS
<1>1. FlagsOK
  BY Zenon DEF Init, FlagsOK
<1>2. DataOK /\ ActHasUnit
  BY DataInit
<1>3. Bounds
  BY DEF Init, Bounds, Running
<1>4. FifoExact
  BY DEF Init, FifoExact, NextJob
<1>5. CancelExact /\ LateExact
  BY DEF Init, CancelExact, LateExact, LateBound, Running
<1>6. StopExact
  BY Zenon DEF Init, StopExact, Stopping, Threads
<1> QED
  BY <1>1, <1>2, <1>3, <1>4, <1>5, <1>6 DEF IInv

(* Submitting a job, by the main thread alone, lengthens log and queue.    *)
LEMMA SubmitMacroIInv ==
    ASSUME IInv, NEW m \in Macros, SubmitMacro(m)
    PROVE  (Bounds /\ FifoExact /\ CancelExact /\ LateExact /\ StopExact)'
<1> USE DEF IInv
<1>1. /\ log' \in Seq(Macros)
      /\ Len(log') = Len(log) + 1
      /\ Len(log) \in Nat
  BY AppendProperties DEF SubmitMacro, DataOK
<1>2. Bounds'
  BY <1>1 DEF SubmitMacro, Bounds, DataOK, Running
<1>3. FifoExact'
  <2>1. NextJob' = NextJob /\ NextJob \in 1 .. Len(log) + 1
    BY NextJobFacts DEF SubmitMacro, NextJob
  <2>2. SubSeq(log', NextJob, Len(log) + 1) = Append(queue, m)
    BY <2>1, SubSeqAppend DEF SubmitMacro, FifoExact, DataOK
  <2> QED
    BY <1>1, <2>1, <2>2 DEF SubmitMacro, FifoExact
<1>4. (CancelExact /\ LateExact)'
  BY Zenon DEF SubmitMacro, CancelExact, LateExact, LateBound, Running, Doomed
<1>5. StopExact'
  <2>1. caller'["main"] = "notify"
    BY DEF SubmitMacro, DataOK, Threads
  <2> QED
    BY <2>1, Zenon DEF SubmitMacro, StopExact, Stopping
<1> QED
  BY <1>2, <1>3, <1>4, <1>5

(* A cancellation empties the queue and dooms whatever job is running.     *)
LEMMA RequestMacroStopIInv ==
    ASSUME IInv, NEW t \in Threads, NEW next \in {"notify", "stopNotify"},
           t = "ipc" => next = "notify",
           RequestMacroStop(t, next)
    PROVE  (Bounds /\ FifoExact /\ CancelExact /\ LateExact /\ StopExact)'
<1> USE DEF IInv
<1>1. Len(log) \in Nat
  BY DEF DataOK
<1>2. Bounds'
  BY <1>1 DEF RequestMacroStop, Bounds, Running
<1>3. FifoExact'
  <2>1. NextJob' > Len(log) /\ NextJob' \in Nat
    BY <1>1 DEF RequestMacroStop, NextJob, DataOK, Bounds
  <2>2. SubSeq(log, NextJob', Len(log)) = <<>>
    BY <2>1, SubSeqNone DEF DataOK
  <2> QED
    BY <2>2 DEF RequestMacroStop, FifoExact
<1>4. Running' = Running /\ stopRequested' = TRUE
  BY Zenon DEF RequestMacroStop, Running
<1>5. Doomed'
  BY DEF RequestMacroStop, Doomed, Bounds
<1>6. CancelExact'
  BY <1>4, <1>5, Zenon DEF CancelExact
<1>7. LateExact'
  BY <1>4, <1>5, Zenon DEF RequestMacroStop, LateExact, LateBound
<1>8. StopExact'
  <2>1. cancelled' = Len(log')
    BY DEF RequestMacroStop
  <2>2. CASE t = "main"
    <3>1. caller'["main"] \in {"notify", "stopNotify"}
      BY <2>2 DEF RequestMacroStop, DataOK, Threads
    <3>2. ~macroWorkerStop' /\ worker' # "exited"
      BY <2>2, Zenon DEF RequestMacroStop, StopExact
    <3> QED
      BY <2>1, <3>1, <3>2, Zenon DEF StopExact
  <2>3. CASE t = "ipc"
    <3>1. caller'["main"] = caller["main"]
      BY <2>3 DEF RequestMacroStop, DataOK, Threads
    <3> QED
      BY <2>1, <3>1, Zenon DEF RequestMacroStop, StopExact
  <2> QED
    BY <2>2, <2>3 DEF Threads
<1> QED
  BY <1>2, <1>3, <1>6, <1>7, <1>8

(* The steps of the calling threads that leave the log alone.              *)
LEMMA CallerIInv ==
    ASSUME IInv, Close \/ Join \/ \E t \in Threads : Notify(t)
    PROVE  (Bounds /\ FifoExact /\ CancelExact /\ LateExact /\ StopExact)'
<1> USE DEF IInv
<1>1. /\ UNCHANGED <<log, started, cancelled, late, stopRequested>>
      /\ worker' = worker \/ (worker = "waiting" /\ worker' = "check")
  <2>1. worker' = worker \/ (worker = "waiting" /\ worker' = "check")
    <3>1. CASE Close \/ Join
      BY <3>1, Zenon DEF Close, Join
    <3>2. ASSUME NEW t \in Threads, Notify(t)
          PROVE  worker' = IF worker = "waiting" THEN "check" ELSE worker
      BY <3>2, Zenon DEF Notify
    <3> QED
      BY <3>1, <3>2
  <2> QED
    BY <2>1, Zenon DEF Close, Join, Notify
<1>2. queue' = queue
  <2>1. CASE Close
    <3>1. queue = <<>>
      BY <2>1, NextJobFacts DEF Close, StopExact, Stopping
    <3> QED
      BY <2>1, <3>1 DEF Close
  <2> QED
    BY <2>1, Zenon DEF Join, Notify
<1>3. (Running' <=> Running) /\ (Doomed' <=> Doomed)
  BY <1>1, Zenon DEF Running, Doomed
<1>4. Bounds' /\ FifoExact'
  BY <1>1, <1>2, <1>3, Zenon DEF Bounds, FifoExact, NextJob
<1>5. CancelExact' /\ LateExact'
  BY <1>1, <1>3, Zenon DEF CancelExact, LateExact, LateBound
<1>6. StopExact'
  <2>1. CASE Close
    <3>1. caller'["main"] = "closeNotify"
      BY <2>1 DEF Close, DataOK, Threads
    <3>2. caller["main"] = "close" /\ worker' = worker /\ macroWorkerStop' = TRUE
      BY <2>1, Zenon DEF Close
    <3> QED
      BY <1>1, <3>1, <3>2, Zenon DEF StopExact, Stopping
  <2>2. CASE Join
    <3>1. caller'["main"] = "joined"
      BY <2>2 DEF Join, DataOK, Threads
    <3> QED
      BY <1>1, <2>2, <3>1, Zenon DEF Join, StopExact, Stopping
  <2>3. ASSUME NEW t \in Threads, Notify(t)
        PROVE  StopExact'
    <3>1. \/ caller'["main"] = caller["main"]
          \/ caller["main"] = "notify" /\ caller'["main"] = "idle"
          \/ caller["main"] = "stopNotify" /\ caller'["main"] = "close"
          \/ caller["main"] = "closeNotify" /\ caller'["main"] = "join"
      BY <2>3 DEF Notify, DataOK, Threads
    <3>2. macroWorkerStop' = macroWorkerStop
      BY <2>3, Zenon DEF Notify
    <3> QED
      BY <1>1, <3>1, <3>2, Zenon DEF StopExact, Stopping
  <2> QED
    BY <2>1, <2>2, <2>3
<1> QED
  BY <1>4, <1>5, <1>6

(* Taking a job: it is the oldest, it was not cancelled, and the flag is   *)
(* down when it starts.                                                    *)
LEMMA DequeueIInv ==
    ASSUME IInv, Dequeue
    PROVE  (Bounds /\ FifoExact /\ CancelExact /\ LateExact /\ StopExact)'
<1> USE DEF IInv
<1>1. NextJob \in 1 .. Len(log) /\ Len(log) \in Nat
  BY NextJobFacts DEF Dequeue
<1>2. started' > cancelled' /\ started' = NextJob
  BY DEF Dequeue, NextJob, DataOK
<1>3. Bounds'
  BY <1>1, <1>2 DEF Dequeue, Bounds
<1>4. FifoExact'
  <2>1. NextJob' = NextJob + 1
    BY <1>1, <1>2 DEF NextJob
  <2>2. Tail(queue) = SubSeq(log, NextJob + 1, Len(log))
    BY <1>1, SubSeqHead DEF FifoExact, DataOK
  <2> QED
    BY <2>1, <2>2 DEF Dequeue, FifoExact
<1>5. stopRequested' = FALSE /\ late' = 0 /\ worker' = "checkpoint"
  BY Zenon DEF Dequeue
<1>6. ~Doomed'
  BY <1>1, <1>2 DEF Dequeue, Doomed, DataOK
<1>7. CancelExact' /\ LateExact'
  <2>1. late' <= 1
    BY <1>5
  <2> QED
    BY <1>5, <1>6, <2>1, Zenon DEF CancelExact, LateExact, LateBound
<1>8. StopExact'
  BY <1>5, Zenon DEF Dequeue, StopExact
<1> QED
  BY <1>3, <1>4, <1>7, <1>8

(* Beginning a unit: the first after a cancellation is also the last.      *)
LEMMA ActIInv ==
    ASSUME IInv, NEW kinds, UnitIs(kinds),
           NEW next \in {"checkpoint", "restore", "check"}, NEW left,
           Act(next, left)
    PROVE  (Bounds /\ FifoExact /\ CancelExact /\ LateExact /\ StopExact)'
<1> USE DEF IInv
<1>1. worker = "act" /\ worker' = next /\ late = 0
  BY Zenon DEF UnitIs, Act, LateExact
<1>2. UNCHANGED <<queue, stopRequested, macroWorkerStop, caller, log,
                  started, cancelled>>
  BY Zenon DEF Act
<1>3. Running /\ (Doomed' <=> Doomed)
  BY <1>1, <1>2, Zenon DEF Running, Doomed
<1>4. Bounds' /\ FifoExact'
  BY <1>2, <1>3, Zenon DEF Bounds, FifoExact, NextJob
<1>5. CancelExact'
  BY <1>2, <1>3, Zenon DEF CancelExact
<1>6. LateExact'
  <2>1. late' <= 1 /\ (~Doomed => late' = 0)
    BY <1>1 DEF Act
  <2>2. worker' # "act"
    BY <1>1
  <2> QED
    BY <1>3, <2>1, <2>2, Zenon DEF LateExact, LateBound
<1>7. StopExact'
  <2>1. worker' # "exited" /\ caller["main"] # "joined"
    BY <1>1, Zenon DEF StopExact
  <2> QED
    BY <1>2, <2>1, Zenon DEF StopExact, Stopping
<1> QED
  BY <1>4, <1>5, <1>6, <1>7

(* The worker's steps that begin no unit.                                  *)
LEMMA WorkerIInv ==
    ASSUME IInv,
           \/ Block \/ SpuriousWakeup \/ ExitLoop \/ Checkpoint
           \/ LeaveMacro \/ Restore \/ RestoreThrows
    PROVE  (Bounds /\ FifoExact /\ CancelExact /\ LateExact /\ StopExact)'
<1> USE DEF IInv
<1>1. UNCHANGED <<queue, stopRequested, macroWorkerStop, caller, log,
                  started, cancelled, late>>
  BY Zenon DEF Block, SpuriousWakeup, ExitLoop, Checkpoint, LeaveMacro,
     Restore, RestoreThrows
<1>2. (Doomed' <=> Doomed) /\ (Running' => Running)
  BY <1>1, Zenon DEF Doomed, Running, Block, SpuriousWakeup, ExitLoop,
     Checkpoint, LeaveMacro, Restore, RestoreThrows
<1>3. Bounds' /\ FifoExact'
  BY <1>1, <1>2, Zenon DEF Bounds, FifoExact, NextJob
<1>4. CancelExact'
  BY <1>1, <1>2, Zenon DEF CancelExact
<1>5. LateExact'
  <2>1. worker' = "act" => Running /\ ~stopRequested
    BY Zenon DEF Running, Block, SpuriousWakeup, ExitLoop, Checkpoint,
       LeaveMacro, Restore, RestoreThrows
  <2> QED
    BY <1>1, <1>2, <2>1, Zenon DEF CancelExact, LateExact, LateBound
<1>6. StopExact'
  <2>1. worker' = "exited" => macroWorkerStop
    BY Zenon DEF StopExact, Block, SpuriousWakeup, ExitLoop, Checkpoint,
       LeaveMacro, Restore, RestoreThrows
  <2>2. caller["main"] = "joined" => worker' = "exited"
    BY Zenon DEF StopExact, Block, SpuriousWakeup, ExitLoop, Checkpoint,
       LeaveMacro, Restore, RestoreThrows
  <2> QED
    BY <1>1, <2>1, <2>2, Zenon DEF StopExact, Stopping
<1> QED
  BY <1>3, <1>4, <1>5, <1>6

LEMMA NextIInv == IInv /\ [Next]_vars => IInv'
<1> SUFFICES ASSUME IInv, [Next]_vars
             PROVE  IInv'
  OBVIOUS
<1>1. (FlagsOK /\ DataOK /\ ActHasUnit)'
  BY FlagsNext, DataNext DEF IInv
<1> SUFFICES (Bounds /\ FifoExact /\ CancelExact /\ LateExact /\ StopExact)'
  BY <1>1 DEF IInv
<1>2. CASE \E m \in Macros : SubmitMacro(m)
  BY <1>2, SubmitMacroIInv
<1>3. CASE \/ \E m \in Macros : Interrupt(m)
           \/ Reload
           \/ StopMacroWorker
  BY <1>3, RequestMacroStopIInv DEF Interrupt, Reload, StopMacroWorker, Threads
<1>4. CASE Close \/ Join \/ \E t \in Threads : Notify(t)
  BY <1>4, CallerIInv
<1>5. CASE Dequeue
  BY <1>5, DequeueIInv
<1>6. CASE Tap \/ SleepSlice \/ RunSilent \/ Paste \/ ChooseBranch \/ UnitThrows
  BY <1>6, ActIInv DEF Tap, SleepSlice, RunSilent, Paste, ChooseBranch, UnitThrows
<1>7. CASE \/ Block \/ SpuriousWakeup \/ ExitLoop \/ Checkpoint
           \/ LeaveMacro \/ Restore \/ RestoreThrows
  BY <1>7, WorkerIInv
<1>8. CASE UNCHANGED vars
  BY <1>8, Zenon DEF vars, IInv, Bounds, FifoExact, NextJob, CancelExact,
     LateExact, LateBound, StopExact, Running, Doomed
<1> QED
  BY <1>2, <1>3, <1>4, <1>5, <1>6, <1>7, <1>8
     DEF Next, CallerStep, WorkerProgress

THEOREM Inductive == Spec => []IInv
BY InitIInv, NextIInv, PTL DEF Spec

----------------------------------------------------------------------------
(* No job is lost, repeated, overtaken or brought back.                    *)
THEOREM Fifo == Spec => []FifoExact
<1>1. IInv => FifoExact
  BY DEF IInv
<1> QED
  BY <1>1, Inductive, PTL

(* stop_requested_ is up during a macro exactly when it was cancelled.     *)
THEOREM Cancellation == Spec => []CancelExact
<1>1. IInv => CancelExact
  BY DEF IInv
<1> QED
  BY <1>1, Inductive, PTL

(* A cancelled macro begins at most one more unit.                         *)
THEOREM LateUnits == Spec => []LateBound
<1>1. IInv => LateBound
  BY DEF IInv, LateExact
<1> QED
  BY <1>1, Inductive, PTL

(* A shutdown finds no job waiting and the running one told to stop.       *)
THEOREM Shutdown == Spec => []ShutdownExact
<1>1. IInv => ShutdownExact
  <2> SUFFICES ASSUME IInv
               PROVE  ShutdownExact
    OBVIOUS
  <2>1. worker = "exited" => macroWorkerStop
    BY Zenon DEF IInv, StopExact
  <2>2. caller["main"] = "joined" => worker = "exited"
    BY Zenon DEF IInv, StopExact
  <2>3. ASSUME caller["main"] \in Stopping
        PROVE  queue = <<>> /\ (Running => stopRequested)
    <3>1. cancelled = Len(log)
      BY <2>3, Zenon DEF IInv, StopExact
    <3>2. queue = <<>>
      BY <3>1, NextJobFacts DEF IInv
    <3>3. Doomed
      BY <3>1 DEF IInv, Bounds, Doomed
    <3> QED
      BY <3>2, <3>3, Zenon DEF IInv, CancelExact
  <2> QED
    BY <2>1, <2>2, <2>3, Zenon DEF ShutdownExact, Stopping
<1> QED
  BY <1>1, Inductive, PTL

----------------------------------------------------------------------------
(* The safety part of the refinement: every step of the dispatcher is a    *)
(* step of MacroService or changes nothing it can see.                     *)

USE DEF Service!vars

LEMMA ServiceInit == Init => Service!Init
<1> SUFFICES ASSUME Init PROVE Service!Init
  OBVIOUS
<1>1. ~Running /\ macroWorkerStop = FALSE /\ queue = <<>>
  BY Zenon DEF Init, Running
<1> QED
  BY <1>1, Zenon DEF Service!Init

LEMMA ServiceNext == IInv /\ IInv' /\ [Next]_vars => [Service!Next]_(Service!vars)
<1> SUFFICES ASSUME IInv, IInv', [Next]_vars
             PROVE  [Service!Next]_(Service!vars)
  OBVIOUS
<1>1. ASSUME NEW m \in Macros, SubmitMacro(m)
      PROVE  Service!Accept(m)
  <2>1. /\ ~macroWorkerStop
        /\ queue' = Append(queue, m)
        /\ UNCHANGED <<worker, late, started, stopRequested, macroWorkerStop>>
        /\ log' = Append(log, m)
    BY <1>1, Zenon DEF SubmitMacro
  <2>2. Running => started \in 1 .. Len(log)
    BY DEF IInv, Bounds, DataOK
  <2>3. Running => log'[started] = log[started]
    BY <2>1, <2>2, AppendProperties DEF IInv, DataOK
  <2> QED
    BY <2>1, <2>3, Zenon DEF Service!Accept, Running
<1>2. ASSUME NEW t \in Threads, NEW next, RequestMacroStop(t, next)
      PROVE  Service!CancelAll
  <2>1. /\ queue' = <<>>
        /\ stopRequested' = TRUE
        /\ UNCHANGED <<worker, late, started, log, macroWorkerStop>>
    BY <1>2, Zenon DEF RequestMacroStop
  <2>2. <<log[started]>> # <<>>
    OBVIOUS
  <2> QED
    BY <2>1, <2>2, Zenon DEF Service!CancelAll, Running
<1>3. ASSUME Close
      PROVE  Service!Close
  <2>1. queue = <<>> /\ (Running => stopRequested)
    <3>1. cancelled = Len(log)
      BY <1>3, Zenon DEF Close, IInv, StopExact, Stopping
    <3>2. Doomed
      BY <3>1 DEF IInv, Bounds, Doomed
    <3> QED
      BY <3>1, <3>2, NextJobFacts DEF IInv, CancelExact
  <2>2. /\ queue' = <<>>
        /\ macroWorkerStop' = TRUE
        /\ UNCHANGED <<worker, late, started, log, stopRequested>>
    BY <1>3, Zenon DEF Close
  <2> QED
    BY <2>1, <2>2, Zenon DEF Service!Close, Running
<1>4. ASSUME Dequeue
      PROVE  Service!Begin
  <2>1. /\ ~Running /\ Running'
        /\ stopRequested' = FALSE
        /\ late' = 0
        /\ ~macroWorkerStop
        /\ queue # <<>>
        /\ queue' = Tail(queue)
        /\ UNCHANGED <<log, macroWorkerStop>>
        /\ started' = NextJob
    BY <1>4, Zenon DEF Dequeue, Running
  <2>2. log[NextJob] = Head(queue)
    <3>1. NextJob \in 1 .. Len(log)
      BY <2>1, NextJobFacts DEF IInv
    <3> QED
      BY <3>1, SubSeqHead DEF IInv, FifoExact, DataOK
  <2>3. log'[started'] = Head(queue)
    BY <2>1, <2>2, Zenon
  <2> QED
    BY <2>1, <2>3, Zenon DEF Service!Begin
<1>5. ASSUME LeaveMacro \/ RestoreThrows
      PROVE  Service!Finish
  <2>1. /\ Running /\ ~Running'
        /\ UNCHANGED <<queue, macroWorkerStop>>
    BY <1>5, Zenon DEF LeaveMacro, RestoreThrows, Running
  <2>2. <<log[started]>> # <<>>
    OBVIOUS
  <2> QED
    BY <2>1, <2>2, Zenon DEF Service!Finish
<1>6. ASSUME NEW kinds, UnitIs(kinds), NEW left,
             NEW next \in {"checkpoint", "restore", "check"}, Act(next, left)
      PROVE  Service!Unit(next = "check")
  <2>1. /\ worker = "act" /\ worker' = next /\ Running
        /\ Running' <=> next # "check"
        /\ UNCHANGED <<queue, macroWorkerStop, stopRequested, log, started>>
    BY <1>6, Zenon DEF UnitIs, Act, Running
  <2>2. late = 0 /\ (stopRequested <=> Doomed)
    BY <2>1, Zenon DEF IInv, LateExact, CancelExact
  <2>3. late' = IF Doomed THEN 1 ELSE 0
    BY <1>6, <2>2 DEF Act
  <2>4. <<log[started]>> # <<>>
    OBVIOUS
  <2>5. CASE next = "check"
    BY <2>1, <2>2, <2>4, <2>5, Zenon DEF Service!Unit
  <2>6. CASE next # "check"
    BY <2>1, <2>2, <2>3, <2>4, <2>6, Zenon DEF Service!Unit
  <2> QED
    BY <2>5, <2>6
<1>7. CASE \/ Join \/ (\E t \in Threads : Notify(t))
           \/ Block \/ SpuriousWakeup \/ ExitLoop \/ Checkpoint \/ Restore
           \/ UNCHANGED vars
  <2>1. /\ UNCHANGED <<queue, stopRequested, macroWorkerStop, late, log, started>>
        /\ Running' <=> Running
    <3>1. ASSUME NEW t \in Threads, Notify(t)
          PROVE  /\ UNCHANGED <<queue, stopRequested, macroWorkerStop, late,
                                log, started>>
                 /\ Running' <=> Running
      BY <3>1, Zenon DEF Notify, Running
    <3> QED
      BY <1>7, <3>1, Zenon DEF Join, Block, SpuriousWakeup, ExitLoop,
         Checkpoint, Restore, vars, Running
  <2> QED
    BY <2>1, Zenon
<1>8. CASE \/ \E m \in Macros : Interrupt(m)
           \/ Reload
           \/ StopMacroWorker
  BY <1>2, <1>8, Zenon DEF Interrupt, Reload, StopMacroWorker, Threads,
     Service!Next
<1>9. CASE Tap \/ SleepSlice \/ RunSilent \/ Paste \/ ChooseBranch \/ UnitThrows
  BY <1>6, <1>9 DEF Tap, SleepSlice, RunSilent, Paste, ChooseBranch, UnitThrows,
     Service!Next, Service!End
<1> QED
  BY <1>1, <1>3, <1>4, <1>5, <1>7, <1>8, <1>9, Zenon
     DEF Next, CallerStep, WorkerProgress, Service!Next, Service!End

(* The dispatcher implements what MacroService promises, its liveness      *)
(* apart.                                                                  *)
THEOREM Refinement == Spec => Service!Spec
BY ServiceInit, ServiceNext, Inductive, PTL DEF Spec, Service!Spec
=============================================================================
