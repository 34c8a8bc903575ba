-------------------------- MODULE MacroDispatcher --------------------------
(***************************************************************************)
(* The macro queue and its worker thread (src/src/Daemon.cpp): a matched   *)
(* hotstring is queued by the main thread, run by the worker, and can be   *)
(* cancelled at any moment, from the main thread (a Cancel hotkey, the end *)
(* of run()) or from the IPC thread (a script reload).                     *)
(*                                                                         *)
(* Every critical section on macro_mutex_ is one action; what a thread     *)
(* does after it unlocks (notify_one, join) is an action of its own.       *)
(* A macro is a sequence of units: one backspace, one key tap, one pasted  *)
(* text, one 10 ms slice of a Sleep, one If, one silent assignment.  The   *)
(* code loads stop_requested_ before each of them, so that load and the    *)
(* unit are two actions too.                                               *)
(***************************************************************************)
EXTENDS Integers, Sequences

CONSTANTS
    Macros,         \* the hotstrings find_match can return
    Units,          \* the units macros are made of
    Kind,           \* the kind of a unit, see Kinds
    Backspace,      \* the unit that erases one trigger key
    EraseCount,     \* [m] backspaces: Len(trigger_keys) if erase_trigger, or 0
    Commands,       \* [m] the units of Hotstring::commands, repeats unrolled
    Replacement,    \* [m] the unit that pastes replacement_utf8, or <<>>
    TailKeys,       \* [m] the units of Hotstring::tail_keys, repeats unrolled
    Then, Else,     \* [u] the branches of an If unit
    MaxSubmits      \* bound on the jobs submitted in a behaviour

Kinds == {"key", "paste", "sleep", "if", "silent", "cancel"}

ASSUME DispatcherAssumption ==
    /\ Kind \in [Units -> Kinds]
    /\ Backspace \in Units
    /\ EraseCount \in [Macros -> Nat]
    /\ Commands \in [Macros -> Seq(Units)]
    /\ Replacement \in [Macros -> Seq(Units)]
    /\ TailKeys \in [Macros -> Seq(Units)]
    /\ Then \in [Units -> Seq(Units)]
    /\ Else \in [Units -> Seq(Units)]
    /\ MaxSubmits \in Nat

VARIABLES
    queue,              \* macro_queue_
    stopRequested,      \* stop_requested_
    macroWorkerStop,    \* macro_worker_stop_
    caller,             \* what each thread that calls the dispatcher is doing
    worker,             \* what the worker thread is doing
    todo,               \* the units the running macro has left
    \* History, read by no guard of the code:
    log,                \* every job submitted, in order
    started,            \* the position in log of the last job taken
    cancelled,          \* Len(log) at the last request_macro_stop
    late                \* units of the running job begun after it was cancelled

vars == <<queue, stopRequested, macroWorkerStop, caller, worker, todo,
          log, started, cancelled, late>>

Threads == {"main", "ipc"}

(* The main thread: idle, notifying, then the four steps of                *)
(* stop_macro_worker and the join.  The IPC thread only ever notifies.     *)
CallerStates == {"idle", "notify", "stopNotify", "close", "closeNotify",
                 "join", "joined"}
WorkerStates == {"check", "waiting", "checkpoint", "act", "restore", "exited"}

TypeOK ==
    /\ queue \in Seq(Macros)
    /\ stopRequested \in BOOLEAN
    /\ macroWorkerStop \in BOOLEAN
    /\ caller \in [Threads -> CallerStates]
    /\ caller["ipc"] \in {"idle", "notify"}
    /\ worker \in WorkerStates
    /\ todo \in Seq(Units)
    /\ log \in Seq(Macros)
    /\ started \in Nat
    /\ cancelled \in Nat
    /\ late \in Nat

----------------------------------------------------------------------------
(* One backspace for each key of the trigger.                              *)
Backspaces(m) == [i \in 1 .. EraseCount[m] |-> Backspace]

(* The path of a hotstring without commands: its replacement and the tail  *)
(* keys, and neither if the replacement is empty.                          *)
Legacy(m) ==
    IF Replacement[m] # <<>> THEN Replacement[m] \o TailKeys[m] ELSE <<>>

Program(m) ==
    Backspaces(m) \o IF Commands[m] # <<>> THEN Commands[m] ELSE Legacy(m)

(* Only the top-level commands are looked at, not the branches of an If.   *)
IsInterruptMacro(m) ==
    \E i \in DOMAIN Commands[m] : Kind[Commands[m][i]] = "cancel"

Running == worker \in {"checkpoint", "act", "restore"}

(* The running job was submitted before the last request_macro_stop.       *)
Doomed == started <= cancelled

----------------------------------------------------------------------------
(* The calling threads.                                                    *)

Init ==
    /\ queue = <<>>
    /\ stopRequested = FALSE
    /\ macroWorkerStop = FALSE
    /\ caller = [t \in Threads |-> "idle"]
    /\ worker = "check"
    /\ todo = <<>>
    /\ log = <<>>
    /\ started = 0
    /\ cancelled = 0
    /\ late = 0

(* A slip: the job is queued and nobody is told.                           *)
SubmitMacro_Unnotified(m) ==
    /\ caller["main"] = "idle"
    /\ ~IsInterruptMacro(m)
    /\ Len(log) < MaxSubmits
    /\ queue' = Append(queue, m)
    /\ log' = Append(log, m)
    /\ UNCHANGED <<stopRequested, macroWorkerStop, caller, worker, todo,
                   started, cancelled, late>>

SubmitMacro(m) ==
    /\ caller["main"] = "idle"
    /\ ~IsInterruptMacro(m)
    /\ ~macroWorkerStop
    /\ Len(log) < MaxSubmits
    /\ queue' = Append(queue, m)
    /\ log' = Append(log, m)
    /\ caller' = [caller EXCEPT !["main"] = "notify"]
    /\ UNCHANGED <<stopRequested, macroWorkerStop, worker, todo,
                   started, cancelled, late>>

(* Two slips: the waiting jobs survive; the flag is forgotten.             *)
RequestMacroStop_KeepsQueue(t, next) ==
    /\ caller[t] = "idle"
    /\ stopRequested' = TRUE
    /\ cancelled' = Len(log)
    /\ caller' = [caller EXCEPT ![t] = next]
    /\ UNCHANGED <<queue, macroWorkerStop, worker, todo, log, started, late>>

RequestMacroStop_NoFlag(t, next) ==
    /\ caller[t] = "idle"
    /\ queue' = <<>>
    /\ cancelled' = Len(log)
    /\ caller' = [caller EXCEPT ![t] = next]
    /\ UNCHANGED <<stopRequested, macroWorkerStop, worker, todo, log,
                   started, late>>

RequestMacroStop(t, next) ==
    /\ caller[t] = "idle"
    /\ queue' = <<>>
    /\ stopRequested' = TRUE
    /\ cancelled' = Len(log)
    /\ caller' = [caller EXCEPT ![t] = next]
    /\ UNCHANGED <<macroWorkerStop, worker, todo, log, started, late>>

(* handle_event on an interrupt hotstring, reload_script on the IPC        *)
(* thread, and the first half of stop_macro_worker.                        *)
Interrupt(m) == IsInterruptMacro(m) /\ RequestMacroStop("main", "notify")

(* A slip: the reload asks the worker to exit.                             *)
Reload_StopsWorker == RequestMacroStop("ipc", "stopNotify")

Reload == RequestMacroStop("ipc", "notify")

(* A slip: the worker is told to exit and the running macro is not.        *)
StopMacroWorker_NoRequest ==
    /\ caller["main"] = "idle"
    /\ caller' = [caller EXCEPT !["main"] = "close"]
    /\ UNCHANGED <<queue, stopRequested, macroWorkerStop, worker, todo,
                   log, started, cancelled, late>>

StopMacroWorker == RequestMacroStop("main", "stopNotify")

(* A slip: the join follows the unlock, with no notify_one between.        *)
Close_Unnotified ==
    /\ caller["main"] = "close"
    /\ macroWorkerStop' = TRUE
    /\ queue' = <<>>
    /\ caller' = [caller EXCEPT !["main"] = "join"]
    /\ UNCHANGED <<stopRequested, worker, todo, log, started, cancelled, late>>

(* The second critical section of stop_macro_worker.                       *)
Close ==
    /\ caller["main"] = "close"
    /\ macroWorkerStop' = TRUE
    /\ queue' = <<>>
    /\ caller' = [caller EXCEPT !["main"] = "closeNotify"]
    /\ UNCHANGED <<stopRequested, worker, todo, log, started, cancelled, late>>

(* notify_one after the unlock: a worker blocked in wait evaluates its     *)
(* predicate again; one that is not blocked misses the notification.       *)
Notify(t) ==
    /\ caller[t] \in {"notify", "stopNotify", "closeNotify"}
    /\ worker' = IF worker = "waiting" THEN "check" ELSE worker
    /\ caller' = [caller EXCEPT ![t] = CASE @ = "notify" -> "idle"
                                          [] @ = "stopNotify" -> "close"
                                          [] @ = "closeNotify" -> "join"]
    /\ UNCHANGED <<queue, stopRequested, macroWorkerStop, todo,
                   log, started, cancelled, late>>

Join ==
    /\ caller["main"] = "join"
    /\ worker = "exited"
    /\ caller' = [caller EXCEPT !["main"] = "joined"]
    /\ UNCHANGED <<queue, stopRequested, macroWorkerStop, worker, todo,
                   log, started, cancelled, late>>

----------------------------------------------------------------------------
(* The worker thread.                                                      *)

(* macro_cv_.wait: block while the predicate is false; it may also wake    *)
(* for no reason.                                                          *)
Block ==
    /\ worker = "check"
    /\ ~macroWorkerStop
    /\ queue = <<>>
    /\ worker' = "waiting"
    /\ UNCHANGED <<queue, stopRequested, macroWorkerStop, caller, todo,
                   log, started, cancelled, late>>

SpuriousWakeup ==
    /\ worker = "waiting"
    /\ worker' = "check"
    /\ UNCHANGED <<queue, stopRequested, macroWorkerStop, caller, todo,
                   log, started, cancelled, late>>

ExitLoop ==
    /\ worker = "check"
    /\ macroWorkerStop
    /\ worker' = "exited"
    /\ UNCHANGED <<queue, stopRequested, macroWorkerStop, caller, todo,
                   log, started, cancelled, late>>

(* The position in log of the oldest job neither taken nor cancelled.      *)
NextJob == 1 + (IF started > cancelled THEN started ELSE cancelled)

(* A slip: the flag of an earlier cancellation is left set.                *)
Dequeue_KeepsFlag ==
    /\ worker = "check"
    /\ ~macroWorkerStop
    /\ queue # <<>>
    /\ queue' = Tail(queue)
    /\ todo' = Program(Head(queue))
    /\ worker' = "checkpoint"
    /\ started' = NextJob
    /\ late' = 0
    /\ UNCHANGED <<stopRequested, macroWorkerStop, caller, log, cancelled>>

(* Taking a job and clearing stop_requested_ are one critical section.     *)
Dequeue ==
    /\ worker = "check"
    /\ ~macroWorkerStop
    /\ queue # <<>>
    /\ queue' = Tail(queue)
    /\ todo' = Program(Head(queue))
    /\ stopRequested' = FALSE
    /\ worker' = "checkpoint"
    /\ started' = NextJob
    /\ late' = 0
    /\ UNCHANGED <<macroWorkerStop, caller, log, cancelled>>

(* The load of stop_requested_ before a unit: go on, or leave the macro.   *)
Checkpoint ==
    /\ worker = "checkpoint"
    /\ todo # <<>>
    /\ ~stopRequested
    /\ worker' = "act"
    /\ UNCHANGED <<queue, stopRequested, macroWorkerStop, caller, todo,
                   log, started, cancelled, late>>

LeaveMacro ==
    /\ worker = "checkpoint"
    /\ todo = <<>> \/ stopRequested
    /\ worker' = "check"
    /\ todo' = <<>>
    /\ UNCHANGED <<queue, stopRequested, macroWorkerStop, caller,
                   log, started, cancelled, late>>

(* A unit is begun with no further look at stop_requested_.                *)
UnitIs(kinds) == worker = "act" /\ Kind[Head(todo)] \in kinds

Act(next, left) ==
    /\ worker' = next
    /\ todo' = left
    /\ late' = IF Doomed THEN late + 1 ELSE late
    /\ UNCHANGED <<queue, stopRequested, macroWorkerStop, caller,
                   log, started, cancelled>>

(* A slip: a repeated key does not look at stop_requested_ between taps.   *)
Tap_Unchecked ==
    /\ UnitIs({"key"})
    /\ Act(IF Tail(todo) = <<>> THEN "checkpoint" ELSE "act", Tail(todo))

(* A backspace, a special key of SendInput or a tail key.                  *)
Tap == UnitIs({"key"}) /\ Act("checkpoint", Tail(todo))

(* At most 10 ms of a Sleep command.                                       *)
SleepSlice == UnitIs({"sleep"}) /\ Act("checkpoint", Tail(todo))

(* Commands with no output: Increment, Random, and a Cancel that was       *)
(* queued inside an If, whose execute does nothing.                        *)
RunSilent == UnitIs({"silent", "cancel"}) /\ Act("checkpoint", Tail(todo))

(* Clipboard saved, text set, Ctrl+V tapped; the 120 ms that follow are    *)
(* not interruptible, and the clipboard is restored whatever was requested.*)
Paste ==
    /\ UnitIs({"paste"})
    /\ Act("restore", Tail(todo))

Restore ==
    /\ worker = "restore"
    /\ worker' = "checkpoint"
    /\ UNCHANGED <<queue, stopRequested, macroWorkerStop, caller, todo,
                   log, started, cancelled, late>>

ChooseBranch ==
    /\ UnitIs({"if"})
    /\ \E branch \in {Then[Head(todo)], Else[Head(todo)]} :
           Act("checkpoint", branch \o Tail(todo))

(* An exception ends the macro: uinput or clipboard errors, a condition    *)
(* that cannot be evaluated.                                               *)
UnitThrows ==
    /\ UnitIs({"key", "paste", "if"})
    /\ Act("check", <<>>)

RestoreThrows ==
    /\ worker = "restore"
    /\ worker' = "check"
    /\ todo' = <<>>
    /\ UNCHANGED <<queue, stopRequested, macroWorkerStop, caller,
                   log, started, cancelled, late>>

----------------------------------------------------------------------------
CallerStep ==
    \/ \E m \in Macros : SubmitMacro(m) \/ Interrupt(m)
    \/ Reload
    \/ StopMacroWorker
    \/ Close
    \/ \E t \in Threads : Notify(t)
    \/ Join

WorkerProgress ==
    \/ Block \/ ExitLoop \/ Dequeue
    \/ Checkpoint \/ LeaveMacro
    \/ Tap \/ SleepSlice \/ RunSilent
    \/ Paste \/ Restore \/ ChooseBranch
    \/ UnitThrows \/ RestoreThrows

Next == CallerStep \/ WorkerProgress \/ SpuriousWakeup

Spec == Init /\ [][Next]_vars

(* The threads are scheduled: a thread that is inside a call finishes it.  *)
(* Nothing obliges the user to type, to reload or to stop, and nothing     *)
(* obliges a blocked wait to wake up unnotified.                           *)
Fairness ==
    /\ WF_vars(WorkerProgress)
    /\ \A t \in Threads : WF_vars(Notify(t))
    /\ WF_vars(Close)
    /\ WF_vars(Join)

FairSpec == Spec /\ Fairness

----------------------------------------------------------------------------
(* Properties.                                                             *)

(* The queue holds exactly the jobs submitted since the last cancellation  *)
(* that the worker has not taken, in the order they were typed: no job is  *)
(* lost, run twice, overtaken or brought back by any interleaving of       *)
(* submit_macro, request_macro_stop and the worker's pop.                  *)
FifoExact == queue = SubSeq(log, NextJob, Len(log))

(* The flag the worker polls means what it should: it is set while a macro *)
(* runs if and only if that macro was submitted before a cancellation.     *)
(* The reset in the worker's critical section neither swallows the         *)
(* cancellation of the job being taken nor lets one leak into a later job. *)
CancelExact == Running => (stopRequested <=> Doomed)

(* After request_macro_stop returns, the running macro begins at most one  *)
(* more unit: one key, one paste or one 10 ms slice of a sleep.            *)
LateBound == Running => late <= 1

(* From the moment stop_macro_worker has begun, whatever macro still runs  *)
(* has been told to stop and no job waits; the worker exits only once it   *)
(* was told to, and it is gone when the join returns.                      *)
ShutdownExact ==
    /\ caller["main"] \in {"stopNotify", "close", "closeNotify", "join", "joined"}
          => queue = <<>> /\ (Running => stopRequested)
    /\ worker = "exited" => macroWorkerStop
    /\ caller["main"] = "joined" => worker = "exited"

(* Every job submitted is eventually taken by the worker or cancelled: no  *)
(* notification is lost.                                                   *)
EveryJobServed ==
    \A i \in 1 .. MaxSubmits :
        (Len(log) >= i) ~> (started >= i \/ cancelled >= i)

(* stop_macro_worker returns: the worker sees macro_worker_stop_ wherever  *)
(* it is, and the join does not wait for ever.                             *)
ShutdownCompletes == (caller["main"] = "stopNotify") ~> (caller["main"] = "joined")

(* The dispatcher implements MacroService, its stop_requested_ being the   *)
(* doom of the running job.                                                *)
Service == INSTANCE MacroService WITH
    pending <- queue,
    active  <- IF Running THEN <<log[started]>> ELSE <<>>,
    doomed  <- Running /\ stopRequested,
    overrun <- IF Running THEN late ELSE 0,
    open    <- ~macroWorkerStop

ImplementsService == Service!FairSpec
============================================================================
