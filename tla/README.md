# AHKUnix in TLA+

A verification development for AHKUnix (`ahkunixd`, the daemon, and `ahkunixctl`,
its client): TLA+ modules translated from the C++ sources, TLC configurations that
check them on small instances, and TLAPS proofs of the properties that matter most
for every instance. Paths are relative to the repository; `Daemon.cpp` is
`src/Daemon.cpp` and so on. PROJECT.json maps each definition to its lines.

## The system

`ahkunixd` reads one physical keyboard, forwards every event to a virtual one, and
watches the last keys pressed. When they end in the trigger of a hotstring of the
loaded script, it hands the hotstring to a worker thread, which erases the trigger,
taps keys, waits, pastes texts through the clipboard, and obeys a Cancel hotkey.
`ahkunixctl` talks to it through `/tmp/ahkunix.sock`. Three threads matter:

| thread | code | shares |
|---|---|---|
| main, the event loop | `Daemon::run`, `handle_event` | script, ring and modifiers (`mutex_`) with the IPC thread; queue and flag (`macro_mutex_`, `stop_requested_`) with the worker; the virtual keyboard (`Impl::mutex`) with the worker |
| macro worker | `macro_worker_loop`, `execute_macro`, commands, clipboard | queue, flag, virtual keyboard; the desktop's clipboard with the user |
| IPC | `IpcServer::run`, callbacks of `daemon/main.cpp` | script, queue, `g_stop`, the status |

### Inventory

| component | state | operations | what is hard | what makes it correct | module |
|---|---|---|---|---|---|
| Macro queue and worker (`Daemon.cpp` 187-343, commands) | `macro_queue_`, `stop_requested_`, `macro_worker_stop_`, where each thread is | submit, request stop, stop worker, worker loop, the steps of a macro | three threads, a flag reset by its reader, a condition variable notified outside the mutex, a shutdown in two critical sections | nothing lost or run twice, a cancellation hits exactly the jobs before it and soon, no lost wakeup, the join returns | `MacroDispatcher` (abstract: `MacroService`) |
| Event loop, matching (`Daemon.cpp` 56-185, 345-427, `RingBuffer.cpp`) | ring, script, pressed modifiers, event in hand | read, track, forward, match, dispatch, clear; reload; leave | three critical sections per event with reloads between, bounded memory, copies of the keyboard's state, a kernel queue that overflows, an exception while the IPC thread is busy | matches as if all keys were remembered, no key counts twice, no phantom modifiers, the loop never waits for macros, a failed device ends the process | `Daemon`, `TriggerMatching` |
| Virtual keyboard (`UinputKeyboard.cpp`) | keys down on the device, the mutex | forward, tap, combination | two writers, one state per key, failing writes, keys held by the user | a paste is a Ctrl+V, the user's letters stay letters, nothing sticks | `VirtualKeyboard` |
| Clipboard pipeline (`Clipboard.cpp` 74-100) | the saved text, the desktop's clipboard | save, set, Ctrl+V, wait, restore, undo | external programs that fail or lie, applications that answer late, a user who copies | the right text is pasted and the user's is back afterwards | `ClipboardPipeline` |
| Clipboard programs (`Clipboard.cpp` 26-72, 136-250) | a pipe, a child process, bytes moved | pipe, spawn, write, close, wait; popen, read, pclose | texts longer than the pipe, interrupted writes, a child that dies at any point or fails after it took the text | no text cut short, what a call says is true, no child left behind, no wait for ever | `ClipboardProgram` |
| IPC server (`daemon/IpcServer.cpp`, callbacks in `daemon/main.cpp`) | `running_`, the queue of connections, the client served, the status | accept, read, obey PING, STATUS, STOP, LOAD, answer, close | silent, slow and leaving clients, a LOAD that throws, commands behind a STOP | answers tell the truth, nothing happens after STOP, everybody is served | `IpcServer` |
| Lifecycle (`daemon/main.cpp`, `Daemonizer.cpp`, `Signals.cpp`, `IpcServer::start/stop`) | socket name, who listens, who runs | check, open, bind, listen, run, signals, end, kill | processes started or ended together, crashes, ends by exception | one daemon, reachable, no one locked out | `Lifecycle` |
| Context and commands (`IfCommand.cpp`, `IncrementCommand.cpp`, `RandomAssignCommand` in `ScriptParser.cpp`) | the ints and the texts of a script's context, a counter file per name | assign, roll, decide, increment, interpolate, compute | a context shared by runs and outlived by a reload, a file rewritten in place by every daemon, arithmetic by rewriting of text | numbers consecutive over restarts, a macro says and decides by its own, arithmetic is right | `MacroContext`, `Interpolation` (reference: `MacroContextReference`); their control flow in `MacroDispatcher` |
| Script parser (`AhkParser.cpp`, `ScriptParser.cpp`) | the line it looks at, the triggers that wait, comment or not, depth of braces | scan triggers, stack them, collect a body, split braces, chain if and else, throw | bodies that end in three ways, lookahead past comments, braces in four styles, a recursive descent that shares a cursor | no trigger lost or read twice, no line in two bodies, a script is read as it was meant | `ScriptReader`, `ScriptBlocks` (reference: `ScriptReference`) |
| Texts of a line, layout (`AhkParser.cpp` 20-153, 517-629, `SendInputCommand.cpp` 49-115, `LayoutProfile.cpp`) | - | the keys of a trigger, a replacement and its tail, the parts of a Send, names of keys | escapes, counts, names in several spellings, modifiers that are dropped | the keys and texts are those written | `LineText` |
| Keyboard detection, client options, RAII and errors, packaging | - | one pass over `/dev/input`, option parsing | - | - | not modelled: pure I/O or no behaviour of their own |

## Modules

`MacroService` is the abstract specification of the worker: a queue, at most one
active job, and whether it is doomed. A doomed job may begin at most one more unit.

`MacroDispatcher` is the real one. Each critical section on `macro_mutex_` is an
action, and so is each notification (`Notify`, outside the mutex), each poll of
`stop_requested_` (`Checkpoint`) and each unit of output. A macro is a *program*:
backspaces, then its commands or the legacy paste with tail keys (`Program`); a unit
is one tapped key, one 10 ms slice of a sleep, one paste, one silent command, or an
`If` that replaces itself by a branch (`ChooseBranch`). A thread that calls into the
dispatcher is a `caller` with its own place; the condition variable is the worker's
state "blocked" with spurious wakeups. A unit may throw (`UnitThrows`), which ends
the macro as the handler in `macro_worker_loop` does.

`TriggerMatching` holds the pure part of matching: the ring's `Push` and `EndsWith`,
`RingCapacity`, `ModifiersMatch`, and the scan `FindMatch`, next to `BestMatch`, the
reference definition over the unbounded history of keys.

`Daemon` is the event loop with the three critical sections of `handle_event` as
three actions, the kernel's queue of events, which is emptied when it overflows
(`Strike`), the IPC thread's commands (LOAD as three steps: cancel, parse, swap), and
the worker *as* `MacroService` (an INSTANCE whose actions are conjoined): what
`MacroDispatcher` is shown to implement is all the loop relies on. `run()` is left
through `g_stop` (`LeaveLoop`) or by an exception (`DeviceFails`), after which the
destructors end the server's thread (`StopServer`, `Unwind`) and the worker
(`CloseWorker`, `JoinWorker`).

`VirtualKeyboard` has every `write()` to uinput as a step, under the mutex of the
operation, of two threads; the kernel drops presses of keys that are down and
releases of keys that are up. `struck` is what an application sees of the virtual
device. (The physical device is not grabbed: `EVIOCGRAB` is commented out in
`EvdevKeyboard.cpp` 45-55, against README.md:53 "Grabs `/dev/input/eventX`
exclusively"; what the desktop makes of the two devices together is not modelled.)

`ClipboardPipeline` is `paste_text_synchronously` with the application that answers
Ctrl+V and the user who copies as actors. Five misfortunes may happen (`Faults`): a
program that reads or sets the clipboard fails, Ctrl+V cannot be written, the user
copies meanwhile, the application is late. The history variable `misfortunes` holds
those that did, so each promise states what it survives, in one run of all of them.

`ClipboardProgram` is what `set_text` and `get_text` do below that: `run_with_stdin` and
`read_stdout`, one action per system call, with the ends of the pipe each process holds,
and the program as an actor that reads or writes as much as it likes, succeeds, fails
or dies. Texts are lengths and the number of the call they belong to.

`IpcServer` has the server's thread, clients that write in pieces, leave or say
nothing, the two copies of what is loaded, and the main thread as far as it decides
when the socket is closed. A client that stays is `ahkunixctl`: it reads to the end of
file and exits by what it read (`Exit`). A connection closed by the server, by the end
of the daemon or by the kernel (`Kill`) with something unread in it is `reset`.

`Lifecycle` has several processes and the socket name, each system call a step.
`crowded` remembers whether one began to start or to end while another was doing so,
which no lock of the program prevents: most promises hold until then.

`MacroContext` has daemons that are started, killed and reloaded, the contexts of the
scripts each was given, the macro its worker runs, and the counter files. An increment
is three steps (`Read`, `Truncate`, `Write`) between which the daemon may be killed, the
other may count, and the disk be full. `Commands` are those that occur in scripts and
in branches, of which `ScriptsAssumption` says what the parser guarantees. `Interpolation` is the pure part: a text is a
sequence of digits, symbols and variables, `Interpolate` puts the variables' values in and
`Evaluated` rewrites the innermost parentheses, pass by pass. A condition compares a
variable or a `random(lo, hi)` (`Decide`); one of any other form throws, which for the
macro is an end like others (`End`). `MacroContextReference`
says what an expression is worth by exact arithmetic, without rewriting: a *sheet* is a
sequence of lines, each a number, a time, or an operation on two lines before it.

`LineText` is the pure part of a line: trigger expressions, replacements with their tail
keys, the parts of a Send, the tables of keys and modifiers. A text is a sequence of
tokens (a character, or a word such as the name of a key).
`ScriptBlocks` is that of a body, on the *kinds* of lines (a trigger, an If with its
brace, a brace alone...) and their texts: `Preprocess`, and `ParseBlock`, a recursive
function of the line and of the way it is come by ("top", "braces", "chain") for the
mutually recursive `parse_block_lines` and `parse_if_chain`.
`ScriptReader` is `parse_file`, one action for each branch of its loop.
`ScriptReference` says what a script means without the way it is read: programs are
trees, `Render` lays them out in the styles of README.md and of `examples/`, with their
triggers and texts spelled out, and `Meaning` is what reading the layout should give.
The Ifs of all programs are the constant `Levels`, a sequence of sets in which each is
made of earlier ones, so that both are recursive functions on them. The parser knows more
kinds of lines than the layouts use: `Else If (...)` with its brace on the next line, `}`
with `Else`, another `}` or a command behind it, and comments inside of bodies are in the
files of any lines, not in the programs; of lines that begin with braces there are those
with one (`Leading`) or two and nothing else, where the code takes off any number. What a program may
be is said by `IsProgram`, which TLC evaluates of every program it lays out
(`LevelsAssumption`, `ProgramsAssumption`): texts are not empty, keys have names, no two
texts of a Send are next to each other (they are read as one), a macro without a Return
has only comments of one line behind it, and comments between macros are closed.

The `MC...` modules give the constants values; a `.cfg` per run. Definitions named
`Action_Slip` are plausible mistakes (a guard dropped, an order swapped); no
next-state relation uses them. Each checked property has one that breaks it.

## Runs

| run | asks | size |
|---|---|---|
| `dispatcher` | `FifoExact`, `CancelExact`, `LateBound`, `ShutdownExact`; with fairness `EveryJobServed`, `ShutdownCompletes` and the refinement `ImplementsService` | 4 hotstrings (erase+paste+tail, branches, sleep, Cancel), 4 submissions, 186,000 states |
| `daemon_matching` | `RingExact`, `MatchExact`, `NoPhantomModifier` | 5 key events over a queue of 3, 1 reload, 4.1 million states |
| `daemon_worker` | `AncientBound`; with fairness `KeyboardAlive`, `FailureCloses` | 7 events, 2 reloads, a worker of which nothing is assumed, 189,000 states |
| `keyboard` | `KeyboardInv` (`NothingStuck`), `PasteExact` (`PasteHasCtrl`, `PasteArrives`), `UserKeysPlain` | 3 operations of each thread, any write may fail, 393,000 states |
| `clipboard` | `Restored`, `PastedExact` | 2 pastes, 2 copies, all misfortunes, 318,000 states |
| `clipboard_programs` | `ProgramInv` (`NeverCut`), `CallsTell` (`OkIsThere`, `GetExact`), `NoneLeft`; with fairness `Returns` | 3 calls, texts of up to 5 through a pipe of 2, 318,000 states |
| `ipc` | `ServerInv` (`StatusTruthful`, `ExitTruthful`), `NothingAfterStop`, `LoadExact`; with fairness `QueueMoves` | 3 clients (PING, LOAD in two writes, STOP), a load may throw and the daemon be killed at any step, 227,000 states |
| `lifecycle` | `TurnsKept` (`OneDaemon`, `Reachable`), `NameRemoved`, `CrashRecovers` | 3 processes, all faults, 105,000 states |
| `variables` | `NumbersConsecutive`, `OwnNumber`, `BranchExact`, `MathExact` | 2 daemons, 2 scripts, 3 starts or loads, 2 macros, two readings of the clock at each of three places, ints from -7 to 6, 272,000 states |
| `script` | `ReaderInv` (`InOrder`, `BodiesApart`), `TriggersAccounted`, `ReadsWhatIsWritten` | laid out programs and all short files, 591,000 states |

Each run checks its module's `TypeOK` too, where it is not another run of the same
module that does: by name, or as the first conjunct of the `...Inv` of the table
(`TurnsKept` for `Lifecycle`). An invariant made of several names the parts in brackets.

### Disagreements with the documentation

Runs whose names end in `_doc` check what a document of the repository says, and TLC
finds it violated:

| run | the text | what the code does |
|---|---|---|
| `daemon_stop_doc` | README.md:157, stop stops | blocking reads: `g_stop` is not looked at after the first key |
| `script_doc` | README.md:19 and 110, the hotstring `:*?:hlo::` | the only layout has Cyrillic letters: such a trigger throws, and the whole script is refused |

Seen while modelling, and kept here without a run of their own:

* README.md:151, `ping` tells whether the daemon is alive: after a STOP a ping is
  queued by the kernel and not served while the daemon is in its blocking read.
* Daemon.hpp:49, `pressed_keys_` are the modifiers pressed: a reload forgets those held,
  so the hotkey of a held modifier is missed until it is pressed again.
* README.md:21, Alt hotkeys insert text: the paste adds Ctrl and takes nothing away, so
  while Alt is down the application sees Ctrl+Alt+V.
* Daemon.cpp:84, forwarding is transparent: a tap or a paste of a key the user holds
  ends with its release on the virtual device. (`UserKeysPlain` and `NothingStuck` say
  what is still true.)
* logic_and_interrupts.ahk:6, Cancel releases stuck keys: it writes nothing.
* PROJECT_DESCRIPTION.md:126 says 75 ms, Clipboard.cpp:85 waits 120 ms; an application
  slower than either inserts the restored text. That is the misfortune "slow", which
  `PastedExact` excludes.
* PROJECT_DESCRIPTION.md:22, the clipboard is preserved: one that cannot be read counts
  as empty and is replaced by the empty text, and a first `set_text` that throws after
  the fact stands outside the `try` and is not undone ("get" and "set" of `Restored`).
* PROJECT_DESCRIPTION.md:114, a macro that contains Cancel is not queued: one whose
  Cancel is inside a branch is, since `is_interrupt_macro` looks at top-level commands.
* README.md:25, a race-free paste that restores the user's data: a V pressed while the
  user holds V is dropped by the kernel and nothing is pasted (`PasteArrives` says when),
  and what the user copies during a paste is overwritten ("copy" of `Restored`).
* Lost input packets are never resynchronised: a modifier whose release was dropped
  counts as held until its next event (`stale`).
* main.cpp:140, "already running": two daemons started together both run (`crowded`).
* README.md:38, multi-line comments: they are recognised between macros and not inside
  a body, where their lines count as commands or end the body. So does a comment of one
  line with a `::` in it (`; F1::x`, the kind "headernote"): `looks_like_trigger_line` takes
  it for a trigger, and the commands below it are lost.
* A Return inside `If (...) {` ends the body, because only a brace alone on its line
  counts for the depth (`Depth`); an Else that follows no If ends the parsing of its
  macro without a word; `x = 1` inside a body does nothing, so the toggles of
  `examples/markdown_overlay.ahkl` do not toggle.
* `Random` sets ints, which conditions read; assignments and counters set texts, which
  interpolation reads. So `%n%` never shows what Random rolled, a condition never sees a
  counter or an assignment, and `%n%` is empty after a reload until n is incremented.
* Hotstring.hpp:28, a context for "all commands in this hotstring": all hotstrings of a
  script share one. A value of one macro decides a branch of another.
* Every occurrence of a time reads the clock anew: `%A_Hour%:%A_Min%` may be an hour off,
  and `%A_Hour% %A_Hour%` show two hours. (`Speak` gives each place its own reading.)
* A counter at `INT_MAX` is incremented all the same (IncrementCommand.cpp:45): undefined in
  C++. `Read` has it go round to the least int, which is what the build does.
* Products of literals beyond the ints are computed in `long long` and may overflow it
  before they are clamped (undefined), and a literal beyond `long long` counts as 0; the
  model stays below both.
* Parentheses nested deeper than `max_passes` stay in the text, computed in part.
* A `:` header without options, `::btw::text`, is read from its last colon (`rfind` from
  -1): the trigger is `text`, the replacement `btw::text`. `::` alone and `Ctrl & ::`
  have no key, and fire on every press.
* A modifier without a name in the table (RCtrl, AltGr) and the second of two are dropped
  without a word (AhkParser.cpp:38): the hotkey fires without them.
* Replacements: keys between texts go behind all of the text; `F1::{Enter}`, keys
  without text, types nothing; `{}}` gives an empty name and throws, in a Send too. Spintax,
  `{~A|B}` of examples/spintax_and_counters.ahk:8, is an unknown key and throws.
* A body without a Return whose commands are ShowMarkdown or `n++` alone, which the
  scanner does not know (`Actions`), is pasted as text.
* A program that dies before it read its text leaves a zombie: `WriteThrows` does not
  wait for it.
* `ahkunixctl` takes an empty answer for success (`response_is_error`, cli/main.cpp:112):
  when the daemon is killed while it serves a LOAD, the client exits with 0
  (`ExitTruthful` excludes it).
* The first `ahkunixd` returns from the double fork before its daemon has bound the
  socket: a command sent at once is refused, and a second daemon may be started.
* The last flush of `pending_triggers` in `parse_file` never has anything to flush: a
  trigger with no trigger after it collects a body.

### Bounds, and why they are enough

* Submissions (`MaxSubmits`): four put one job in the worker, one in the queue and
  leave two to be typed before and after a cancellation; the proofs below hold for any.
* Keys: two modifiers, the two sides of one, and two letters. `MinTrigger` and
  `RingSlack` are 1 and 0 instead of 16 and 8, which makes the ring forget after two
  or three keys, and leaves no slack for a mistake to hide in; `MaxEvents` 5 overflows it.
  `QueueSize` 3 lets the kernel's queue overflow with a press and a release in it.
  `daemon_worker` has one key and 7 events, since its question is about macros in
  flight: three of them, and two reloads between them.
* Reloads: one where the question is about the swap, two where it is about what
  survives a second one.
* Virtual keyboard: `MaxStrokes` 3 lets a tap or a paste fall between the press and the
  release of two different keys of the user.
* Clipboard: two pastes, so that one follows another that went wrong, over three
  contents, one of them empty. The proofs hold for any number of either.
* IPC: one client of each kind; the LOAD is cut in two so that a name that is not yet
  complete may be obeyed. Lifecycle: three processes, one to run, one to end badly, one
  to come after.
* Clipboard programs: a pipe of 2 and texts of 0 to 5, so that a text is empty, fits, or
  needs several rounds; three calls, so that what one leaves behind meets the next.
* Variables: one counter, absent or one below the greatest int (`IntMax` 6 for
  `INT_MAX`), two numbers issued on each name, and three starts or loads: a restart and a
  reload, or two daemons and one. `MaxPasses` is 3 for 16, as deep as the
  deepest expression.
* Scripts: two macros, the first with or without a Return, the second with every
  statement of a depth of two in four styles of braces, and comments, assignments and
  stray lines between; next to them every trigger and every saying of some letters, escapes
  and keys in four ways to write a macro, every file of three lines of any kind, and of
  five lines of the eight kinds that bodies end or nest by.

Deadlock is checked for the dispatcher. In the other modules the world may really
stop: the user stops typing, no client comes, the bound on copies is reached, the
script is read.

### Fairness

* `MacroDispatcher`: each thread is scheduled (weak fairness of its steps); a paste is
  assumed to end. Nothing is assumed of the user, of a cancellation or of spurious wakeups.
* `Daemon`: weak fairness of the main thread, of a command the server has begun to serve
  (its reads have timeouts) and of the steps of a LOAD; none of the worker, since a
  clipboard program may hang it (`waitpid` has no timeout), nor of keys and clients.
* `ClipboardProgram`: the worker is scheduled, and the program reads, writes and ends as
  long as it can: it does not hang. It may die, but need not.
* `IpcServer`: the server's thread, whose waits have timeouts, and the main thread's
  way out once it has left its reads; no client.
* The other modules have safety properties only.

## Proofs

`MacroDispatcherProofs` proves, for any hotstrings, programs and number of
submissions, from the assumption on the constants that `MacroDispatcher` states:

* `TypeCorrect`: `Spec => []TypeOK`;
* `Inductive`: `Spec => []IInv`. The safety properties are not inductive alone.
  `IInv` adds what relates the history (`log`, `started`, `cancelled`) to the program:
  the counters are ordered, the queue is the rest of the log after both, a job before
  `cancelled` is doomed exactly while the flag is up, the worker that has passed a
  checkpoint has seen the flag down unless a cancellation came since (which bounds
  `late` by one), and what each place of the main thread's shutdown implies. The
  proof goes action by action;
* `Fifo`, `Cancellation`, `LateUnits`, `Shutdown`: the four safety properties from it;
* `Refinement`: `Spec => Service!Spec`, each action mapped to one of `MacroService`
  or to a stutter, from the same invariant.

`ClipboardProofs` is about the two modules of the clipboard. Its first part proves of
`ClipboardPipeline`, for any contents and numbers of pastes and copies:

* `TypeCorrect`, whatever happens;
* `Restoring`: `Spec => []Restored`; the invariant `Kept` says where the user's text is
  at each place (on the clipboard, or saved) as long as only Ctrl+V has failed;
* `Pasting`: `Spec => []PastedExact`; the invariant `Awaited` says that a Ctrl+V is
  unanswered only during the wait, and for the text on the clipboard, as long as only
  the programs have failed. TLC finds that neither set of misfortunes can grow.

The assumption of each is the named `ASSUME` on the constants of its module, which TLC
evaluates in the runs. The bounds (`MaxSubmits`, `MaxPastes`, `MaxCopies`) are any
naturals.

Its second part proves of `ClipboardProgram`, for texts of any length, any capacity of
the pipe and any number of calls:

* `Inductive`: `ProgramSpec => []IInv`, which adds to the properties where the bytes of the text in
  hand are (not yet written, in the pipe, read), who holds which end of the pipe at each
  place of the call, that programs and calls have numbers of their own, and how a program
  that nobody waited for came to be;
* `NothingCut`, `TrueToTheCaller`, `NobodyLeft`: the three safety properties from it.

`DaemonProofs` begins with `ChoosesAlike`: for scripts, triggers and histories of any length,
`FindMatch` on a ring of `RingCapacity` is `BestMatch` on all keys typed. The two scans
(over the triggers for the capacity, over the hotstrings for the best) are recursive
functions, and what they return is proved by induction over the position: `Least` takes
a least counterexample from the well-founded order of the naturals, `UpTo` makes of it the
induction the scans need, and `ScanExists` says that the functions exist. The rest is
that a suffix as long as the longest trigger ends with the triggers the whole ends with.

It goes on to prove, for any keys, scripts, size of the kernel's queue and numbers of
events and reloads, with the worker as `MacroService`:

* `Inductive`: `Spec => []IInv`. `IInv` adds to the types: outside "dispatch" and "clear"
  the ring is the suffix of `typed` of the length the script demands (`RingWell`); of
  every modifier the last event that was not lost tells whether it is held, be it
  queued, in hand or recorded (`ModifiersWell`); of the jobs that are not cancelled one
  at most is older than the reloads allow, and while one that old waits to be dispatched
  there is none (`JobsYoung`, where a LOAD under way counts already);
* `Typed`, `RingRemembers`, `MatchesExactly` (with `ChoosesAlike`), `ModifiersReal`,
  `AncientAlone`: the type invariant and the four safety properties from it.

`VirtualKeyboardProofs` proves for any keys and modifiers and any number of operations,
any write of which may fail, from the assumption that V is neither a modifier nor tapped
by macros:

* `Inductive`: the invariant `Stage` lists, for each operation, what is left to write and
  which keys it still owes a release; `Counted` relates the pastes begun to those struck;
* `NothingSticks`, `PastesStruck`, `UserKeysSeenPlain`: the three properties from it.

`LifecycleProofs` proves for any number of processes and all faults:

* `Inductive`: as long as the processes take turns, one is under way at most, the name
  leads to the one that runs and is free when it is to be bound (`Turns`); turns or not, a
  name is that of a process that will remove it (`Owned`), as long as none was killed;
* `OneAndReachable`, `NoNameLeft`, `NobodyLockedOut`: the three properties from it.

`IpcServerProofs` proves for any clients, commands in any number of pieces, loads that
fail and a daemon that is killed:

* `Inductive`: the two copies of what is loaded differ only between the swap and the
  callback, and are otherwise the history `granted`, the path of the last LOAD that was
  answered with OK (`CopiesAgree`); at each place the command is what brought the server
  there (`ServedWell`), and a closed connection was answered truthfully (`ClosedWell`);
* `Truthful`, `StopIsLast`, `LoadsExact`: one invariant and two action properties from it.
  `LoadsExact` speaks of every step: those that answer a LOAD with anything but OK, and
  those of every other command and client, leave what is loaded.

`ReaderProofs` has two parts. The first proves for files of any length, whatever their
lines are:

* `Inductive`: at every line, the hotstrings read so far have their lines and bodies above
  it, in order and apart (`WellRead`); the triggers that wait are above it too, below all
  of those, and in order (`Waiting`); and every trigger above it is in a comment, taken
  or waiting (`Accounted`). Of where a body ends only this is used: behind its trigger, and
  before the next one or behind a Return (`BodyEndAhead`);
* `ReaderKeeps`: the whole of `ReaderInv`. What `TypeOK` adds to the order of lines is
  that each hotstring's keys are those of the layout's tables, its modifiers have names,
  and its body is below its trigger (`Shaped`), which rests on `KeysOfTables`: whatever
  the text of a trigger is, `ParseKeys` throws or returns keys of the tables;
* `ReadInOrder`, `NoLineTwice`, `NoTriggerLost`: the three properties from it.

The second proves `ReadsAsMeant`, `ReferenceSpec => []ReadsWhatIsWritten`: for programs of
any length, with bodies of any length and depth in all styles of braces, texts and
triggers of any length, and anything between the macros that `IsBetween` allows, from
the two assumptions on the programs and nothing else. What the parser makes of each kind
of text is proved first:

* `SendParsed`, `ReplacementParsed`, `TriggerParsed`: `ParseSequence`, `ParseReplacement` and
  `TriggerOf` give back what a Send, a text with keys behind it and the header of a trigger
  were written from. The cutting of a text at braces is a recursive function from the
  end of the text, and what is put together grows with each piece; where each piece is,
  when all are concatenated, is known by induction over their number (`Stands`, `StandsFlat`);
* `BodyParsed`: `ParseBlock` of the lines of a body, and of any comments behind it, is
  its tree. The functions of the two recursive descents exist by induction from the last
  line up (`ReadExists`), and what they return from a line depends only on the lines
  from there. That every If is read as its tree is an induction over `Levels`: it
  holds of an If when it holds of those in it (`LevelByLevel`);
* `BodyShut`: the scanner's `Depth`, which counts only braces alone on their lines, is
  nothing behind the last line of a body, and no line of the body ends it. A body in
  the "inline" style closes braces that were not seen to open, so this rests on the
  count never falling below nothing;

and then how far the reader is (`ReadRight`, inductive together with the invariant of the
first part): at each line of the file of a program it is before or at the triggers
of a macro, or at the end; comments are open where the lines between macros open
them; the triggers that wait are those of the macro above the line (`OnTheWay`); and the
hotstrings are the meaning of the macros above it, each with its own keys and commands. `MacroPlaces` says
where in the file each macro is, and `LeastIs`, with `EndIs`, that the body found there ends where it was
written to end: at its Return, the next trigger, or the end of the file.

`MacroContextProofs` proves, for any daemons, names and scripts and any number of starts,
loads, macros and increments, from the assumptions that ints are bounded by a natural
(`IntAssumption`), that names are not those of times
(`ContextAssumption`), that commands are as the parser makes them
(`ScriptsAssumption`) and, for arithmetic, that the literals are ints, that no line of a sheet
nests deeper than there are passes, and that times read as numbers (`SheetsAssumption`):

* `Inductive`: `Spec => []IInv`. A macro that is under way has a context of the daemon it
  runs in (`Placed`), and what it rolled and drew stands there until it ends (`Kept`),
  because reloads append contexts and one macro of a daemon runs at a time. As long as
  no misfortune happened (`FilesExact`), a counter's file holds the last number issued,
  but while it is being rewritten, and the number about to be written is the one after;
* `Types`, `CountersCount`, `SaysWhatItDrew`, `DecidesByItsRoll`: the type invariant and the
  three safety properties from it;
* `SaidPlain`: a text without parentheses is pasted as it is, however many passes there
  are. The second phase of `Interpolate` is a recursive function over the passes and,
  in each, a scan and a concatenation of texts; `Recursion`, from `Least` and `UpTo`, gives
  the induction over positions, `FlattenIs` and `FlattenConcat` what concatenation does;
* `SheetSaid`: what interpolate makes of a sheet, for any number of lines, any numbers, any
  reading of the clock at each place of a time, and any nesting up to `MaxPasses`: each line
  is pasted as its worth. A match depends only on the
  tokens it spans (`MatchShift`, `MatchHere`), so a pass on texts side by side is the passes
  on each, as long as no match reaches over (`PassConcat`); a pass on an operation with
  operands that are numbers writes its result (`PassOperation`), on any other it is a pass
  on its operands (`PassSpelled`). Therefore after n passes a line is its worth if it nests n
  deep or less, and is laid out with its operands' texts if not (`AtPass`). `ApplyExact` says
  that the arithmetic of the code is exact arithmetic clamped to the nearest int, and cut
  towards zero in a quotient. `SubstitutedSpelled` and `FirstPhase` do the like for the
  variables;
* `ArithmeticRight`: `Spec => []MathExact`, from that and from the invariant
  `SaysInterpolated`, that what is said is what interpolate makes of the text with the readings of its places.

Only model-checked:

* liveness, and with it the fairness of `ImplementsService`, whose safety is `Refinement`:
  fairness and ENABLED are out of the prover's reach;
* what is read of a script that is *not* laid out properly, beyond `ReaderInv` and
  `TriggersAccounted`: which texts throw, and what an unbalanced body is read as. That
  such files lose no trigger and share no line is proved; TLC reads every one of a few lines.

Every invariant and every action property of a passing run is stated by a theorem.

## Plan

Done: the dispatcher first, being the heart of the program and the most concurrent;
the loop on top of its abstract specification, with lost events and both its ends; the
two devices the worker writes to, and the programs behind one of them; the server; the
processes; the parser, down to the texts of its lines; variables and counters; and the
proofs of the safety properties of all of these, arithmetic and the meaning of whole
scripts included.

Next, in this order:

1. Which texts and bodies `ParseSequence`, `ParseReplacement` and `ParseBlock` refuse, as a
   characterisation from both sides.
2. The choice between the clipboard programs, with a session whose tools change.

## Not modelled

* Memory as such: the use of the destroyed server by `~Daemonizer` appears in
  `Lifecycle` only by its effect on the socket name.
* The choice between the clipboard programs (`command_exists`, `has_env`): a search of
  PATH, whose result `ClipboardPipeline` takes as one of the misfortunes "get" and "set".
* The double fork and the redirection of descriptors of `daemonize`, keyboard detection,
  RAII, packaging: I/O once at the start, without state that later steps relate to.
* The options of both programs, and lint, which calls the same parser and prints.
* In a line, its splitting at `::`, quotes and commas, and the regular expressions of
  conditions: `LineText` and `ScriptBlocks` begin with what they yield.
* Errors of single calls that leave no state of their own: `ferror` after the program's
  output was read (Clipboard.cpp:166-174), and a `chmod` that fails, whose way out is that of
  `BindFails` (IpcServer.cpp:150-153).
* In a body, lines like `/* F1::x` or `v = a::b`, which end it as a "headernote" does.
* The grab of the device, which is commented out in the code (see `VirtualKeyboard`).
