------------------------------- MODULE Daemon -------------------------------
(***************************************************************************)
(* The event loop of the daemon (Daemon::run, handle_event), the state it  *)
(* shares with the IPC thread under mutex_ (the script, the ring of key    *)
(* codes, the modifiers held) and the two IPC commands that change it,     *)
(* LOAD (reload_script) and STOP.  The macro worker is MacroService: what  *)
(* MacroDispatcher was shown to implement.                                 *)
(*                                                                         *)
(* The keyboard and the kernel are external: key events queue up until     *)
(* they are read, and a read of an empty queue blocks, the device being    *)
(* opened without O_NONBLOCK.  A queue that overflows loses its events:    *)
(* libevdev says so with LIBEVDEV_READ_STATUS_SYNC, which read_event takes *)
(* for one more event.  Either device may fail.                            *)
(***************************************************************************)
EXTENDS TriggerMatching

CONSTANTS
    Scripts,        \* the scripts LOAD may name, sequences of hotstrings
    InitialScript,  \* the one the daemon was started with
    QueueSize,      \* events the kernel keeps for who does not read them
    MaxEvents,      \* bound on the key events of a behaviour
    MaxReloads      \* bound on the LOAD commands of a behaviour

ASSUME DaemonAssumption ==
    /\ Scripts \subseteq Seq(Hotstrings)
    /\ InitialScript \in Scripts
    /\ QueueSize \in Nat \ {0}
    /\ MaxEvents \in Nat
    /\ MaxReloads \in Nat

VARIABLES
    \* the world
    held,           \* the keys physically down
    kernel,         \* events not read yet
    events,         \* how many key events there have been
    \* the main thread
    main,           \* what it is doing
    event,          \* the event in hand
    matched,        \* the hotstring find_match returned, and its generation
    gStop,          \* g_stop
    \* under mutex_
    script,         \* hotstrings_
    ring,           \* ring_
    capacity,       \* its capacity_
    pressed,        \* pressed_keys_
    \* the IPC thread
    ipc,            \* what it is doing
    incoming,       \* the script just parsed
    \* history
    generation,     \* how many scripts were loaded since the start
    typed,          \* codes of the keys pressed since a match or a reload
    stale,          \* keys of which the last event was lost
    \* MacroService
    pending, active, doomed, overrun, open

worldVars   == <<held, kernel, events>>
mainVars    == <<main, event, matched, gStop>>
sharedVars  == <<script, ring, capacity, pressed>>
ipcVars     == <<ipc, incoming>>
historyVars == <<generation, typed, stale>>
serviceVars == <<pending, active, doomed, overrun, open>>
vars == <<worldVars, mainVars, sharedVars, ipcVars, historyVars, serviceVars>>

(* A job is a hotstring of the script of some generation.                  *)
Jobs == [of : Hotstrings, generation : Nat]
Worker == INSTANCE MacroService WITH Macros <- Jobs

Events == [code : Keys, value : {0, 1, 2}]      \* released, pressed, repeated
NoEvent == [code |-> CHOOSE k \in Keys : TRUE, value |-> 0]
NoMatch == <<>>

Leaving == {"failed", "unwinding", "stopping", "joining", "stopped"}
MainStates == {"poll", "read", "track", "forward", "match", "dispatch",
               "clear"} \cup Leaving
IpcStates == {"idle", "serving", "parse", "swap", "ended"}

TypeOK ==
    /\ held \subseteq Keys
    /\ kernel \in Seq(Events) /\ Len(kernel) <= QueueSize
    /\ events \in 0 .. MaxEvents
    /\ main \in MainStates
    /\ event \in Events
    /\ matched = NoMatch \/ matched[1] \in Jobs
    /\ gStop \in BOOLEAN
    /\ script \in Scripts
    /\ ring \in Seq(Keys)
    /\ Len(ring) <= capacity
    /\ pressed \subseteq Modifiers
    /\ ipc \in IpcStates
    /\ incoming \in Scripts
    /\ generation \in 0 .. MaxReloads
    /\ typed \in Seq(Keys)
    /\ stale \subseteq Keys
    /\ Worker!TypeOK

Init ==
    /\ held = {} /\ kernel = <<>> /\ events = 0
    /\ main = "poll" /\ event = NoEvent /\ matched = NoMatch /\ gStop = FALSE
    /\ script = InitialScript
    /\ ring = <<>>
    /\ capacity = RingCapacity(InitialScript)
    /\ pressed = {}
    /\ ipc = "idle" /\ incoming = InitialScript
    /\ generation = 0 /\ typed = <<>> /\ stale = {}
    /\ Worker!Init

----------------------------------------------------------------------------
(* The keyboard.  An event that finds the queue full empties it, and may   *)
(* be the only one left or lost as well.                                   *)
Codes(queue) == {queue[i].code : i \in DOMAIN queue}

Strike(code, value) ==
    LET e == [code |-> code, value |-> value]
    IN  /\ events < MaxEvents
        /\ events' = events + 1
        /\ IF Len(kernel) < QueueSize
             THEN kernel' = Append(kernel, e) /\ UNCHANGED stale
             ELSE /\ kernel' \in {<<e>>, <<>>}
                  /\ stale' = (stale \cup Codes(Append(kernel, e))) \ Codes(kernel')
        /\ UNCHANGED <<mainVars, sharedVars, ipcVars, generation, typed, serviceVars>>

PressKey(k)   == k \notin held /\ held' = held \cup {k} /\ Strike(k, 1)
ReleaseKey(k) == k \in held /\ held' = held \ {k} /\ Strike(k, 0)
RepeatKey(k)  == k \in held \ Modifiers /\ held' = held /\ Strike(k, 2)

----------------------------------------------------------------------------
(* The main thread.                                                        *)

(* The outer loop: g_stop is read here and only here.                      *)
PollReady ==
    /\ main = "poll"
    /\ ~gStop
    /\ kernel # <<>>
    /\ main' = "read"
    /\ UNCHANGED <<worldVars, event, matched, gStop, sharedVars, ipcVars,
                   historyVars, serviceVars>>

(* The inner loop runs until read_event reports that nothing is there,     *)
(* which a blocking read never does.                                       *)
ReadEvent ==
    /\ main = "read"
    /\ kernel # <<>>
    /\ event' = Head(kernel)
    /\ kernel' = Tail(kernel)
    /\ stale' = stale \ {Head(kernel).code}
    /\ main' = "track"
    /\ UNCHANGED <<held, events, matched, gStop, sharedVars, ipcVars,
                   generation, typed, serviceVars>>

(* A slip: the release of a modifier is not recorded.                      *)
Track_KeepsModifier ==
    /\ main = "track"
    /\ pressed' = IF event.code \in Modifiers /\ event.value = 1
                    THEN pressed \cup {event.code} ELSE pressed
    /\ IF event.value = 1
         THEN /\ ring' = Push(ring, event.code, capacity)
              /\ typed' = Append(typed, event.code)
         ELSE UNCHANGED <<ring, typed>>
    /\ main' = "forward"
    /\ UNCHANGED <<worldVars, event, matched, gStop, script, capacity, ipcVars,
                   generation, stale, serviceVars>>

(* handle_event's first critical section on mutex_.                        *)
Track ==
    /\ main = "track"
    /\ pressed' = IF event.code \in Modifiers /\ event.value = 1
                    THEN pressed \cup {event.code}
                  ELSE IF event.code \in Modifiers /\ event.value = 0
                    THEN pressed \ {event.code}
                  ELSE pressed
    /\ IF event.value = 1
         THEN /\ ring' = Push(ring, event.code, capacity)
              /\ typed' = Append(typed, event.code)
         ELSE UNCHANGED <<ring, typed>>
    /\ main' = "forward"
    /\ UNCHANGED <<worldVars, event, matched, gStop, script, capacity, ipcVars,
                   generation, stale, serviceVars>>

(* The event goes to the virtual keyboard; only a press is matched.        *)
Forward ==
    /\ main = "forward"
    /\ main' = IF event.value = 1 THEN "match" ELSE "read"
    /\ UNCHANGED <<worldVars, event, matched, gStop, sharedVars, ipcVars,
                   historyVars, serviceVars>>

(* find_match: the second critical section.                                *)
Match ==
    /\ main = "match"
    /\ LET best == FindMatch(script, ring, pressed)
       IN  IF best = 0
             THEN /\ main' = "read"
                  /\ UNCHANGED <<matched, typed>>
             ELSE /\ main' = "dispatch"
                  /\ matched' = <<[of |-> script[best], generation |-> generation]>>
                  /\ typed' = <<>>
    /\ UNCHANGED <<worldVars, event, gStop, sharedVars, ipcVars,
                   generation, stale, serviceVars>>

(* A slip: the macro is run before the loop goes on.                       *)
Dispatch_Waits ==
    /\ main = "dispatch"
    /\ active = <<>>
    /\ LET job == matched[1]
       IN  IF job.of.interrupt
             THEN Worker!CancelAll
             ELSE Worker!Accept(job)
    /\ main' = "clear"
    /\ matched' = NoMatch
    /\ UNCHANGED <<worldVars, event, gStop, sharedVars, ipcVars, historyVars>>

(* submit_macro, or request_macro_stop for an interrupt hotstring.         *)
Dispatch ==
    /\ main = "dispatch"
    /\ LET job == matched[1]
       IN  IF job.of.interrupt
             THEN Worker!CancelAll
             ELSE Worker!Accept(job)
    /\ main' = "clear"
    /\ matched' = NoMatch
    /\ UNCHANGED <<worldVars, event, gStop, sharedVars, ipcVars, historyVars>>

(* A slip: the keys of a trigger stay in the ring after it has fired.      *)
Clear_KeepsRing ==
    /\ main = "clear"
    /\ main' = "read"
    /\ UNCHANGED <<worldVars, event, matched, gStop, sharedVars, ipcVars,
                   historyVars, serviceVars>>

(* The third critical section.                                             *)
Clear ==
    /\ main = "clear"
    /\ ring' = <<>>
    /\ main' = "read"
    /\ UNCHANGED <<worldVars, event, matched, gStop, script, capacity, pressed,
                   ipcVars, historyVars, serviceVars>>

(* poll, read_event or forward throws, and run() is left.                  *)
DeviceFails ==
    /\ main \in {"poll", "read", "forward"}
    /\ main' = "failed"
    /\ UNCHANGED <<worldVars, event, matched, gStop, sharedVars, ipcVars,
                   historyVars, serviceVars>>

(* ~IpcServer: the IPC thread looks at no further client.                  *)
StopServer ==
    /\ main = "failed"
    /\ main' = "unwinding"
    /\ UNCHANGED <<worldVars, event, matched, gStop, sharedVars, ipcVars,
                   historyVars, serviceVars>>

(* A slip: the join waits for a STOP from a client.                        *)
Unwind_Waits ==
    /\ main = "unwinding"
    /\ ipc = "ended"
    /\ UNCHANGED ipc
    /\ Worker!CancelAll
    /\ main' = "stopping"
    /\ UNCHANGED <<worldVars, event, matched, gStop, sharedVars, incoming, historyVars>>

(* ~IpcServer joins the IPC thread after its command, and ~Daemon calls    *)
(* stop_macro_worker.                                                      *)
Unwind ==
    /\ main = "unwinding"
    /\ ipc \in {"idle", "ended"}
    /\ ipc' = "ended"
    /\ Worker!CancelAll
    /\ main' = "stopping"
    /\ UNCHANGED <<worldVars, event, matched, gStop, sharedVars, incoming, historyVars>>

(* The end of run(): stop_macro_worker, its two critical sections and the  *)
(* join.  Then the device is released.                                     *)
LeaveLoop ==
    /\ main = "poll"
    /\ gStop
    /\ Worker!CancelAll
    /\ main' = "stopping"
    /\ UNCHANGED <<worldVars, event, matched, gStop, sharedVars, ipcVars,
                   historyVars>>

CloseWorker ==
    /\ main = "stopping"
    /\ Worker!Close
    /\ main' = "joining"
    /\ UNCHANGED <<worldVars, event, matched, gStop, sharedVars, ipcVars,
                   historyVars>>

JoinWorker ==
    /\ main = "joining"
    /\ active = <<>>
    /\ main' = "stopped"
    /\ UNCHANGED <<worldVars, event, matched, gStop, sharedVars, ipcVars,
                   historyVars, serviceVars>>

----------------------------------------------------------------------------
(* The IPC thread: one client, one command at a time.                      *)
(* running_, which accept_pending_clients looks at before each client.     *)
ServerRuns == main \notin Leaving \ {"failed"}

Serve ==
    /\ ipc = "idle"
    /\ ServerRuns
    /\ ipc' = "serving"
    /\ UNCHANGED <<worldVars, mainVars, sharedVars, incoming, historyVars, serviceVars>>

(* PING, STATUS, an unknown command, or a client that says nothing.        *)
Answer ==
    /\ ipc = "serving"
    /\ ipc' = "idle"
    /\ UNCHANGED <<worldVars, mainVars, sharedVars, incoming, historyVars, serviceVars>>

(* A slip: a reload leaves the macros of the old script alone.             *)
BeginReload_NoCancel ==
    /\ ipc = "serving"
    /\ generation < MaxReloads
    /\ ipc' = "parse"
    /\ UNCHANGED <<worldVars, mainVars, sharedVars, incoming, historyVars,
                   serviceVars>>

(* LOAD: the running macro is cancelled before the script is looked at.    *)
BeginReload ==
    /\ ipc = "serving"
    /\ generation < MaxReloads
    /\ Worker!CancelAll
    /\ ipc' = "parse"
    /\ UNCHANGED <<worldVars, mainVars, sharedVars, incoming, historyVars>>

(* parse_file returns, or throws and nothing else changes.                 *)
ParseScript ==
    /\ ipc = "parse"
    /\ \/ ipc' = "swap" /\ incoming' \in Scripts
       \/ ipc' = "idle" /\ UNCHANGED incoming
    /\ UNCHANGED <<worldVars, mainVars, sharedVars, historyVars, serviceVars>>

(* A slip: the ring of the old script is kept, and with it its capacity.   *)
SwapScript_KeepsRing ==
    /\ ipc = "swap"
    /\ script' = incoming
    /\ pressed' = {}
    /\ generation' = generation + 1
    /\ typed' = ring
    /\ ipc' = "idle"
    /\ UNCHANGED <<worldVars, mainVars, ring, capacity, incoming, stale,
                   serviceVars>>

SwapScript ==
    /\ ipc = "swap"
    /\ script' = incoming
    /\ ring' = <<>>
    /\ capacity' = RingCapacity(incoming)
    /\ pressed' = {}
    /\ generation' = generation + 1
    /\ typed' = <<>>
    /\ ipc' = "idle"
    /\ UNCHANGED <<worldVars, mainVars, incoming, stale, serviceVars>>

(* STOP: the callback sets g_stop, and the server's loop ends.             *)
Stop ==
    /\ ipc = "serving"
    /\ gStop' = TRUE
    /\ ipc' = "ended"
    /\ UNCHANGED <<worldVars, main, event, matched, sharedVars, incoming,
                   historyVars, serviceVars>>

----------------------------------------------------------------------------
(* The worker.                                                             *)
WorkerStep ==
    /\ Worker!Begin \/ Worker!Unit(FALSE) \/ Worker!End
    /\ UNCHANGED <<worldVars, mainVars, sharedVars, ipcVars, historyVars>>

KeyboardStep == \E k \in Keys : PressKey(k) \/ ReleaseKey(k) \/ RepeatKey(k)
MainStep ==
    \/ PollReady \/ ReadEvent \/ Track \/ Forward \/ Match \/ Dispatch \/ Clear
    \/ LeaveLoop \/ StopServer \/ Unwind \/ CloseWorker \/ JoinWorker
Command == Answer \/ BeginReload \/ Stop
IpcStep == Serve \/ Command \/ ParseScript \/ SwapScript

Next == KeyboardStep \/ DeviceFails \/ MainStep \/ IpcStep \/ WorkerStep

Spec == Init /\ [][Next]_vars

(* The main thread is scheduled, and a client that is served is finished.  *)
(* Of the worker nothing is assumed: a clipboard program may hang it.      *)
LoopFairness ==
    /\ WF_vars(MainStep)
    /\ WF_vars(Command)
    /\ WF_vars(ParseScript)
    /\ WF_vars(SwapScript)

FairSpec == Spec /\ LoopFairness

----------------------------------------------------------------------------
(* Properties.                                                             *)

(* Between two events the ring holds the most recent keys pressed since    *)
(* the last trigger fired, so no key press counts towards two triggers,    *)
(* and a reload in the middle of handle_event does not mix the keys of     *)
(* two scripts.                                                            *)
RingExact ==
    main \notin {"dispatch", "clear"} => ring = Suffix(typed, capacity)

(* The bounded ring decides as the whole history of keys would, for every  *)
(* script ever loaded: its capacity follows the script, and what it forgot *)
(* could not have been part of a trigger.                                  *)
MatchExact ==
    main = "match" =>
        FindMatch(script, ring, pressed) = BestMatch(script, typed, pressed)

(* A modifier the daemon believes down really is, once it has caught up,   *)
(* or the kernel lost its release and no event of it came since: read_event *)
(* asks for no resynchronisation, and the next press or release heals it.  *)
CaughtUp == main \in {"poll", "read"} /\ kernel = <<>>
NoPhantomModifier == CaughtUp => pressed \subseteq held \cup stale

(* A reload cancels the macros of the script it replaces, so after two of  *)
(* them at most one macro of a script older than the previous one is left  *)
(* uncancelled: the one that find_match had returned, and the main thread  *)
(* had not yet submitted, while the scripts were swapped.                  *)
AncientBound ==
    LET live == IF doomed THEN pending ELSE active \o pending
        Ancient(i) == live[i].generation < generation - 1
    IN  \A i, j \in DOMAIN live : Ancient(i) /\ Ancient(j) => i = j

(* Until it is told to stop the loop keeps reading and forwarding, with    *)
(* the worker blocked on a clipboard program or in a long macro.           *)
KeyboardAlive == (kernel # <<>>) ~> (kernel = <<>> \/ gStop \/ main \in Leaving)

(* A device that fails ends the daemon, a LOAD in the IPC thread           *)
(* notwithstanding: no further macro begins.                               *)
FailureCloses == (main = "failed") ~> ~open

(* README.md: "Safely stop the daemon and ungrab the keyboard".            *)
StopEnds == gStop ~> (main \in Leaving)
=============================================================================
