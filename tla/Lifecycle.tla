----------------------------- MODULE Lifecycle -----------------------------
(***************************************************************************)
(* The life of ahkunixd processes (daemon/main.cpp, Daemonizer,            *)
(* IpcServer::start and stop), and the one thing they share: the name      *)
(* /tmp/ahkunix.sock in the file system.  A process looks whether someone  *)
(* listens there, takes the name by removing and binding it, and removes   *)
(* it when it ends; it may be told to end, fail, or be killed at any step. *)
(*                                                                         *)
(* The kernel is external: a connect succeeds when the name leads to a     *)
(* socket that listens, a bind fails when the name exists.                 *)
(***************************************************************************)
EXTENDS Integers, FiniteSets

CONSTANTS
    Daemons,        \* processes of ahkunixd
    Faults          \* what may happen of "kill", "signal", "device"

Nobody == "nobody"

ASSUME LifecycleAssumption ==
    /\ Nobody \notin Daemons
    /\ Faults \subseteq {"kill", "signal", "device"}

VARIABLES
    pc,             \* [process] where main() is
    reading,        \* processes in the blocking reads of the inner loop
    stopped,        \* processes whose g_stop is set
    thrown,         \* processes whose main() is left by an exception
    listening,      \* processes whose socket listens
    name,           \* whose socket /tmp/ahkunix.sock is
    killed,         \* a process was killed
    crowded         \* one began to start or to end while another did

vars == <<pc, reading, stopped, thrown, listening, name, killed, crowded>>

Starting == {"check", "construct", "unlink", "bind", "listen"}
Ending == {"drop", "close", "remove", "again"}
Places == {"off", "run", "refused", "gone"} \cup Starting \cup Ending

TypeOK ==
    /\ pc \in [Daemons -> Places]
    /\ reading \subseteq Daemons
    /\ stopped \subseteq Daemons
    /\ thrown \subseteq Daemons
    /\ listening \subseteq {d \in Daemons : pc[d] \in {"run", "close"}}
    /\ name \in Daemons \cup {Nobody}
    /\ killed \in BOOLEAN
    /\ crowded \in BOOLEAN

Init ==
    /\ pc = [d \in Daemons |-> "off"]
    /\ reading = {}
    /\ stopped = {}
    /\ thrown = {}
    /\ listening = {}
    /\ name = Nobody
    /\ killed = FALSE
    /\ crowded = FALSE

Goto(d, place) == pc' = [pc EXCEPT ![d] = place]

(* Nothing is under way in the other processes.                            *)
Calm(d) ==
    \A e \in Daemons \ {d} :
        /\ pc[e] \notin Starting \cup Ending
        /\ pc[e] = "run" => e \notin stopped \ reading
Crowding(d) == crowded' = (crowded \/ ~Calm(d))

----------------------------------------------------------------------------
(* The start.                                                              *)
Launch(d) ==
    /\ pc[d] = "off"
    /\ Crowding(d)
    /\ Goto(d, "check")
    /\ UNCHANGED <<reading, stopped, thrown, listening, name, killed>>

(* A slip: the check is left out.                                          *)
Check_Skipped(d) ==
    /\ pc[d] = "check"
    /\ Goto(d, "construct")
    /\ UNCHANGED <<reading, stopped, thrown, listening, name, killed, crowded>>

(* "Daemon is already running", if the connection is accepted.             *)
Check(d) ==
    /\ pc[d] = "check"
    /\ Goto(d, IF name \in listening THEN "refused" ELSE "construct")
    /\ UNCHANGED <<reading, stopped, thrown, listening, name, killed, crowded>>

(* The keyboard and uinput are opened, or their exception ends main().     *)
Construct(d) ==
    /\ pc[d] = "construct"
    /\ \/ Goto(d, "unlink")
       \/ "device" \in Faults /\ Goto(d, "gone")
    /\ UNCHANGED <<reading, stopped, thrown, listening, name, killed, crowded>>

(* A slip: a name left over by another process is not removed.             *)
Unlink_Skipped(d) ==
    /\ pc[d] = "unlink"
    /\ Goto(d, "bind")
    /\ UNCHANGED <<reading, stopped, thrown, listening, name, killed, crowded>>

(* setup_socket, in its three system calls.                                *)
Unlink(d) ==
    /\ pc[d] = "unlink"
    /\ name' = Nobody
    /\ Goto(d, "bind")
    /\ UNCHANGED <<reading, stopped, thrown, listening, killed, crowded>>

Bind(d) ==
    /\ pc[d] = "bind"
    /\ name = Nobody
    /\ name' = d
    /\ Goto(d, "listen")
    /\ UNCHANGED <<reading, stopped, thrown, listening, killed, crowded>>

(* Another process bound the name in between: start() cleans up what is    *)
(* not its own, and throws.                                                *)
BindFails(d) ==
    /\ pc[d] = "bind"
    /\ name # Nobody
    /\ thrown' = thrown \cup {d}
    /\ Goto(d, "drop")
    /\ UNCHANGED <<reading, stopped, listening, name, killed, crowded>>

DropName(d) ==
    /\ pc[d] = "drop"
    /\ name' = Nobody
    /\ Goto(d, "close")
    /\ UNCHANGED <<reading, stopped, thrown, listening, killed, crowded>>

Listen(d) ==
    /\ pc[d] = "listen"
    /\ listening' = listening \cup {d}
    /\ Goto(d, "run")
    /\ UNCHANGED <<reading, stopped, thrown, name, killed, crowded>>

----------------------------------------------------------------------------
(* run(), and the two ways out of it.                                      *)

(* The first key: from now on the loop is in read_event.                   *)
FirstKey(d) ==
    /\ pc[d] = "run"
    /\ d \notin reading
    /\ reading' = reading \cup {d}
    /\ UNCHANGED <<pc, stopped, thrown, listening, name, killed, crowded>>

(* ahkunixctl stop reaches the process the name leads to.                  *)
StopCommand(d) ==
    /\ pc[d] = "run"
    /\ name = d
    /\ Crowding(d)
    /\ stopped' = stopped \cup {d}
    /\ UNCHANGED <<pc, reading, thrown, listening, name, killed>>

(* SIGTERM or SIGINT, once the handlers are in place.  They only set a     *)
(* flag, without SA_RESTART: poll is tried again, a blocked read returns   *)
(* EINTR and read_event throws.                                            *)
Signal(d) ==
    /\ "signal" \in Faults
    /\ pc[d] \in {"construct", "unlink", "bind", "listen", "run"}
    /\ Crowding(d)
    /\ stopped' = stopped \cup {d}
    /\ IF d \in reading
         THEN thrown' = thrown \cup {d} /\ Goto(d, "close")
         ELSE UNCHANGED <<thrown, pc>>
    /\ UNCHANGED <<reading, listening, name, killed>>

LeaveRun(d) ==
    /\ pc[d] = "run"
    /\ d \in stopped
    /\ d \notin reading
    /\ Goto(d, "close")
    /\ UNCHANGED <<reading, stopped, thrown, listening, name, killed, crowded>>

(* IpcServer::stop(), called by run_cleanup, or by the destructor when an  *)
(* exception unwinds main(): it closes the socket, and then removes the    *)
(* name, whoever it leads to by now.                                       *)
CloseSocket(d) ==
    /\ pc[d] = "close"
    /\ listening' = listening \ {d}
    /\ Goto(d, "remove")
    /\ UNCHANGED <<reading, stopped, thrown, name, killed, crowded>>

(* A slip: the name is left in the file system.                            *)
RemoveName_Skipped(d) ==
    /\ pc[d] = "remove"
    /\ Goto(d, "gone")
    /\ UNCHANGED <<reading, stopped, thrown, listening, name, killed, crowded>>

RemoveName(d) ==
    /\ pc[d] = "remove"
    /\ name' = Nobody
    /\ Goto(d, "again")
    /\ UNCHANGED <<reading, stopped, thrown, listening, killed, crowded>>

(* stop() runs once more: as the destructor after run_cleanup, or, when an *)
(* exception unwinds main(), as the cleanup handler that ~Daemonizer calls *)
(* on the server destroyed before it, whose path may be lost by then.      *)
RemoveAgain(d) ==
    /\ pc[d] = "again"
    /\ \/ name' = Nobody
       \/ d \in thrown /\ name' = name
    /\ Goto(d, "gone")
    /\ UNCHANGED <<reading, stopped, thrown, listening, killed, crowded>>

(* kill -9, or a crash, anywhere.                                          *)
Kill(d) ==
    /\ "kill" \in Faults
    /\ pc[d] \in Starting \cup Ending \cup {"run"}
    /\ killed' = TRUE
    /\ listening' = listening \ {d}
    /\ Goto(d, "gone")
    /\ UNCHANGED <<reading, stopped, thrown, name, crowded>>

Start(d) ==
    Check(d) \/ Construct(d) \/ Unlink(d) \/ Bind(d) \/ Listen(d)
Leave(d) ==
    \/ BindFails(d) \/ DropName(d) \/ LeaveRun(d)
    \/ CloseSocket(d) \/ RemoveName(d) \/ RemoveAgain(d)
Outside(d) == Launch(d) \/ FirstKey(d) \/ StopCommand(d) \/ Signal(d) \/ Kill(d)

Next == \E d \in Daemons : Start(d) \/ Leave(d) \/ Outside(d)
Spec == Init /\ [][Next]_vars

----------------------------------------------------------------------------
(* Properties.                                                             *)
Running == {d \in Daemons : pc[d] = "run"}

(* Two daemons would each forward every key: one that is started finds the *)
(* one that runs, whichever were killed or ended before, as long as no two *)
(* of them started or ended side by side.                                  *)
OneDaemon == Cardinality(Running) <= 1

(* As long, a daemon that runs can be reached: the name is its own, and    *)
(* was not removed by the late end of another.                             *)
Reachable == \A d \in Running : name = d

(* The processes are where the code lets them be, one of them listens, and *)
(* is reachable, until two start or end side by side.                      *)
TurnsKept == TypeOK /\ (crowded \/ (OneDaemon /\ Reachable))

Over == {"off", "refused", "gone"}

(* However processes came and went side by side, once all have ended of    *)
(* their own accord none leaves a name behind.                             *)
NameRemoved == (\A d \in Daemons : pc[d] \in Over) /\ ~killed => name = Nobody

(* A crash does not lock anyone out: a process that is alone takes the     *)
(* name, in whatever state it finds it.                                    *)
Alone(d) == \A e \in Daemons \ {d} : pc[e] \in Over
CrashRecovers ==
    crowded \/ \A d \in Daemons : Alone(d) /\ pc[d] = "bind" => name = Nobody
=============================================================================
