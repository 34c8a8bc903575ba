----------------------------- MODULE IpcServer -----------------------------
(***************************************************************************)
(* The IPC server of the daemon (src/src/daemon/IpcServer.cpp): one thread *)
(* that accepts the clients of /tmp/ahkunix.sock one after the other,      *)
(* reads one command of each, carries it out through the callbacks of      *)
(* daemon/main.cpp and answers.                                            *)
(*                                                                         *)
(* A client writes its command, in one piece as ahkunixctl does or in      *)
(* several, at its own pace or never, and may leave before the answer.  A  *)
(* command ends in the newline of its last piece.  A client that stays     *)
(* reads to the end of file and exits as ahkunixctl does (cli/main.cpp).   *)
(* A socket closed with something unread in it is reset.                   *)
(***************************************************************************)
EXTENDS Integers, Sequences

CONSTANTS
    Clients,        \* connections, each of one command
    Verb,           \* [client] the verb of its command: PING, STOP, LOAD, other
    Path,           \* [client] the path of its LOAD
    Pieces,         \* [client] the writes its command comes in
    Cut,            \* [client] the path a LOAD names if cut after a piece
    InitialPath     \* the script the daemon was started with

Paths == {Path[c] : c \in Clients} \cup {Cut[c] : c \in Clients} \cup {InitialPath}
Verbs == {"PING", "STOP", "LOAD", "other"}

ASSUME IpcAssumption ==
    /\ Verb \in [Clients -> Verbs]
    /\ Pieces \in [Clients -> Nat \ {0}]

Command(verb, path) == [verb |-> verb, path |-> path]
Commands == [verb : Verbs, path : Paths]
Answer(status, path) == [status |-> status, path |-> path]
Answers == [status : {"PONG", "OK", "ERR"}, path : Paths]

VARIABLES
    \* the clients
    link,           \* [client] off, queued, open, closed by the server
    written,        \* [client] pieces written
    gone,           \* clients that left without waiting
    answer,         \* [client] what it was sent: a sequence of one or none
    reset,          \* clients whose connection was closed under them
    exit,           \* [client] none, or the exit status
    \* the server
    running,        \* running_
    pc,             \* where its thread is
    backlog,        \* connections not accepted
    client,         \* the one being served: a sequence of one or none
    consumed,       \* pieces of its command read
    \* what the callbacks change
    hotstrings,     \* the path of the script the daemon matches with
    activeScript,   \* active_script, under state_mutex
    stopping,       \* g_stop
    main,           \* the main thread: poll, reading, leaving, ended
    \* history
    loaded,         \* clients whose script has been in force
    granted,        \* the path of the last LOAD that was answered with OK
    killed          \* the daemon was killed

clientVars == <<link, written, gone, answer, reset, exit>>
serverVars == <<running, pc, backlog, client, consumed>>
daemonVars == <<hotstrings, activeScript, stopping, main>>
historyVars == <<loaded, granted, killed>>
vars == <<clientVars, serverVars, daemonVars, historyVars>>

Places == {"poll", "accept", "read", "wait", "obey", "loading", "report",
           "stop", "close", "ended"}

TypeOK ==
    /\ link \in [Clients -> {"off", "queued", "open", "closed"}]
    /\ written \in [Clients -> Nat] /\ \A c \in Clients : written[c] <= Pieces[c]
    /\ gone \subseteq Clients
    /\ answer \in [Clients -> {<<>>} \cup {<<a>> : a \in Answers}]
    /\ reset \subseteq Clients
    /\ exit \in [Clients -> {"none", "done", "failed"}]
    /\ running \in BOOLEAN
    /\ pc \in Places
    /\ backlog \in Seq(Clients)
    /\ client \in {<<>>} \cup {<<c>> : c \in Clients}
    /\ \A c \in Clients : link[c] = "open" <=> client = <<c>>
    /\ pc \in {"poll", "accept", "ended"} <=> client = <<>>
    /\ consumed \in Nat
    /\ hotstrings \in Paths
    /\ activeScript \in Paths
    /\ stopping \in BOOLEAN
    /\ main \in {"poll", "reading", "leaving", "ended"}
    /\ loaded \subseteq Clients
    /\ granted \in Paths
    /\ killed \in BOOLEAN

Init ==
    /\ link = [c \in Clients |-> "off"]
    /\ written = [c \in Clients |-> 0]
    /\ gone = {}
    /\ answer = [c \in Clients |-> <<>>]
    /\ reset = {}
    /\ exit = [c \in Clients |-> "none"]
    /\ running = TRUE
    /\ pc = "poll"
    /\ backlog = <<>>
    /\ client = <<>>
    /\ consumed = 0
    /\ hotstrings = InitialPath
    /\ activeScript = InitialPath
    /\ stopping = FALSE
    /\ main = "poll"
    /\ loaded = {}
    /\ granted = InitialPath
    /\ killed = FALSE

Served == client[1]

----------------------------------------------------------------------------
(* The clients.  The socket listens until the main thread closes it.       *)
Connect(c) ==
    /\ link[c] = "off"
    /\ main # "ended"
    /\ link' = [link EXCEPT ![c] = "queued"]
    /\ backlog' = Append(backlog, c)
    /\ UNCHANGED <<written, gone, answer, reset, exit, running, pc, client, consumed,
                   daemonVars, historyVars>>

Write(c) ==
    /\ link[c] \in {"queued", "open"}
    /\ c \notin gone
    /\ written[c] < Pieces[c]
    /\ written' = [written EXCEPT ![c] = @ + 1]
    /\ UNCHANGED <<link, gone, answer, reset, exit, serverVars, daemonVars, historyVars>>

Leave(c) ==
    /\ link[c] \in {"queued", "open"}
    /\ gone' = gone \cup {c}
    /\ UNCHANGED <<link, written, answer, reset, exit, serverVars, daemonVars, historyVars>>

(* read_response and the exit status: whatever does not begin with ERR is  *)
(* a success, nothing at all too.  What cannot be written, or is reset, is *)
(* an exception or a signal.                                               *)
Exit(c) ==
    /\ link[c] = "closed" /\ c \notin gone /\ exit[c] = "none"
    /\ LET refused == answer[c] # <<>> /\ answer[c][1].status = "ERR"
           done == written[c] = Pieces[c] /\ c \notin reset /\ ~refused
       IN  exit' = [exit EXCEPT ![c] = IF done THEN "done" ELSE "failed"]
    /\ UNCHANGED <<link, written, gone, answer, reset, serverVars, daemonVars, historyVars>>

(* connect_to_daemon throws.                                               *)
Refused(c) ==
    /\ link[c] = "off" /\ main = "ended" /\ exit[c] = "none"
    /\ exit' = [exit EXCEPT ![c] = "failed"]
    /\ UNCHANGED <<link, written, gone, answer, reset, serverVars, daemonVars, historyVars>>

----------------------------------------------------------------------------
(* run() and accept_pending_clients.                                       *)
Poll ==
    /\ pc = "poll"
    /\ running
    /\ backlog # <<>>
    /\ pc' = "accept"
    /\ UNCHANGED <<clientVars, running, backlog, client, consumed, daemonVars, historyVars>>

EndRun ==
    /\ pc = "poll"
    /\ ~running
    /\ pc' = "ended"
    /\ UNCHANGED <<clientVars, running, backlog, client, consumed, daemonVars, historyVars>>

Accept ==
    /\ pc = "accept"
    /\ running
    /\ backlog # <<>>
    /\ client' = <<Head(backlog)>>
    /\ backlog' = Tail(backlog)
    /\ link' = [link EXCEPT ![Head(backlog)] = "open"]
    /\ consumed' = 0
    /\ pc' = "read"
    /\ UNCHANGED <<written, gone, answer, reset, exit, running, daemonVars, historyVars>>

NoMoreClients ==
    /\ pc = "accept"
    /\ ~running \/ backlog = <<>>
    /\ pc' = "poll"
    /\ UNCHANGED <<clientVars, running, backlog, client, consumed, daemonVars, historyVars>>

----------------------------------------------------------------------------
(* read_command.                                                           *)

(* A read returns what has arrived, up to the newline or not.              *)
Read ==
    /\ pc = "read"
    /\ written[Served] > consumed
    /\ consumed' = written[Served]
    /\ pc' = IF consumed' = Pieces[Served] THEN "obey" ELSE "read"
    /\ UNCHANGED <<clientVars, running, backlog, client, daemonVars, historyVars>>

(* Nothing is there: the command is what was read before; if that is       *)
(* nothing, and the client has not hung up, wait for some of it.           *)
ReadNothing ==
    /\ pc = "read"
    /\ written[Served] = consumed
    /\ pc' = IF consumed > 0 \/ Served \in gone THEN "obey" ELSE "wait"
    /\ UNCHANGED <<clientVars, running, backlog, client, consumed, daemonVars, historyVars>>

WaitEnds ==
    /\ pc = "wait"
    /\ written[Served] > consumed \/ Served \in gone
    /\ pc' = "read"
    /\ UNCHANGED <<clientVars, running, backlog, client, consumed, daemonVars, historyVars>>

(* A slip: the poll for the client has no timeout.                         *)
WaitTimesOut_Never ==
    /\ pc = "wait"
    /\ FALSE
    /\ UNCHANGED vars

(* A second has passed: the command is empty.                              *)
WaitTimesOut ==
    /\ pc = "wait"
    /\ pc' = "obey"
    /\ UNCHANGED <<clientVars, running, backlog, client, consumed, daemonVars, historyVars>>

----------------------------------------------------------------------------
(* handle_client.                                                          *)

(* What the pieces read amount to.  A LOAD cut short still is a LOAD, of   *)
(* another path; any other verb cut short is no verb.                      *)
CommandRead(c) ==
    IF consumed = Pieces[c] THEN Command(Verb[c], Path[c])
    ELSE IF consumed > 0 /\ Verb[c] = "LOAD" THEN Command("LOAD", Cut[c])
    ELSE Command("other", InitialPath)

(* send_response and, where it is the last step, return and close.  To a   *)
(* client that left nothing is sent.                                       *)
Respond(c, a, next) ==
    /\ answer' = [answer EXCEPT ![c] = IF c \in gone THEN @ ELSE <<a>>]
    /\ granted' = IF CommandRead(c).verb = "LOAD" /\ a.status = "OK" THEN a.path ELSE granted
    /\ pc' = next

ObeyPing ==
    /\ pc = "obey"
    /\ CommandRead(Served).verb = "PING"
    /\ Respond(Served, Answer("PONG", activeScript), "close")
    /\ UNCHANGED <<link, written, gone, reset, exit, running, backlog, client,
                   consumed, daemonVars, loaded, killed>>

ObeyOther ==
    /\ pc = "obey"
    /\ CommandRead(Served).verb = "other"
    /\ Respond(Served, Answer("ERR", InitialPath), "close")
    /\ UNCHANGED <<link, written, gone, reset, exit, running, backlog, client,
                   consumed, daemonVars, loaded, killed>>

(* STOP is answered before it is carried out.                              *)
ObeyStop ==
    /\ pc = "obey"
    /\ CommandRead(Served).verb = "STOP"
    /\ Respond(Served, Answer("OK", InitialPath), "stop")
    /\ UNCHANGED <<link, written, gone, reset, exit, running, backlog, client,
                   consumed, daemonVars, loaded, killed>>

(* A slip: the callback alone, and the server goes on.                     *)
Stop_KeepsRunning ==
    /\ pc = "stop"
    /\ stopping' = TRUE
    /\ pc' = "close"
    /\ UNCHANGED <<clientVars, running, backlog, client, consumed, hotstrings,
                   activeScript, main, historyVars>>

Stop ==
    /\ pc = "stop"
    /\ stopping' = TRUE
    /\ running' = FALSE
    /\ pc' = "close"
    /\ UNCHANGED <<clientVars, backlog, client, consumed, hotstrings,
                   activeScript, main, historyVars>>

(* A slip: the script is named active before it has been loaded.           *)
ObeyLoad_NamesFirst ==
    /\ pc = "obey"
    /\ CommandRead(Served).verb = "LOAD"
    /\ activeScript' = CommandRead(Served).path
    /\ pc' = "loading"
    /\ UNCHANGED <<clientVars, running, backlog, client, consumed,
                   hotstrings, stopping, main, historyVars>>

(* LOAD enters reload_script.                                              *)
ObeyLoad ==
    /\ pc = "obey"
    /\ CommandRead(Served).verb = "LOAD"
    /\ pc' = "loading"
    /\ UNCHANGED <<clientVars, running, backlog, client, consumed, daemonVars, historyVars>>

(* reload_script swaps the hotstrings under mutex_ ...                     *)
Reload ==
    /\ pc = "loading"
    /\ hotstrings' = CommandRead(Served).path
    /\ loaded' = IF hotstrings' = Path[Served] THEN loaded \cup {Served} ELSE loaded
    /\ pc' = "report"
    /\ UNCHANGED <<clientVars, running, backlog, client, consumed, activeScript,
                   stopping, main, granted, killed>>

(* A slip: the exception is logged, and the load answered like any other.  *)
ReloadThrows_AnswersOk ==
    /\ pc = "loading"
    /\ Respond(Served, Answer("OK", CommandRead(Served).path), "close")
    /\ UNCHANGED <<link, written, gone, reset, exit, running, backlog, client,
                   consumed, daemonVars, loaded, killed>>

(* ... or throws before it, for a file that is not there or not a script.  *)
ReloadThrows ==
    /\ pc = "loading"
    /\ Respond(Served, Answer("ERR", InitialPath), "close")
    /\ UNCHANGED <<link, written, gone, reset, exit, running, backlog, client,
                   consumed, daemonVars, loaded, killed>>

(* The callback then records the path under state_mutex.                   *)
Report ==
    /\ pc = "report"
    /\ activeScript' = CommandRead(Served).path
    /\ Respond(Served, Answer("OK", CommandRead(Served).path), "close")
    /\ UNCHANGED <<link, written, gone, reset, exit, running, backlog, client,
                   consumed, hotstrings, stopping, main, loaded, killed>>

Close ==
    /\ pc = "close"
    /\ link' = [link EXCEPT ![Served] = "closed"]
    /\ reset' = IF written[Served] > consumed THEN reset \cup {Served} ELSE reset
    /\ client' = <<>>
    /\ pc' = "accept"
    /\ UNCHANGED <<written, gone, answer, exit, running, backlog, consumed,
                   daemonVars, historyVars>>

----------------------------------------------------------------------------
(* The main thread: it notices g_stop until the first key is read, after   *)
(* which it stays in the blocking reads of its inner loop (Daemon.tla).    *)
FirstKey ==
    /\ main = "poll"
    /\ main' = "reading"
    /\ UNCHANGED <<clientVars, serverVars, hotstrings, activeScript, stopping, historyVars>>

(* The end of main(): run_cleanup calls IpcServer::stop(), which joins the *)
(* thread and closes the socket.  Who was queued is reset.                 *)
LeaveRun ==
    /\ main = "poll"
    /\ stopping
    /\ main' = "leaving"
    /\ running' = FALSE
    /\ UNCHANGED <<clientVars, pc, backlog, client, consumed, hotstrings,
                   activeScript, stopping, historyVars>>

Queued == {c \in Clients : link[c] = "queued"}
CloseSocket ==
    /\ main = "leaving"
    /\ pc = "ended"
    /\ main' = "ended"
    /\ link' = [c \in Clients |-> IF c \in Queued THEN "closed" ELSE link[c]]
    /\ reset' = reset \cup Queued
    /\ backlog' = <<>>
    /\ UNCHANGED <<written, gone, answer, exit, running, pc, client, consumed,
                   hotstrings, activeScript, stopping, historyVars>>

(* The process is killed, or dies, and the kernel closes its sockets.      *)
Kill ==
    /\ main # "ended"
    /\ killed' = TRUE
    /\ main' = "ended" /\ pc' = "ended" /\ running' = FALSE
    /\ link' = [c \in Clients |-> IF link[c] = "off" THEN "off" ELSE "closed"]
    /\ reset' = reset \cup Queued
                    \cup {c \in Clients : client = <<c>> /\ written[c] > consumed}
    /\ backlog' = <<>> /\ client' = <<>>
    /\ UNCHANGED <<written, gone, answer, exit, consumed, hotstrings, activeScript,
                   stopping, loaded, granted>>

MainStep == FirstKey \/ LeaveRun \/ CloseSocket
ClientStep ==
    \E c \in Clients : Connect(c) \/ Write(c) \/ Leave(c) \/ Exit(c) \/ Refused(c)
ServerStep ==
    \/ Poll \/ EndRun \/ Accept \/ NoMoreClients
    \/ Read \/ ReadNothing \/ WaitEnds \/ WaitTimesOut
    \/ ObeyPing \/ ObeyOther \/ ObeyStop \/ Stop
    \/ ObeyLoad \/ Reload \/ ReloadThrows \/ Report \/ Close

Next == ClientStep \/ ServerStep \/ MainStep \/ Kill
Spec == Init /\ [][Next]_vars

(* The two threads are scheduled; of the clients nothing is assumed, nor   *)
(* that a key is ever pressed.                                             *)
FairSpec == Spec /\ WF_vars(ServerStep) /\ WF_vars(LeaveRun \/ CloseSocket)

----------------------------------------------------------------------------
(* Properties.                                                             *)

(* A status names the script in force: the two copies of what is loaded,   *)
(* hotstrings_ and active_script, agree whenever one of them is reported,  *)
(* after loads that succeeded, that failed and that nobody waited for.     *)
StatusTruthful ==
    pc = "obey" => activeScript = hotstrings

(* ahkunixctl exits with 0 only if what it asked for was done: the script  *)
(* it named, all of the name, has been in force, or the daemon was told to *)
(* stop, or a status was read; whatever the timing of its writes, the      *)
(* timeouts of the server, and the end of the daemon, unless the daemon    *)
(* was killed while it served it.                                          *)
ExitTruthful ==
    \A c \in Clients :
        exit[c] = "done" /\ ~killed =>
            /\ answer[c] # <<>>
            /\ Verb[c] = "LOAD" => c \in loaded
            /\ Verb[c] = "STOP" => stopping

(* The state is well formed, a client being open exactly while it is the   *)
(* one served, and what is said of it, to a client and by it, is true.     *)
ServerInv == TypeOK /\ StatusTruthful /\ ExitTruthful

(* Nothing is carried out after a STOP: a LOAD that was already waiting    *)
(* does not give the stopping daemon another script.                       *)
NothingAfterStop == [][stopping => hotstrings' = hotstrings]_vars

(* What is loaded is the script of the last LOAD that was answered with    *)
(* OK, in both copies, outside of the moment between the one and the       *)
(* other: a LOAD that fails leaves both as they were, a client that leaves *)
(* or dawdles makes no difference, and no other command touches them.  And *)
(* an OK names the script that was asked for, unless the LOAD was obeyed   *)
(* before all of it had arrived.                                           *)
InForce ==
    pc # "report" /\ ~killed => hotstrings = granted /\ activeScript = granted
LoadExact ==
    [][/\ InForce'
       /\ \A c \in Clients :
              answer'[c] # answer[c] /\ answer'[c][1].status = "OK" /\ Verb[c] = "LOAD" =>
                 /\ answer'[c][1].path = granted'
                 /\ consumed = Pieces[c] => answer'[c][1].path = Path[c]]_vars

(* A silent client does not keep the others waiting for ever: whoever is   *)
(* in the queue is served, unless a STOP comes first.                      *)
QueueMoves ==
    \A c \in Clients : (link[c] = "queued") ~> (link[c] = "closed" \/ ~running)
=============================================================================
