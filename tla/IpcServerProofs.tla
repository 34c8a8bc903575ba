-------------------------- MODULE IpcServerProofs --------------------------
(***************************************************************************)
(* What IpcServer promises, for any number of clients, commands in any     *)
(* number of pieces, loads that fail and a daemon that is killed.          *)
(***************************************************************************)
EXTENDS IpcServer, TLAPS

----------------------------------------------------------------------------
(* The invariant.                                                          *)

(* The parts of TypeOK, each within the reach of one prover.               *)
ClientsTyped ==
    /\ link \in [Clients -> {"off", "queued", "open", "closed"}]
    /\ written \in [Clients -> Nat] /\ \A c \in Clients : written[c] <= Pieces[c]
    /\ gone \subseteq Clients
    /\ reset \subseteq Clients
    /\ exit \in [Clients -> {"none", "done", "failed"}]
    /\ loaded \subseteq Clients
AnswersTyped == answer \in [Clients -> {<<>>} \cup {<<a>> : a \in Answers}]
ServedTyped ==
    /\ pc \in Places
    /\ client \in {<<>>} \cup {<<c>> : c \in Clients}
    /\ \A c \in Clients : link[c] = "open" <=> client = <<c>>
    /\ pc \in {"poll", "accept", "ended"} <=> client = <<>>
    /\ consumed \in Nat
QueueTyped == backlog \in Seq(Clients)
DaemonTyped ==
    /\ hotstrings \in Paths
    /\ activeScript \in Paths
    /\ granted \in Paths
    /\ main \in {"poll", "reading", "leaving", "ended"}
FlagsTyped == running \in BOOLEAN /\ stopping \in BOOLEAN /\ killed \in BOOLEAN

(* The two copies of the path are that of the last LOAD that succeeded,    *)
(* but between the swap of the script and the callback that records it.    *)
CopiesAgree ==
    /\ InForce
    /\ pc = "report" => hotstrings = CommandRead(Served).path /\ activeScript = granted
    /\ killed => pc = "ended"

(* Once g_stop is set the server obeys nothing any more.                   *)
StopEndsAll == stopping => ~running /\ pc \in {"close", "accept", "poll", "ended"}

(* What is true of the client that is served: no more of it was read than  *)
(* it wrote, and at each place the command is what brought the server      *)
(* there, carried out as far.                                              *)
Asked(c) ==
    /\ pc = "stop" => CommandRead(c).verb = "STOP"
    /\ pc \in {"loading", "report"} => CommandRead(c).verb = "LOAD"
    /\ pc = "report" /\ consumed = Pieces[c] => c \in loaded

(* c has its answer, and unless that is an error it has what it asked for. *)
Satisfied(c) ==
    answer[c][1].status # "ERR" =>
        /\ Verb[c] = "LOAD" => c \in loaded
        /\ Verb[c] = "STOP" => stopping
ServedWell ==
    \A c \in Clients : client = <<c>> =>
        /\ consumed <= written[c]
        /\ Asked(c)
        /\ pc \in {"stop", "close"} /\ c \notin gone => answer[c] # <<>>
        /\ pc = "close" /\ c \notin gone /\ consumed = Pieces[c] => Satisfied(c)

(* What is true of a client whose connection the server has closed.        *)
ClosedWell ==
    \A c \in Clients : link[c] = "closed" /\ c \notin gone \cup reset /\ ~killed =>
        /\ answer[c] # <<>>
        /\ written[c] = Pieces[c] => Satisfied(c)

IInv ==
    /\ TypeOK
    /\ CopiesAgree /\ StopEndsAll /\ ServedWell /\ ClosedWell /\ ExitTruthful

LEMMA TypeParts ==
    TypeOK <=> /\ ClientsTyped /\ AnswersTyped /\ ServedTyped
               /\ QueueTyped /\ DaemonTyped /\ FlagsTyped
  BY DEF TypeOK, ClientsTyped, AnswersTyped, ServedTyped, QueueTyped, DaemonTyped, FlagsTyped

LEMMA EmptyQueue == <<>> \in Seq(Clients)
  OBVIOUS

(* Away from its rests, the server serves one client.                      *)
LEMMA OneServed ==
  ASSUME TypeOK, pc \notin {"poll", "accept", "ended"}
  PROVE  \E c \in Clients : client = <<c>> /\ Served = c /\ link[c] = "open"
  BY DEF TypeOK, Served

LEMMA CommandTyped ==
  ASSUME NEW c \in Clients
  PROVE  /\ CommandRead(c) \in Commands
         /\ CommandRead(c).verb = "STOP" => consumed = Pieces[c] /\ Verb[c] = "STOP"
         /\ CommandRead(c).verb = "LOAD" => Verb[c] = "LOAD"
         /\ consumed = Pieces[c] =>
                CommandRead(c).path = Path[c] /\ CommandRead(c).verb = Verb[c]
  BY IpcAssumption DEF CommandRead, Command, Commands, Verbs, Paths

LEMMA AnswerTyped ==
  ASSUME NEW s \in {"PONG", "OK", "ERR"}, NEW p \in Paths
  PROVE  /\ Answer(s, p) \in Answers
         /\ Answer(s, p).status = s /\ Answer(s, p).path = p
         /\ <<Answer(s, p)>>[1] = Answer(s, p)
         /\ <<Answer(s, p)>> # <<>>
  BY DEF Answer, Answers

----------------------------------------------------------------------------
LEMMA InitHolds == Init => IInv
<1> SUFFICES ASSUME Init PROVE IInv
  OBVIOUS
<1> USE IpcAssumption DEF Init
<1>0. ClientsTyped
  BY DEF ClientsTyped
<1>1. AnswersTyped
  BY DEF AnswersTyped
<1>2. ServedTyped
  <2>1. \A c \in Clients : link[c] # "open" /\ client # <<c>>
    OBVIOUS
  <2>2. QED
    BY <2>1 DEF ServedTyped, Places
<1>3. QueueTyped /\ DaemonTyped /\ FlagsTyped
  <2>1. QueueTyped
    BY EmptyQueue DEF QueueTyped
  <2>2. DaemonTyped /\ FlagsTyped
    BY DEF DaemonTyped, FlagsTyped, Paths
  <2>3. QED
    BY <2>1, <2>2
<1>4. CopiesAgree /\ StopEndsAll /\ ServedWell /\ ClosedWell /\ ExitTruthful
  BY DEF CopiesAgree, InForce, historyVars, StopEndsAll, ServedWell, ClosedWell, ExitTruthful
<1>5. QED
  BY <1>0, <1>1, <1>2, <1>3, <1>4, TypeParts DEF IInv

----------------------------------------------------------------------------
(* The types.                                                              *)

LEMMA ClientsKept == TypeOK /\ [Next]_vars => ClientsTyped'
<1> SUFFICES ASSUME TypeOK, [Next]_vars PROVE ClientsTyped'
  OBVIOUS
<1>0. ClientsTyped /\ QueueTyped
  BY TypeParts
<1> USE IpcAssumption DEF ClientsTyped
<1>1. ASSUME NEW c \in Clients, Connect(c) PROVE ClientsTyped'
  BY <1>0, <1>1 DEF Connect, historyVars
<1>2. ASSUME NEW c \in Clients, Write(c) PROVE ClientsTyped'
  BY <1>0, <1>2 DEF Write, historyVars
<1>3. ASSUME NEW c \in Clients, Leave(c) PROVE ClientsTyped'
  BY <1>0, <1>3 DEF Leave, historyVars
<1>4. ASSUME NEW c \in Clients, Exit(c) PROVE ClientsTyped'
  BY <1>0, <1>4 DEF Exit, historyVars
<1>5. ASSUME NEW c \in Clients, Refused(c) PROVE ClientsTyped'
  BY <1>0, <1>5 DEF Refused, historyVars
<1>6. CASE Accept
  <2>1. Head(backlog) \in Clients
    BY <1>0, <1>6 DEF Accept, QueueTyped
  <2>2. QED
    BY <1>0, <1>6, <2>1 DEF Accept, historyVars
<1>7. CASE Close
  <2>1. PICK c \in Clients : client = <<c>> /\ Served = c
    BY <1>7, OneServed DEF Close
  <2>2. QED
    BY <1>0, <1>7, <2>1 DEF Close, historyVars
<1>8. CASE Reload
  <2>1. PICK c \in Clients : client = <<c>> /\ Served = c
    BY <1>8, OneServed DEF Reload
  <2>2. QED
    BY <1>0, <1>8, <2>1 DEF Reload, clientVars
<1>9. CASE CloseSocket
  BY <1>0, <1>9 DEF CloseSocket, Queued, historyVars
<1>10. CASE Kill
  BY <1>0, <1>10 DEF Kill, Queued
<1>11. CASE \/ Poll \/ EndRun \/ NoMoreClients \/ Read \/ ReadNothing \/ WaitEnds
            \/ WaitTimesOut \/ ObeyPing \/ ObeyOther \/ ObeyStop \/ Stop \/ ObeyLoad
            \/ ReloadThrows \/ Report \/ FirstKey \/ LeaveRun \/ UNCHANGED vars
  <2>1. UNCHANGED <<link, written, gone, reset, exit, loaded>>
    BY <1>11 DEF Poll, EndRun, NoMoreClients, Read, ReadNothing, WaitEnds, WaitTimesOut,
       ObeyPing, ObeyOther, ObeyStop, Stop, ObeyLoad, ReloadThrows, Report, FirstKey,
       LeaveRun, vars, clientVars, historyVars
  <2>2. QED
    BY <1>0, <2>1
<1>12. QED
  BY <1>1, <1>2, <1>3, <1>4, <1>5, <1>6, <1>7, <1>8, <1>9, <1>10, <1>11
  DEF Next, ClientStep, ServerStep, MainStep

(* What is sent is an answer, to the client that is served.                *)
LEMMA AnswersKept == TypeOK /\ [Next]_vars => AnswersTyped'
<1> SUFFICES ASSUME TypeOK, [Next]_vars PROVE AnswersTyped'
  OBVIOUS
<1>0. AnswersTyped
  BY TypeParts
<1>1. ASSUME NEW c \in Clients, NEW a \in Answers, NEW next, Respond(c, a, next)
      PROVE  AnswersTyped'
  BY <1>0, <1>1 DEF AnswersTyped, Respond
<1>2. CASE ObeyPing \/ ObeyOther \/ ObeyStop \/ ReloadThrows \/ Report
  <2>1. PICK c \in Clients : Served = c
    BY <1>2, OneServed DEF ObeyPing, ObeyOther, ObeyStop, ReloadThrows, Report
  <2>2. activeScript \in Paths /\ InitialPath \in Paths /\ CommandRead(c).path \in Paths
    BY CommandTyped DEF TypeOK, Paths, Commands
  <2>3. /\ Answer("PONG", activeScript) \in Answers
        /\ Answer("ERR", InitialPath) \in Answers
        /\ Answer("OK", InitialPath) \in Answers
        /\ Answer("OK", CommandRead(c).path) \in Answers
    BY <2>2, AnswerTyped
  <2>4. QED
    BY <1>1, <1>2, <2>1, <2>3 DEF ObeyPing, ObeyOther, ObeyStop, ReloadThrows, Report
<1>3. CASE ~(ObeyPing \/ ObeyOther \/ ObeyStop \/ ReloadThrows \/ Report)
  <2>1. answer' = answer
    BY <1>3 DEF Next, ClientStep, ServerStep, MainStep, Connect, Write, Leave, Exit, Refused,
       Poll, EndRun, Accept, NoMoreClients, Read, ReadNothing, WaitEnds, WaitTimesOut, Stop,
       ObeyLoad, Reload, Close, FirstKey, LeaveRun, CloseSocket, Kill, vars, clientVars
  <2>2. QED
    BY <1>0, <2>1 DEF AnswersTyped
<1>4. QED
  BY <1>2, <1>3

(* A client is open exactly while it is the one served.                    *)
LEMMA ServedKept == TypeOK /\ [Next]_vars => ServedTyped'
<1> SUFFICES ASSUME TypeOK, [Next]_vars PROVE ServedTyped'
  OBVIOUS
<1>0. ServedTyped /\ ClientsTyped /\ QueueTyped
  BY TypeParts
<1> USE IpcAssumption DEF Places
<1>1. ASSUME NEW c \in Clients, Connect(c) PROVE ServedTyped'
  <2>1. UNCHANGED <<client, pc, consumed>>
    BY <1>1 DEF Connect
  <2>2. \A e \in Clients : link'[e] = "open" <=> link[e] = "open"
    BY <1>0, <1>1 DEF Connect, ClientsTyped
  <2>3. QED
    BY <1>0, <2>1, <2>2 DEF ServedTyped
<1>2. CASE Accept
  <2>1. Head(backlog) \in Clients
    BY <1>0, <1>2 DEF Accept, QueueTyped
  <2>2. /\ client = <<>> /\ client' = <<Head(backlog)>>
        /\ pc' = "read" /\ consumed' = 0
        /\ link' = [link EXCEPT ![Head(backlog)] = "open"]
    BY <1>0, <1>2 DEF Accept, ServedTyped
  <2>3. \A e \in Clients : link'[e] = "open" <=> e = Head(backlog)
    BY <1>0, <2>1, <2>2 DEF ServedTyped, ClientsTyped
  <2>4. QED
    BY <2>1, <2>2, <2>3 DEF ServedTyped
<1>3. CASE Close
  <2>1. PICK c \in Clients : client = <<c>> /\ Served = c
    BY <1>3, OneServed DEF Close
  <2>2. /\ client' = <<>> /\ pc' = "accept" /\ consumed' = consumed
        /\ link' = [link EXCEPT ![c] = "closed"]
    BY <1>3, <2>1 DEF Close
  <2>3. \A e \in Clients : link'[e] # "open"
    BY <1>0, <2>1, <2>2 DEF ServedTyped, ClientsTyped
  <2>4. QED
    BY <1>0, <2>2, <2>3 DEF ServedTyped
<1>4. CASE CloseSocket
  <2>1. UNCHANGED <<client, pc, consumed>>
    BY <1>4 DEF CloseSocket
  <2>2. \A e \in Clients : link'[e] = "open" <=> link[e] = "open"
    BY <1>0, <1>4 DEF CloseSocket, Queued, ClientsTyped
  <2>3. QED
    BY <1>0, <2>1, <2>2 DEF ServedTyped
<1>5. CASE Kill
  <2>1. client' = <<>> /\ pc' = "ended" /\ consumed' = consumed
    BY <1>5 DEF Kill
  <2>2. \A e \in Clients : link'[e] # "open"
    BY <1>5 DEF Kill
  <2>3. QED
    BY <1>0, <2>1, <2>2 DEF ServedTyped
<1>6. CASE \/ Poll \/ EndRun \/ NoMoreClients \/ Read \/ ReadNothing \/ WaitEnds
           \/ WaitTimesOut \/ ObeyPing \/ ObeyOther \/ ObeyStop \/ Stop \/ ObeyLoad
           \/ Reload \/ ReloadThrows \/ Report
  <2>1. UNCHANGED <<link, client>>
    BY <1>6 DEF Poll, EndRun, NoMoreClients, Read, ReadNothing, WaitEnds, WaitTimesOut,
       ObeyPing, ObeyOther, ObeyStop, Stop, ObeyLoad, Reload, ReloadThrows, Report, clientVars
  <2>2. /\ pc' \in Places
        /\ pc' \in {"poll", "accept", "ended"} <=> pc \in {"poll", "accept", "ended"}
    BY <1>6 DEF Poll, EndRun, NoMoreClients, Read, ReadNothing, WaitEnds, WaitTimesOut,
       ObeyPing, ObeyOther, ObeyStop, Stop, ObeyLoad, Reload, ReloadThrows, Report, Respond
  <2>3. consumed' \in Nat
    <3>1. CASE Read
      <4>1. PICK c \in Clients : Served = c
        BY <3>1, OneServed DEF Read
      <4>2. QED
        BY <1>0, <3>1, <4>1 DEF Read, ClientsTyped
    <3>2. CASE ~Read
      BY <1>0, <1>6, <3>2 DEF Poll, EndRun, NoMoreClients, ReadNothing, WaitEnds,
         WaitTimesOut, ObeyPing, ObeyOther, ObeyStop, Stop, ObeyLoad, Reload, ReloadThrows,
         Report, ServedTyped
    <3>3. QED
      BY <3>1, <3>2
  <2>4. QED
    BY <1>0, <2>1, <2>2, <2>3 DEF ServedTyped
<1>7. CASE \/ \E c \in Clients : Write(c) \/ Leave(c) \/ Exit(c) \/ Refused(c)
           \/ FirstKey \/ LeaveRun \/ UNCHANGED vars
  <2>1. UNCHANGED <<link, client, pc, consumed>>
    BY <1>7 DEF Write, Leave, Exit, Refused, FirstKey, LeaveRun, vars, clientVars, serverVars
  <2>2. QED
    BY <1>0, <2>1 DEF ServedTyped
<1>8. QED
  BY <1>1, <1>2, <1>3, <1>4, <1>5, <1>6, <1>7 DEF Next, ClientStep, ServerStep, MainStep

LEMMA OthersKept == TypeOK /\ [Next]_vars => QueueTyped' /\ DaemonTyped' /\ FlagsTyped'
<1> SUFFICES ASSUME TypeOK, [Next]_vars PROVE QueueTyped' /\ DaemonTyped' /\ FlagsTyped'
  OBVIOUS
<1>0. QueueTyped /\ DaemonTyped /\ FlagsTyped
  BY TypeParts
<1>1. QueueTyped'
  <2>1. ASSUME NEW c \in Clients, Connect(c) PROVE QueueTyped'
    BY <1>0, <2>1 DEF Connect, QueueTyped
  <2>2. CASE Accept
    BY <1>0, <2>2 DEF Accept, QueueTyped
  <2>3. CASE CloseSocket \/ Kill
    <3>1. backlog' = <<>>
      BY <2>3 DEF CloseSocket, Kill
    <3>2. QED
      BY <3>1, EmptyQueue DEF QueueTyped
  <2>4. CASE ~(Accept \/ CloseSocket \/ Kill \/ \E c \in Clients : Connect(c))
    <3>1. backlog' = backlog
      BY <2>4 DEF Next, ClientStep, ServerStep, MainStep, Write, Leave, Exit, Refused,
         Poll, EndRun, NoMoreClients, Read, ReadNothing, WaitEnds, WaitTimesOut, ObeyPing,
         ObeyOther, ObeyStop, Stop, ObeyLoad, Reload, ReloadThrows, Report, Close,
         FirstKey, LeaveRun, vars, serverVars
    <3>2. QED
      BY <1>0, <3>1 DEF QueueTyped
  <2>5. QED
    BY <2>1, <2>2, <2>3, <2>4
<1>2. DaemonTyped'
  <2>1. CASE Reload \/ Report
    <3>1. PICK c \in Clients : Served = c
      BY <2>1, OneServed DEF Reload, Report
    <3>2. CommandRead(Served).path \in Paths
      BY <3>1, CommandTyped DEF Commands
    <3>3. granted' \in {granted, CommandRead(Served).path}
      BY <2>1 DEF Reload, Report, Respond, Answer
    <3>4. QED
      BY <1>0, <2>1, <3>2, <3>3 DEF Reload, Report, DaemonTyped
  <2>2. CASE ~(Reload \/ Report)
    <3>0. granted' = granted
      <4>1. CASE ObeyPing \/ ObeyOther \/ ObeyStop \/ ReloadThrows
        BY <4>1 DEF ObeyPing, ObeyOther, ObeyStop, ReloadThrows, Respond, Answer
      <4>2. CASE ~(ObeyPing \/ ObeyOther \/ ObeyStop \/ ReloadThrows)
        BY <2>2, <4>2 DEF Next, ClientStep, ServerStep, MainStep, Connect, Write, Leave, Exit,
           Refused, Poll, EndRun, Accept, NoMoreClients, Read, ReadNothing, WaitEnds,
           WaitTimesOut, Stop, ObeyLoad, Close, FirstKey, LeaveRun, CloseSocket, Kill, vars,
           historyVars
      <4>3. QED
        BY <4>1, <4>2
    <3>1. /\ UNCHANGED <<hotstrings, activeScript>>
          /\ main' \in {main, "reading", "leaving", "ended"}
      BY <2>2 DEF Next, ClientStep, ServerStep, MainStep, Connect, Write, Leave, Exit,
         Refused, Poll, EndRun, Accept, NoMoreClients, Read, ReadNothing, WaitEnds,
         WaitTimesOut, ObeyPing, ObeyOther, ObeyStop, Stop, ObeyLoad, ReloadThrows, Close,
         FirstKey, LeaveRun, CloseSocket, Kill, vars, daemonVars
    <3>2. QED
      BY <1>0, <3>0, <3>1 DEF DaemonTyped
  <2>3. QED
    BY <2>1, <2>2
<1>3. FlagsTyped'
  BY <1>0 DEF FlagsTyped, Next, ClientStep, ServerStep, MainStep, Connect, Write,
     Leave, Exit, Refused, Poll, EndRun, Accept, NoMoreClients, Read, ReadNothing,
     WaitEnds, WaitTimesOut, ObeyPing, ObeyOther, ObeyStop, Stop, ObeyLoad, Reload,
     ReloadThrows, Report, Close, FirstKey, LeaveRun, CloseSocket, Kill, vars, serverVars,
     daemonVars, historyVars
<1>4. QED
  BY <1>1, <1>2, <1>3

LEMMA TypeKept == TypeOK /\ [Next]_vars => TypeOK'
<1>1. TypeOK' <=> /\ ClientsTyped' /\ AnswersTyped' /\ ServedTyped'
                  /\ QueueTyped' /\ DaemonTyped' /\ FlagsTyped'
  BY DEF TypeOK, ClientsTyped, AnswersTyped, ServedTyped, QueueTyped, DaemonTyped, FlagsTyped
<1>2. QED
  BY <1>1, ClientsKept, AnswersKept, ServedKept, OthersKept

----------------------------------------------------------------------------
(* The rest of the invariant, by whose step it is.                         *)
Rest == CopiesAgree /\ StopEndsAll /\ ServedWell /\ ClosedWell /\ ExitTruthful

LEMMA ClientStepKeeps ==
  ASSUME IInv, NEW c \in Clients, Connect(c) \/ Write(c) \/ Leave(c) \/ Exit(c) \/ Refused(c)
  PROVE  Rest'
<1>0. /\ ClientsTyped /\ ServedTyped
      /\ CopiesAgree /\ StopEndsAll /\ ServedWell /\ ClosedWell /\ ExitTruthful
  BY TypeParts DEF IInv
<1>1. UNCHANGED <<pc, client, consumed, running, answer, hotstrings, activeScript,
                  stopping, loaded, granted, killed, reset>>
  BY DEF Connect, Write, Leave, Exit, Refused, serverVars, daemonVars, historyVars
<1>2. CopiesAgree' /\ StopEndsAll'
  BY <1>0, <1>1 DEF CopiesAgree, InForce, historyVars, StopEndsAll, CommandRead, Served
<1>3. ServedWell'
  <2>1. gone \subseteq gone' /\ \A e \in Clients : written'[e] >= written[e]
    BY <1>0 DEF Connect, Write, Leave, Exit, Refused, ClientsTyped
  <2>2. \A e \in Clients : written[e] \in Nat /\ written'[e] \in Nat
    BY ClientsKept DEF ClientsTyped, IInv, TypeOK, Next, ClientStep
  <2>3. consumed \in Nat
    BY <1>0 DEF ServedTyped
  <2>4. QED
    BY <1>0, <1>1, <2>1, <2>2, <2>3 DEF ServedWell, Asked, Satisfied, CommandRead
<1>4. ClosedWell'
  <2>1. gone \subseteq gone'
    BY DEF Connect, Write, Leave, Exit, Refused
  <2>2. \A e \in Clients : link'[e] = "closed" => link[e] = "closed" /\ written'[e] = written[e]
    BY <1>0 DEF Connect, Write, Leave, Exit, Refused, ClientsTyped
  <2>3. QED
    BY <1>0, <1>1, <2>1, <2>2 DEF ClosedWell, Satisfied
<1>5. ExitTruthful'
  <2>1. CASE Exit(c)
    <3>1. \A e \in Clients \ {c} : exit'[e] = exit[e]
      BY <1>0, <2>1 DEF Exit, ClientsTyped
    <3>2. ASSUME exit'[c] = "done", ~killed
          PROVE  answer[c] # <<>> /\ Satisfied(c) /\ answer[c][1].status # "ERR"
      <4>1. /\ link[c] = "closed" /\ c \notin gone \cup reset /\ written[c] = Pieces[c]
            /\ ~(answer[c] # <<>> /\ answer[c][1].status = "ERR")
        BY <1>0, <2>1, <3>2 DEF Exit, ClientsTyped
      <4>2. QED
        BY <1>0, <3>2, <4>1 DEF ClosedWell
    <3>3. QED
      BY <1>0, <1>1, <3>1, <3>2 DEF ExitTruthful, Satisfied
  <2>2. CASE Refused(c)
    <3>1. \A e \in Clients : exit'[e] = "done" => exit[e] = "done"
      BY <1>0, <2>2 DEF Refused, ClientsTyped
    <3>2. QED
      BY <1>0, <1>1, <3>1 DEF ExitTruthful
  <2>3. CASE Connect(c) \/ Write(c) \/ Leave(c)
    BY <1>0, <1>1, <2>3 DEF Connect, Write, Leave, ExitTruthful
  <2>4. QED
    BY <2>1, <2>2, <2>3
<1>6. QED
  BY <1>2, <1>3, <1>4, <1>5 DEF Rest

LEMMA MainStepKeeps ==
  ASSUME IInv, MainStep \/ Kill \/ UNCHANGED vars
  PROVE  Rest'
<1>0. /\ ClientsTyped /\ ServedTyped
      /\ CopiesAgree /\ StopEndsAll /\ ServedWell /\ ClosedWell /\ ExitTruthful
  BY TypeParts DEF IInv
<1>1. CASE FirstKey \/ LeaveRun \/ UNCHANGED vars
  <2>1. /\ UNCHANGED <<clientVars, historyVars, pc, client, consumed, hotstrings,
                       activeScript, stopping>>
        /\ running' = running \/ ~running'
    BY <1>1 DEF FirstKey, LeaveRun, vars, clientVars, serverVars, daemonVars, historyVars
  <2>2. CopiesAgree' /\ StopEndsAll'
    BY <1>0, <2>1 DEF CopiesAgree, InForce, historyVars, StopEndsAll, CommandRead, Served
  <2>3. ServedWell' /\ ClosedWell' /\ ExitTruthful'
    BY <1>0, <2>1 DEF ServedWell, ClosedWell, ExitTruthful, Asked, Satisfied, CommandRead,
       clientVars, historyVars
  <2>4. QED
    BY <2>2, <2>3 DEF Rest
<1>2. CASE CloseSocket
  <2>1. /\ pc = "ended" /\ client = <<>>
        /\ UNCHANGED <<written, gone, answer, exit, pc, client, running, hotstrings,
                       activeScript, stopping, historyVars>>
    BY <1>0, <1>2 DEF CloseSocket, ServedTyped
  <2>2. CopiesAgree' /\ StopEndsAll' /\ ServedWell'
    BY <1>0, <2>1 DEF CopiesAgree, InForce, historyVars, StopEndsAll, ServedWell, ServedTyped
  <2>3. /\ reset \subseteq reset'
        /\ \A e \in Clients : link'[e] = "closed" => link[e] = "closed" \/ e \in reset'
    BY <1>2 DEF CloseSocket
  <2>4. ClosedWell' /\ ExitTruthful'
    BY <1>0, <2>1, <2>3 DEF ClosedWell, ExitTruthful, Satisfied, historyVars
  <2>5. QED
    BY <2>2, <2>4 DEF Rest
<1>3. CASE Kill
  <2>1. pc' = "ended" /\ client' = <<>> /\ ~running' /\ killed'
    BY <1>3 DEF Kill
  <2>2. CopiesAgree' /\ StopEndsAll' /\ ClosedWell' /\ ExitTruthful'
    BY <2>1 DEF CopiesAgree, InForce, historyVars, StopEndsAll, ClosedWell, ExitTruthful
  <2>3. ServedWell'
    BY <2>1 DEF ServedWell
  <2>4. QED
    BY <2>2, <2>3 DEF Rest
<1>4. QED
  BY <1>1, <1>2, <1>3 DEF MainStep

LEMMA ServerStepKeeps ==
  ASSUME IInv, ServerStep
  PROVE  Rest'
<1>0. /\ ClientsTyped /\ AnswersTyped /\ ServedTyped /\ DaemonTyped
      /\ CopiesAgree /\ StopEndsAll /\ ServedWell /\ ClosedWell /\ ExitTruthful
  BY TypeParts DEF IInv
<1>1. CASE Poll \/ EndRun \/ NoMoreClients
  <2>1. /\ client = <<>> /\ pc \in {"poll", "accept"} /\ pc' \in {"poll", "accept", "ended"}
        /\ UNCHANGED <<clientVars, client, running, daemonVars, historyVars>>
    BY <1>0, <1>1 DEF Poll, EndRun, NoMoreClients, ServedTyped
  <2>2. CopiesAgree' /\ StopEndsAll'
    BY <1>0, <1>1, <2>1 DEF CopiesAgree, InForce, historyVars, StopEndsAll, Poll, daemonVars
  <2>3. ServedWell' /\ ClosedWell' /\ ExitTruthful'
    BY <1>0, <2>1 DEF ServedWell, ClosedWell, ExitTruthful, Satisfied, clientVars,
       daemonVars, historyVars
  <2>4. QED
    BY <2>2, <2>3 DEF Rest
<1>2. CASE Accept
  <2>1. /\ pc = "accept" /\ running /\ pc' = "read" /\ consumed' = 0
        /\ link' = [link EXCEPT ![Head(backlog)] = "open"]
        /\ UNCHANGED <<written, gone, answer, reset, exit, running, daemonVars, historyVars>>
    BY <1>2 DEF Accept
  <2>2. CopiesAgree' /\ StopEndsAll'
    BY <1>0, <2>1 DEF CopiesAgree, InForce, historyVars, StopEndsAll, daemonVars
  <2>3. ServedWell'
    BY <1>0, <2>1 DEF ServedWell, Asked, ClientsTyped
  <2>4. \A e \in Clients : link'[e] = "closed" => link[e] = "closed"
    BY <1>0, <2>1 DEF ClientsTyped
  <2>5. ClosedWell' /\ ExitTruthful'
    BY <1>0, <2>1, <2>4 DEF ClosedWell, ExitTruthful, Satisfied, daemonVars, historyVars
  <2>6. QED
    BY <2>2, <2>3, <2>5 DEF Rest
<1>3. ASSUME pc \notin {"poll", "accept", "ended"},
             Read \/ ReadNothing \/ WaitEnds \/ WaitTimesOut \/ ObeyPing \/ ObeyOther
             \/ ObeyStop \/ Stop \/ ObeyLoad \/ Reload \/ ReloadThrows \/ Report \/ Close
      PROVE  Rest'
  <2>0. PICK c \in Clients : client = <<c>> /\ Served = c /\ link[c] = "open"
    BY <1>3, OneServed DEF IInv
  <2>a. /\ consumed \in Nat /\ written[c] \in Nat /\ Pieces[c] \in Nat
        /\ consumed <= written[c] /\ written[c] <= Pieces[c]
        /\ \A e \in Clients : client = <<e>> => e = c
    BY <1>0, <2>0, IpcAssumption DEF ServedTyped, ClientsTyped, ServedWell
  <2>1. CASE Read \/ ReadNothing \/ WaitEnds \/ WaitTimesOut
    <3>1. /\ pc \in {"read", "wait"} /\ pc' \in {"read", "wait", "obey"}
          /\ UNCHANGED <<clientVars, client, running, daemonVars, historyVars>>
          /\ consumed' \in {consumed, written[c]}
      BY <2>0, <2>1 DEF Read, ReadNothing, WaitEnds, WaitTimesOut
    <3>2. CopiesAgree' /\ StopEndsAll'
      BY <1>0, <3>1 DEF CopiesAgree, InForce, historyVars, StopEndsAll, daemonVars
    <3>3. ServedWell'
      BY <2>a, <3>1 DEF ServedWell, Asked, clientVars
    <3>4. ClosedWell' /\ ExitTruthful'
      BY <1>0, <3>1 DEF ClosedWell, ExitTruthful, Satisfied, clientVars, daemonVars, historyVars
    <3>5. QED
      BY <3>2, <3>3, <3>4 DEF Rest
  <2>2. ASSUME NEW s \in {"PONG", "OK", "ERR"}, NEW p \in Paths,
               Respond(c, Answer(s, p), "close") \/ Respond(c, Answer(s, p), "stop")
        PROVE  /\ \A e \in Clients \ {c} : answer'[e] = answer[e]
               /\ c \notin gone => answer'[c] # <<>> /\ answer'[c][1].status = s
               /\ c \in gone => answer'[c] = answer[c]
               /\ answer[c] # <<>> => answer'[c] # <<>>
    <3>1. answer' = [answer EXCEPT ![c] = IF c \in gone THEN @ ELSE <<Answer(s, p)>>]
      BY <2>2 DEF Respond
    <3>2. QED
      BY <1>0, <3>1, AnswerTyped DEF AnswersTyped
  <2>3. CASE ObeyPing \/ ObeyOther \/ ObeyStop \/ ReloadThrows \/ Report
    <3>1. PICK s \in {"PONG", "OK", "ERR"}, p \in Paths :
               /\ Respond(c, Answer(s, p), "close") \/ Respond(c, Answer(s, p), "stop")
               /\ pc' = IF ObeyStop THEN "stop" ELSE "close"
               /\ ReloadThrows \/ ObeyOther => s = "ERR"
               /\ granted' = IF Report THEN CommandRead(c).path ELSE granted
      <4>1. activeScript \in Paths /\ InitialPath \in Paths /\ CommandRead(c).path \in Paths
        BY <1>0, CommandTyped DEF DaemonTyped, Commands, Paths
      <4>2. CASE ObeyPing
        BY <2>0, <4>1, <4>2 DEF ObeyPing, Respond, ObeyStop, ReloadThrows, ObeyOther, Report, Answer
      <4>3. CASE ObeyOther
        BY <2>0, <4>1, <4>3 DEF ObeyOther, Respond, ObeyStop, Report, Answer
      <4>4. CASE ObeyStop
        BY <2>0, <4>1, <4>4 DEF ObeyStop, Respond, ObeyOther, ReloadThrows, Report, Answer
      <4>5. CASE ReloadThrows
        BY <2>0, <4>1, <4>5 DEF ReloadThrows, Respond, ObeyStop, Report, Answer
      <4>6. CASE Report
        <5>1. CommandRead(c).verb = "LOAD"
          BY <1>0, <2>0, <4>6 DEF Report, ServedWell, Asked
        <5>2. QED
          BY <2>0, <4>1, <4>6, <5>1 DEF Answer, Report, Respond, ObeyStop, ReloadThrows, ObeyOther
      <4>7. QED
        BY <2>3, <4>2, <4>3, <4>4, <4>5, <4>6
    <3>2. /\ pc \in {"obey", "loading", "report"}
          /\ UNCHANGED <<link, written, gone, reset, exit, running, client, consumed,
                         hotstrings, stopping, main, loaded, killed>>
      BY <2>3 DEF ObeyPing, ObeyOther, ObeyStop, ReloadThrows, Report, daemonVars
    <3>3. CopiesAgree'
      <4>1. CASE Report
        BY <1>0, <2>0, <3>1, <3>2, <4>1 DEF Report, CopiesAgree, InForce, Respond
      <4>2. CASE ~Report
        BY <1>0, <2>3, <3>1, <3>2, <4>2
        DEF ObeyPing, ObeyOther, ObeyStop, ReloadThrows, CopiesAgree, InForce, daemonVars
      <4>3. QED
        BY <4>1, <4>2
    <3>4. StopEndsAll'
      BY <1>0, <3>2 DEF StopEndsAll
    <3>5. c \notin gone /\ consumed = Pieces[c] /\ pc' = "close" /\ s # "ERR" =>
              (Verb[c] = "LOAD" => c \in loaded) /\ (Verb[c] = "STOP" => stopping)
      <4>1. CASE ObeyPing
        BY <2>0, <4>1, CommandTyped DEF ObeyPing
      <4>2. CASE Report
        <5>1. pc = "report" /\ CommandRead(c).verb = "LOAD"
          BY <1>0, <2>0, <4>2 DEF Report, ServedWell, Asked
        <5>2. QED
          BY <1>0, <2>0, <5>1, CommandTyped DEF ServedWell, Asked
      <4>3. QED
        BY <2>3, <3>1, <4>1, <4>2
    <3>6. pc' = "stop" => CommandRead(c).verb = "STOP"
      BY <2>0, <2>3, <3>1 DEF ObeyStop
    <3>7. ServedWell'
      <4>1. c \notin gone => answer'[c] # <<>> /\ answer'[c][1].status = s
        BY <2>2, <3>1
      <4>2. Asked(c)'
        BY <3>1, <3>2, <3>6 DEF Asked, CommandRead
      <4>3. pc' = "close" /\ c \notin gone /\ consumed = Pieces[c] => Satisfied(c)'
        BY <3>2, <3>5, <4>1 DEF Satisfied
      <4>4. QED
        BY <2>a, <3>2, <4>1, <4>2, <4>3 DEF ServedWell
    <3>8. ClosedWell' /\ ExitTruthful'
      <4>1. /\ \A e \in Clients \ {c} : answer'[e] = answer[e]
            /\ answer[c] # <<>> => answer'[c] # <<>>
        BY <2>2, <3>1
      <4>2. QED
        BY <1>0, <2>0, <3>2, <4>1 DEF ClosedWell, ExitTruthful, Satisfied
    <3>9. QED
      BY <3>3, <3>4, <3>7, <3>8 DEF Rest
  <2>4. CASE Stop
    <3>1. /\ pc = "stop" /\ stopping' /\ ~running' /\ pc' = "close"
          /\ UNCHANGED <<clientVars, client, consumed, hotstrings, activeScript, historyVars>>
      BY <2>4 DEF Stop
    <3>2. CopiesAgree' /\ StopEndsAll'
      BY <1>0, <3>1 DEF CopiesAgree, InForce, historyVars, StopEndsAll
    <3>3. ServedWell'
      <4>1. Verb[c] = "STOP" /\ (c \notin gone => answer[c] # <<>>)
        BY <1>0, <2>0, <3>1, CommandTyped DEF ServedWell, Asked
      <4>2. QED
        BY <2>a, <3>1, <4>1 DEF ServedWell, Asked, Satisfied, clientVars
    <3>4. ClosedWell' /\ ExitTruthful'
      BY <1>0, <3>1 DEF ClosedWell, ExitTruthful, Satisfied, clientVars, historyVars
    <3>5. QED
      BY <3>2, <3>3, <3>4 DEF Rest
  <2>5. CASE ObeyLoad
    <3>1. /\ pc = "obey" /\ CommandRead(c).verb = "LOAD" /\ pc' = "loading"
          /\ UNCHANGED <<clientVars, running, client, consumed, daemonVars, historyVars>>
      BY <2>0, <2>5 DEF ObeyLoad
    <3>2. CopiesAgree' /\ StopEndsAll'
      BY <1>0, <3>1 DEF CopiesAgree, InForce, historyVars, StopEndsAll, daemonVars
    <3>3. ServedWell'
      BY <2>a, <3>1 DEF ServedWell, Asked, CommandRead, clientVars
    <3>4. ClosedWell' /\ ExitTruthful'
      BY <1>0, <3>1 DEF ClosedWell, ExitTruthful, Satisfied, clientVars, daemonVars, historyVars
    <3>5. QED
      BY <3>2, <3>3, <3>4 DEF Rest
  <2>6. CASE Reload
    <3>1. /\ pc = "loading" /\ pc' = "report" /\ hotstrings' = CommandRead(c).path
          /\ loaded' = IF hotstrings' = Path[c] THEN loaded \cup {c} ELSE loaded
          /\ UNCHANGED <<clientVars, running, client, consumed, activeScript, stopping,
                         granted, killed>>
      BY <2>0, <2>6 DEF Reload
    <3>2. CopiesAgree'
      BY <1>0, <2>0, <3>1 DEF CopiesAgree, InForce, CommandRead, Served
    <3>3. StopEndsAll'
      BY <1>0, <3>1 DEF StopEndsAll
    <3>4. Asked(c)'
      <4>1. CommandRead(c).verb = "LOAD" /\ (consumed = Pieces[c] => CommandRead(c).path = Path[c])
        BY <1>0, <2>0, <3>1, CommandTyped DEF ServedWell, Asked
      <4>2. CommandRead(c)' = CommandRead(c)
        BY <3>1 DEF CommandRead
      <4>3. QED
        BY <3>1, <4>1, <4>2 DEF Asked
    <3>5. ServedWell'
      BY <2>a, <3>1, <3>4 DEF ServedWell, clientVars
    <3>6. ClosedWell' /\ ExitTruthful'
      BY <1>0, <3>1 DEF ClosedWell, ExitTruthful, Satisfied, clientVars
    <3>7. QED
      BY <3>2, <3>3, <3>5, <3>6 DEF Rest
  <2>7. CASE Close
    <3>1. /\ pc = "close" /\ pc' = "accept" /\ client' = <<>>
          /\ link' = [link EXCEPT ![c] = "closed"]
          /\ reset' = IF written[c] > consumed THEN reset \cup {c} ELSE reset
          /\ UNCHANGED <<written, gone, answer, exit, running, daemonVars, historyVars>>
      BY <2>0, <2>7 DEF Close
    <3>2. CopiesAgree' /\ StopEndsAll'
      BY <1>0, <3>1 DEF CopiesAgree, InForce, historyVars, StopEndsAll, daemonVars
    <3>3. ServedWell'
      BY <3>1 DEF ServedWell
    <3>4. ClosedWell'
      <4>1. \A e \in Clients \ {c} : link'[e] = link[e]
        BY <1>0, <3>1 DEF ClientsTyped
      <4>2. c \notin gone \cup reset' =>
                answer[c] # <<>> /\ (written[c] = Pieces[c] => Satisfied(c))
        BY <1>0, <2>0, <2>a, <3>1 DEF ServedWell
      <4>3. QED
        BY <1>0, <3>1, <4>1, <4>2 DEF ClosedWell, Satisfied, daemonVars, historyVars
    <3>5. ExitTruthful'
      BY <1>0, <3>1 DEF ExitTruthful, daemonVars, historyVars
    <3>6. QED
      BY <3>2, <3>3, <3>4, <3>5 DEF Rest
  <2>8. QED
    BY <1>3, <2>1, <2>3, <2>4, <2>5, <2>6, <2>7
<1>4. QED
  BY <1>1, <1>2, <1>3 DEF ServerStep, Read, ReadNothing, WaitEnds, WaitTimesOut, ObeyPing,
     ObeyOther, ObeyStop, Stop, ObeyLoad, Reload, ReloadThrows, Report, Close

LEMMA StepKeeps == IInv /\ [Next]_vars => IInv'
<1> SUFFICES ASSUME IInv, [Next]_vars PROVE TypeOK' /\ Rest'
  BY DEF IInv, Rest
<1>1. TypeOK'
  BY TypeKept DEF IInv
<1>2. Rest'
  BY ClientStepKeeps, ServerStepKeeps, MainStepKeeps DEF Next, ClientStep
<1>3. QED
  BY <1>1, <1>2

----------------------------------------------------------------------------
(* The theorems.                                                           *)

(* Every reachable state is one the invariant describes: how far the       *)
(* command of the client that is served has been read and carried out, and *)
(* what the clients served before it have.                                 *)
THEOREM Inductive == Spec => []IInv
<1>1. QED
  BY InitHolds, StepKeeps, PTL DEF Spec

(* What the daemon reports as loaded is loaded, and ahkunixctl does not    *)
(* exit with 0 unless its command was carried out, or the daemon killed.   *)
THEOREM Truthful == Spec => []ServerInv
<1>1. IInv => ServerInv
  BY DEF IInv, ServerInv, CopiesAgree, InForce, StatusTruthful
<1>2. QED
  BY Inductive, <1>1, PTL

(* handle_client sets running_ to false with g_stop, and no client is      *)
(* accepted after that: the script is not swapped again.                   *)
THEOREM StopIsLast == Spec => NothingAfterStop
<1>1. IInv /\ [Next]_vars => [stopping => hotstrings' = hotstrings]_vars
  <2> SUFFICES ASSUME IInv, Next, stopping PROVE hotstrings' = hotstrings
    BY DEF vars, daemonVars
  <2>1. pc # "loading"
    BY DEF IInv, StopEndsAll
  <2>2. QED
    BY <2>1 DEF Next, ClientStep, ServerStep, MainStep, Connect, Write, Leave, Exit, Refused,
       Poll, EndRun, Accept, NoMoreClients, Read, ReadNothing, WaitEnds, WaitTimesOut,
       ObeyPing, ObeyOther, ObeyStop, Stop, ObeyLoad, Reload, ReloadThrows, Report, Close,
       FirstKey, LeaveRun, CloseSocket, Kill, daemonVars
<1>2. QED
  BY Inductive, <1>1, PTL DEF Spec, NothingAfterStop

(* An OK to a LOAD names the script that is in force from then on, and the *)
(* one asked for if the command was read to its end.                       *)
LoadAnswered(c) ==
    answer'[c] # answer[c] /\ answer'[c][1].status = "OK" /\ Verb[c] = "LOAD" =>
        /\ answer'[c][1].path = granted'
        /\ consumed = Pieces[c] => answer'[c][1].path = Path[c]

LEMMA AnswersExact ==
  ASSUME IInv, Next, NEW c \in Clients
  PROVE  LoadAnswered(c)
<1> SUFFICES ASSUME answer'[c] # answer[c], answer'[c][1].status = "OK", Verb[c] = "LOAD"
             PROVE  /\ answer'[c][1].path = granted'
                    /\ consumed = Pieces[c] => answer'[c][1].path = Path[c]
  BY DEF LoadAnswered
<1>0. AnswersTyped /\ DaemonTyped /\ ServedWell
  BY TypeParts DEF IInv
<1>1. ObeyPing \/ ObeyOther \/ ObeyStop \/ ReloadThrows \/ Report
  BY DEF Next, ClientStep, ServerStep, MainStep, Connect, Write, Leave, Exit, Refused,
     Poll, EndRun, Accept, NoMoreClients, Read, ReadNothing, WaitEnds, WaitTimesOut, Stop,
     ObeyLoad, Reload, Close, FirstKey, LeaveRun, CloseSocket, Kill, vars, clientVars
<1>2. PICK e \in Clients : client = <<e>> /\ Served = e
  BY <1>1, OneServed DEF IInv, ObeyPing, ObeyOther, ObeyStop, ReloadThrows, Report
<1>3. activeScript \in Paths /\ InitialPath \in Paths /\ CommandRead(e).path \in Paths
  BY <1>0, CommandTyped DEF DaemonTyped, Commands, Paths
<1>4. ASSUME NEW s \in {"PONG", "OK", "ERR"}, NEW p \in Paths, NEW next,
             Respond(e, Answer(s, p), next)
      PROVE  e = c /\ s = "OK" /\ answer'[c][1].path = p
  <2>1. answer' = [answer EXCEPT ![e] = IF e \in gone THEN @ ELSE <<Answer(s, p)>>]
    BY <1>4 DEF Respond
  <2>2. QED
    BY <1>0, <2>1, AnswerTyped DEF AnswersTyped
<1>5. CASE ObeyPing
  BY <1>2, <1>3, <1>4, <1>5 DEF ObeyPing
<1>6. CASE ObeyOther
  BY <1>2, <1>3, <1>4, <1>6 DEF ObeyOther
<1>7. CASE ObeyStop
  BY <1>2, <1>3, <1>4, <1>7, CommandTyped DEF ObeyStop
<1>8. CASE ReloadThrows
  BY <1>2, <1>3, <1>4, <1>8 DEF ReloadThrows
<1>9. CASE Report
  <2>1. e = c /\ answer'[c][1].path = CommandRead(e).path
    BY <1>2, <1>3, <1>4, <1>9 DEF Report
  <2>2. CommandRead(c).verb = "LOAD"
    BY <1>0, <1>2, <1>9, <2>1 DEF Report, ServedWell, Asked
  <2>3. granted' = CommandRead(c).path
    BY <1>2, <1>9, <2>1, <2>2 DEF Report, Respond, Answer
  <2>4. QED
    BY <2>1, <2>3, CommandTyped
<1>10. QED
  BY <1>1, <1>5, <1>6, <1>7, <1>8, <1>9

(* In every state, outside of the moment of the swap, what is matched with *)
(* and what is reported is the script of the last LOAD that succeeded; one *)
(* that fails, and any other command, leaves both as they were.            *)
THEOREM LoadsExact == Spec => LoadExact
<1>1. IInv /\ IInv' /\ [Next]_vars => [InForce' /\ \A c \in Clients : LoadAnswered(c)]_vars
  <2> SUFFICES ASSUME IInv, IInv', Next
               PROVE  InForce' /\ \A c \in Clients : LoadAnswered(c)
    OBVIOUS
  <2>1. InForce'
    BY DEF IInv, CopiesAgree
  <2>2. QED
    BY <2>1, AnswersExact
<1>2. QED
  BY Inductive, <1>1, PTL DEF Spec, LoadExact, LoadAnswered
=============================================================================
