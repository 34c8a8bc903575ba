-------------------------- MODULE LifecycleProofs --------------------------
(***************************************************************************)
(* What Lifecycle promises, for any number of processes and any faults.    *)
(***************************************************************************)
EXTENDS Lifecycle, FiniteSetTheorems, TLAPS

----------------------------------------------------------------------------
(* The invariant.                                                          *)

(* The negation of Calm: something is under way in d.                      *)
UnderWay(d) ==
    \/ pc[d] \in Starting \cup Ending
    \/ pc[d] = "run" /\ d \in stopped \ reading

(* Places of a process that starts, found nobody and has not the name yet, *)
(* or that ends: no other process runs.                                    *)
Apart == (Starting \ {"check"}) \cup Ending

(* As long as the processes take turns, one is under way at most; the name *)
(* leads to the one that runs, and to nobody when it is to be bound.       *)
OneUnderWay == \A d, e \in Daemons : UnderWay(d) /\ UnderWay(e) => d = e
RunsReachable == \A d \in Daemons : pc[d] = "run" => name = d /\ d \in listening
RunsAlone ==
    \A d, e \in Daemons : pc[d] \in Apart /\ pc[e] = "run" => d = e
NameReady ==
    \A d \in Daemons :
        /\ pc[d] = "bind" => name = Nobody
        /\ pc[d] = "listen" => name = d
Turns == ~crowded => OneUnderWay /\ RunsReachable /\ RunsAlone /\ NameReady

(* Turns or not, the name is that of a process that will remove it.        *)
Owned ==
    ~killed /\ name # Nobody => pc[name] \in {"listen", "run", "close", "remove"}

IInv == TypeOK /\ Turns /\ Owned

----------------------------------------------------------------------------
LEMMA InitHolds == Init => IInv
  BY LifecycleAssumption DEF Init, IInv, TypeOK, Places, Starting, Ending, Turns, Owned,
     OneUnderWay, UnderWay, RunsReachable, RunsAlone, Apart, NameReady

LEMMA TypeKept == TypeOK /\ [Next]_vars => TypeOK'
<1> SUFFICES ASSUME TypeOK, [Next]_vars PROVE TypeOK'
  OBVIOUS
<1> USE LifecycleAssumption DEF TypeOK, Places, Starting, Ending, Goto, Crowding
<1>1. ASSUME NEW d \in Daemons, Start(d) PROVE TypeOK'
  BY <1>1 DEF Start, Check, Construct, Unlink, Bind, Listen
<1>2. ASSUME NEW d \in Daemons, Leave(d) PROVE TypeOK'
  BY <1>2 DEF Leave, BindFails, DropName, LeaveRun, CloseSocket, RemoveName, RemoveAgain
<1>3. ASSUME NEW d \in Daemons, Outside(d) PROVE TypeOK'
  <2>0. Calm(d) \in BOOLEAN
    BY DEF Calm
  <2>1. CASE Launch(d)
    BY <2>0, <2>1 DEF Launch
  <2>2. CASE FirstKey(d)
    BY <2>2 DEF FirstKey
  <2>3. CASE StopCommand(d)
    BY <2>0, <2>3 DEF StopCommand
  <2>4. CASE Signal(d)
    BY <2>0, <2>4 DEF Signal
  <2>5. CASE Kill(d)
    BY <2>5 DEF Kill
  <2>6. QED
    BY <1>3, <2>1, <2>2, <2>3, <2>4, <2>5 DEF Outside
<1>4. CASE UNCHANGED vars
  BY <1>4 DEF vars
<1>5. QED
  BY <1>1, <1>2, <1>3, <1>4 DEF Next

(* A name is given up only by its removal, its taking over, or a kill.     *)
LEMMA OwnedKept == TypeOK /\ Owned /\ [Next]_vars => Owned'
<1> SUFFICES ASSUME TypeOK, Owned, [Next]_vars PROVE Owned'
  OBVIOUS
<1> USE LifecycleAssumption DEF TypeOK, Places, Starting, Ending, Goto, Owned
<1>1. ASSUME NEW d \in Daemons, Start(d) PROVE Owned'
  BY <1>1 DEF Start, Check, Construct, Unlink, Bind, Listen
<1>2. ASSUME NEW d \in Daemons, Leave(d) PROVE Owned'
  BY <1>2 DEF Leave, BindFails, DropName, LeaveRun, CloseSocket, RemoveName, RemoveAgain
<1>3. ASSUME NEW d \in Daemons, Outside(d) PROVE Owned'
  BY <1>3 DEF Outside, Launch, FirstKey, StopCommand, Signal, Kill
<1>4. CASE UNCHANGED vars
  BY <1>4 DEF vars
<1>5. QED
  BY <1>1, <1>2, <1>3, <1>4 DEF Next

(* A step by which d goes on, while the others stay where they are.        *)
LEMMA TurnsHold == TypeOK /\ Turns /\ [Next]_vars => Turns'
<1> SUFFICES ASSUME TypeOK, Turns, [Next]_vars, ~crowded' PROVE Turns'
  BY DEF Turns
<1> USE LifecycleAssumption
    DEF TypeOK, Places, Starting, Ending, Goto, Apart, UnderWay,
        OneUnderWay, RunsReachable, RunsAlone, NameReady
<1>1. ASSUME NEW d \in Daemons, Start(d) PROVE Turns'
  <2>0. OneUnderWay /\ RunsReachable /\ RunsAlone /\ NameReady
    BY <1>1 DEF Turns, Start, Check, Construct, Unlink, Bind, Listen
  <2>1. CASE Check(d)
    BY <2>0, <2>1 DEF Turns, Check
  <2>2. CASE Construct(d)
    BY <2>0, <2>2 DEF Turns, Construct
  <2>3. CASE Unlink(d)
    BY <2>0, <2>3 DEF Turns, Unlink
  <2>4. CASE Bind(d)
    BY <2>0, <2>4 DEF Turns, Bind
  <2>5. CASE Listen(d)
    BY <2>0, <2>5 DEF Turns, Listen
  <2>6. QED
    BY <1>1, <2>1, <2>2, <2>3, <2>4, <2>5 DEF Start
<1>2. ASSUME NEW d \in Daemons, Leave(d) PROVE Turns'
  <2>0. OneUnderWay /\ RunsReachable /\ RunsAlone /\ NameReady
    BY <1>2 DEF Turns, Leave, BindFails, DropName, LeaveRun, CloseSocket, RemoveName, RemoveAgain
  <2>1. CASE BindFails(d)
    BY <2>0, <2>1 DEF BindFails
  <2>2. CASE DropName(d)
    BY <2>0, <2>2 DEF Turns, DropName
  <2>3. CASE LeaveRun(d)
    BY <2>0, <2>3 DEF Turns, LeaveRun
  <2>4. CASE CloseSocket(d)
    BY <2>0, <2>4 DEF Turns, CloseSocket
  <2>5. CASE RemoveName(d)
    BY <2>0, <2>5 DEF Turns, RemoveName
  <2>6. CASE RemoveAgain(d)
    BY <2>0, <2>6 DEF Turns, RemoveAgain
  <2>7. QED
    BY <1>2, <2>1, <2>2, <2>3, <2>4, <2>5, <2>6 DEF Leave
<1>3. ASSUME NEW d \in Daemons, Outside(d) PROVE Turns'
  <2>0. OneUnderWay /\ RunsReachable /\ RunsAlone /\ NameReady
    BY <1>3 DEF Turns, Outside, Launch, FirstKey, StopCommand, Signal, Kill, Crowding
  <2>1. CASE Launch(d)
    <3>1. Calm(d) /\ pc' = [pc EXCEPT ![d] = "check"] /\ pc[d] = "off"
      BY <2>1 DEF Launch, Crowding
    <3>2. UNCHANGED <<reading, stopped, name, listening>>
      BY <2>1 DEF Launch
    <3>3. OneUnderWay'
      BY <3>1, <3>2 DEF Calm
    <3>4. RunsReachable' /\ RunsAlone' /\ NameReady'
      BY <2>0, <3>1, <3>2
    <3>5. QED
      BY <3>3, <3>4 DEF Turns
  <2>2. CASE FirstKey(d)
    BY <2>0, <2>2 DEF Turns, FirstKey
  <2>3. CASE StopCommand(d)
    BY <2>0, <2>3 DEF Turns, StopCommand, Crowding, Calm
  <2>4. CASE Signal(d)
    <3>1. Calm(d) /\ stopped' = stopped \cup {d}
      BY <2>4 DEF Signal, Crowding
    <3>2. UNCHANGED <<reading, name, listening>>
      BY <2>4 DEF Signal
    <3>3. \/ pc' = pc
          \/ pc' = [pc EXCEPT ![d] = "close"]
      BY <2>4 DEF Signal
    <3>4. OneUnderWay'
      BY <3>1, <3>2, <3>3 DEF Calm
    <3>5. RunsAlone'
      <4>1. \A e \in Daemons \ {d} : pc[e] \notin Apart
        BY <3>1 DEF Calm
      <4>2. \A e \in Daemons : pc[d] # "check" /\ pc[e] = "run" => e = d
        BY <2>0, <2>4 DEF Signal
      <4>3. QED
        BY <2>0, <2>4, <3>3, <4>1, <4>2 DEF Signal
    <3>6. RunsReachable' /\ NameReady'
      BY <2>0, <3>2, <3>3
    <3>7. QED
      BY <3>4, <3>5, <3>6 DEF Turns
  <2>5. CASE Kill(d)
    BY <2>0, <2>5 DEF Turns, Kill
  <2>6. QED
    BY <1>3, <2>1, <2>2, <2>3, <2>4, <2>5 DEF Outside
<1>4. CASE UNCHANGED vars
  BY <1>4 DEF vars, Turns
<1>5. QED
  BY <1>1, <1>2, <1>3, <1>4 DEF Next

LEMMA StepKeeps == IInv /\ [Next]_vars => IInv'
  BY TypeKept, TurnsHold, OwnedKept DEF IInv

----------------------------------------------------------------------------
(* The theorems.                                                           *)

(* The state is always one the invariant describes: whose the name is, and *)
(* who is under way.                                                       *)
THEOREM Inductive == Spec => []IInv
<1>1. QED
  BY InitHolds, StepKeeps, PTL DEF Spec

(* As long as no two processes start or end side by side, the check of     *)
(* main() lets one daemon run, and its socket is the one clients find.     *)
THEOREM OneAndReachable == Spec => []TurnsKept
<1>1. IInv => TurnsKept
  <2> SUFFICES ASSUME IInv, ~crowded PROVE OneDaemon /\ Reachable
    BY DEF IInv, TurnsKept
  <2>1. Reachable
    BY DEF IInv, Turns, RunsReachable, Reachable, Running
  <2>2. Running = {} \/ Running = {name}
    BY <2>1 DEF Reachable
  <2>3. Cardinality(Running) \in {0, 1}
    BY <2>2, FS_EmptySet, FS_Singleton
  <2>4. QED
    BY <2>1, <2>3 DEF OneDaemon
<1>2. QED
  BY Inductive, <1>1, PTL

(* Every process that took the name removes it, or another did before it.  *)
THEOREM NoNameLeft == Spec => []NameRemoved
<1>1. IInv => NameRemoved
  BY LifecycleAssumption DEF IInv, TypeOK, Owned, NameRemoved, Over
<1>2. QED
  BY Inductive, <1>1, PTL

(* setup_socket removes what a crash has left before it binds.             *)
THEOREM NobodyLockedOut == Spec => []CrashRecovers
<1>1. IInv => CrashRecovers
  BY DEF IInv, Turns, NameReady, CrashRecovers
<1>2. QED
  BY Inductive, <1>1, PTL
=============================================================================
