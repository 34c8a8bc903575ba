---------------------------- MODULE MCIpcServer ----------------------------
(* A status, a load and a stop, in any order.  The load comes in two       *)
(* pieces, and may be obeyed after the first, of another path.             *)
EXTENDS IpcServer
CONSTANTS ping, load, stop

MCClients == {ping, load, stop}
MCVerb == [c \in Clients |-> CASE c = ping -> "PING" [] c = stop -> "STOP"
                               [] c = load -> "LOAD"]
MCPath == [c \in Clients |-> IF c = load THEN "new" ELSE "initial"]
MCCut == [c \in Clients |-> "short"]
MCPieces == [c \in Clients |-> IF c = load THEN 2 ELSE 1]
=============================================================================
