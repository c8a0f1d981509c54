------------------------------ MODULE MCServers -------------------------------
(***************************************************************************)
(* Small instances of Tunnel, Streams and Socks5Server for TLC.  They share *)
(* no state, so one run explores them side by side instead of multiplied:   *)
(* it begins with one of them at its beginning and the others at an end of  *)
(* theirs, where they can do nothing.                                       *)
(***************************************************************************)
EXTENDS Tunnel, Streams, Socks5Server

CONSTANTS c1, c2, c3
TwoClients == {c1, c2}
ThreeConns == {c1, c2, c3}

TunnelReturned ==
  /\ open = [d \in Sides |-> FALSE] /\ gone = [d \in Sides |-> TRUE]
  /\ expired = TRUE
  /\ copier = [d \in Sides |-> "ended"]
  /\ held = None /\ count = None /\ written = None
  /\ loop = "returned" /\ base = None /\ reported = None

StreamsOver ==
  /\ version = 0 /\ ticker = "ended" /\ snap = 0 /\ main = "exited"
  /\ subs = {} /\ slot = [c \in Clients |-> NoSnap]
  /\ closes = [c \in Clients |-> 0] /\ watcher = [c \in Clients |-> "none"]
  /\ ended = [c \in Clients |-> FALSE] /\ stream = [c \in Clients |-> "new"]
  /\ shown = [c \in Clients |-> 0] /\ late = [c \in Clients |-> FALSE]

SocksOver ==
  /\ acceptor = "over" /\ slots = 0
  /\ handler = [c \in Conns |-> "ended"]
  /\ client = [c \in Conns |-> "closed"] /\ target = [c \in Conns |-> "none"]
  /\ answer = [c \in Conns |-> "none"] /\ recorded = [c \in Conns |-> "none"]

ServersInit ==
  \/ Init /\ StreamsOver /\ SocksOver
  \/ TunnelReturned /\ StreamsInit /\ SocksOver
  \/ TunnelReturned /\ StreamsOver /\ SocksInit

ServersNext ==
  \/ Next /\ UNCHANGED <<streamVars, socksVars>>
  \/ StreamsNext /\ UNCHANGED <<vars, socksVars>>
  \/ SocksNext /\ UNCHANGED <<vars, streamVars>>

ServersSpec ==
  /\ ServersInit /\ [][ServersNext]_<<vars, streamVars, socksVars>>
  /\ Fairness /\ StreamsFairness /\ SocksFairness

\* Every part of the state of the three modules has its type.
TypesOK == TypeOK /\ StreamsTypeOK /\ SocksTypeOK
=============================================================================
