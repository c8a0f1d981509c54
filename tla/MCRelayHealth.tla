---------------------------- MODULE MCRelayHealth ----------------------------
(* A small instance of RelayHealth for TLC: one relay, whose record both      *)
(* checkers, the flusher and the requests write. RelayHealthProofs has the    *)
(* invariants for any set of relays.                                         *)
EXTENDS RelayHealth

CONSTANT r1

OneRelay == {r1}
=============================================================================
