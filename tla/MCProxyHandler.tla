--------------------------- MODULE MCProxyHandler ----------------------------
(* A small instance of ProxyHandler for TLC. *)
EXTENDS ProxyHandler, TLC

CONSTANTS a, b

TwoRelays == {a, b}
Symmetry == Permutations(TwoRelays)
=============================================================================
