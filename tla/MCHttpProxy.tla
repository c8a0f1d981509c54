----------------------------- MODULE MCHttpProxy -----------------------------
(* A small instance of HttpProxy for TLC. *)
EXTENDS HttpProxy, TLC

CONSTANTS a, b

TwoRelays == {a, b}
Symmetry == Permutations(TwoRelays)
=============================================================================
