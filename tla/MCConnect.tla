------------------------------ MODULE MCConnect ------------------------------
(* Small instances of Connect for TLC. *)
EXTENDS Connect, TLC

CONSTANTS a, b, c

TwoRelays == {a, b}
ThreeRelays == {a, b, c}
Symmetry == Permutations(ThreeRelays)
=============================================================================
