---------------------------- MODULE MCStatsStore -----------------------------
(* A small instance of StatsStore for TLC. *)
EXTENDS StatsStore

CONSTANTS a, b, p1, p2

TwoRemotes == {a, b}
TwoProducers == {p1, p2}
=============================================================================
