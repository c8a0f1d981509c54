---------------------------- MODULE MCSharedCaches ----------------------------
(***************************************************************************)
(* Small instances of RelayLookup, LruCache and RelayFilter for TLC: on the *)
(* way of a request to its relay, and of no state in common.  One run       *)
(* explores them side by side instead of multiplied: turn says which of the *)
(* three moves, the others stay at their beginning.                         *)
(***************************************************************************)
EXTENDS RelayLookup, LruCache, MCRelayFilter

CONSTANTS c1, c2, k1, k2, k3, u1, u2
TwoCallers == {c1, c2}
ThreeKeys == {k1, k2, k3}
TwoUsers == {u1, u2}
Symmetry ==
  Permutations(TwoCallers) \cup Permutations(ThreeKeys) \cup Permutations(TwoUsers)

VARIABLE turn

CachesInit ==
  /\ turn \in {"lookup", "cache", "filter"}
  /\ LookupInit /\ LruInit /\ FilterInit
  /\ turn # "filter" => base = NoFilter

CachesNext ==
  /\ UNCHANGED turn
  /\ \/ turn = "lookup" /\ LookupNext /\ UNCHANGED <<lruVars, filterVars>>
     \/ turn = "cache" /\ LruNext /\ UNCHANGED <<lookupVars, filterVars>>
     \/ turn = "filter" /\ FilterNext /\ UNCHANGED <<lookupVars, lruVars>>

CachesSpec == CachesInit /\ [][CachesNext]_<<turn, lookupVars, lruVars, filterVars>>

\* Every part of the state of the caches has its type.
TypesOK == LookupTypeOK /\ LruTypeOK /\ FilterTypeOK
=============================================================================
