----------------------------- MODULE StatsLedger -----------------------------
(***************************************************************************)
(* What the stats store promises of a counter, whatever its channel and its *)
(* flusher do: an update it accepted is added once or never, an update it   *)
(* dropped is never added, and no counter goes back.                       *)
(***************************************************************************)
EXTENDS Integers

CONSTANT Remotes

VARIABLES
  accepted,  \* updates the store took, per remote
  visible    \* the counter a reader of RemoteStats sees

Init ==
  /\ accepted = [r \in Remotes |-> 0]
  /\ visible = [r \in Remotes |-> 0]

Accept(r) ==
  /\ accepted' = [accepted EXCEPT ![r] = @ + 1]
  /\ UNCHANGED visible

\* One flush publishes any part of what is outstanding.
Publish(r) ==
  /\ \E n \in 1..(accepted[r] - visible[r]) :
       visible' = [visible EXCEPT ![r] = @ + n]
  /\ UNCHANGED accepted

Next == \E r \in Remotes : Accept(r) \/ Publish(r)

Spec == Init /\ [][Next]_<<accepted, visible>>
=============================================================================
