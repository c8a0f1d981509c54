------------------------------ MODULE Failover -------------------------------
(***************************************************************************)
(* What the handlers promise of a request that goes through relays, however *)
(* relays are selected and whatever fails: it is sent to one relay after    *)
(* another, to none twice, until one serves it or its attempts are used up; *)
(* relays are struck for failing it, once each; the statistics are told     *)
(* when it ends, once, and nothing happens to it after that.                *)
(***************************************************************************)
EXTENDS Integers

CONSTANTS
  Relays,
  Limit  \* attempts of a request

VARIABLES
  outcome,   \* pending, reached (a relay has taken it), served, failed
  failures,  \* attempts that have failed
  sent,      \* how often each relay was sent the request
  struck,    \* how often each relay was struck
  told       \* what the statistics were told: nothing, request or error

vars == <<outcome, failures, sent, struck, told>>

Init ==
  /\ outcome = "pending" /\ failures = 0 /\ told = "nothing"
  /\ sent = [r \in Relays |-> 0] /\ struck = [r \in Relays |-> 0]

Send(r) == sent[r] = 0 /\ sent' = [sent EXCEPT ![r] = 1]
Strike(r) == struck[r] = 0 /\ struck' = [struck EXCEPT ![r] = 1]

Serve == outcome' = "served" /\ told' = "request"
Fail == outcome' = "failed" /\ told' = "error"

Trying == outcome = "pending" /\ failures < Limit

\* A relay that was neither sent the request nor struck takes it.
Reach(r) ==
  /\ Trying /\ Send(r) /\ struck[r] = 0
  /\ Serve \/ (outcome' = "reached" /\ UNCHANGED told)
  /\ UNCHANGED <<failures, struck>>

\* The answer of a relay that has taken the request reaches the client or not.
Deliver ==
  /\ outcome = "reached"
  /\ Serve \/ Fail
  /\ UNCHANGED <<failures, sent, struck>>

\* An attempt fails at a relay, which may be the end of the request.  A relay
\* that the request did not get to is struck only then.
FailAt(r) ==
  /\ Trying /\ failures' = failures + 1
  /\ Send(r) \/ UNCHANGED sent
  /\ UNCHANGED struck \/ (Strike(r) /\ (sent'[r] = 1 \/ Fail))
  /\ Fail \/ UNCHANGED <<outcome, told>>

\* An attempt fails for want of a relay, which the statistics cannot name.
FailNowhere ==
  /\ Trying /\ failures' = failures + 1
  /\ outcome' \in {"pending", "failed"}
  /\ UNCHANGED <<sent, struck, told>>

\* All attempts have failed.
GiveUp ==
  /\ outcome = "pending" /\ failures = Limit
  /\ Fail
  /\ UNCHANGED <<failures, sent, struck>>

\* The request does not get as far as an attempt.
Refuse ==
  /\ outcome = "pending" /\ failures = 0
  /\ outcome' = "failed"
  /\ UNCHANGED <<failures, sent, struck, told>>

Next ==
  \/ \E r \in Relays : Reach(r) \/ FailAt(r)
  \/ Deliver \/ FailNowhere \/ GiveUp \/ Refuse

Spec == Init /\ [][Next]_vars
=============================================================================
