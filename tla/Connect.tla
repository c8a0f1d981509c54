------------------------------- MODULE Connect -------------------------------
(***************************************************************************)
(* handleConnect: one CONNECT request, from its arrival to its tunnel or    *)
(* its end, with the attempts that reach for one relay after another.       *)
(* The tunnel itself is module Tunnel.  With upstream-socks5 the dialer is   *)
(* wrapped in a second one; making it never fails, and Dial covers both.    *)
(***************************************************************************)
EXTENDS RelaySelection, FiniteSets

VARIABLES
  pc,       \* where the handler stands
  attempt,
  remote,   \* remoteID, NoRelay when the last selection failed
  last,     \* lastRemoteID
  dials,    \* history: how often each relay was dialled
  strikes,  \* history: how often each relay was marked unhealthy
  record,   \* what the stats store was told: nothing, a request or an error
  faulty    \* history: relays that failed a dial by their own fault

handler == <<pc, attempt, remote, last, record>>
history == <<dials, strikes, faulty>>
vars == <<selVars, handler, history>>

Ended == {"refused", "gone", "closed", "tunnel", "exhausted"}

None == [kind |-> "none"]

TypeOK ==
  /\ SelTypeOK
  /\ pc \in {"start", "select", "dial", "reselect", "answer"} \cup Ended
  /\ attempt \in 0..MaxRetries
  /\ remote \in Relays \cup {NoRelay} /\ last \in Relays \cup {NoRelay}
  /\ dials \in [Relays -> Nat] /\ strikes \in [Relays -> Nat]
  /\ record \in {None} \cup [kind : {"request", "error"}, relay : Relays]
  /\ faulty \subseteq Relays

Init ==
  /\ SelInit
  /\ pc = "start" /\ attempt = 0 /\ remote = NoRelay /\ last = NoRelay
  /\ dials = [r \in Relays |-> 0] /\ strikes = [r \in Relays |-> 0]
  /\ record = None /\ faulty = {}

-----------------------------------------------------------------------------
(* Why a dial fails: the relay cannot be reached or breaks off, or the relay *)
(* answers that the target cannot be reached, or there is no address to     *)
(* dial.                                                                    *)

Causes(r) == IF r = NoRelay THEN {"address"} ELSE {"relay", "target"}

\* External: Dial of the SOCKS5 dialer wraps every error, the reply of the
\* relay included, in a *net.OpError, which is a net.Error.
NetErrors == {"address", "relay", "target"}

IsRelayFailure(cause) == cause \in NetErrors

-----------------------------------------------------------------------------
Arrive ==
  /\ pc = "start"
  /\ pc' = "select"
  /\ UNCHANGED <<shared, named, attempt, remote, last, record, history>>
  /\ Select(TRUE, {})

\* The client leaves before its connection is hijacked: the context of the
\* first selection is the request's.
ClientLeaves ==
  /\ pc = "select" /\ live
  /\ live' = FALSE
  /\ UNCHANGED <<shared, named, excluded, scan, since, handler, history>>

\* 502, "no relay DNS reachable".
Refuse ==
  /\ pc = "select" /\ sel \in Failures
  /\ pc' = "refused"
  /\ UNCHANGED <<selVars, attempt, remote, last, record, history>>

Hijack ==
  /\ pc = "select" /\ sel = "resolved"
  /\ pc' = "dial" /\ remote' = pick /\ last' = pick
  /\ UNCHANGED <<selVars, attempt, record, history>>

HijackFails ==
  /\ pc = "select" /\ sel = "resolved"
  /\ pc' = "gone"
  /\ UNCHANGED <<selVars, attempt, remote, last, record, history>>

\* One more of a history counter for r, which may be NoRelay.
Count(f, r) == IF r = NoRelay THEN f ELSE [f EXCEPT ![r] = @ + 1]

DialSucceeds ==
  /\ pc = "dial" /\ remote # NoRelay
  /\ dials' = Count(dials, remote)
  /\ pc' = "answer"
  /\ UNCHANGED <<selVars, attempt, remote, last, record, strikes, faulty>>

\* Mutant: it is lastRemoteID that is marked.
MutStrike(r) ==
  \E s \in {"online", "offline"} :
    /\ standing' = [standing EXCEPT ![last] = s]
    /\ strikes' = [strikes EXCEPT ![last] = @ + 1]

\* markRemoteUnhealthy, whose effect on the standing is RelayHealth's.
Strike(r) ==
  IF r = NoRelay
  THEN UNCHANGED <<standing, strikes>>
  ELSE \E s \in {"online", "offline"} :
         /\ standing' = [standing EXCEPT ![r] = s]
         /\ strikes' = [strikes EXCEPT ![r] = @ + 1]

\* The context is cancelled before the next selection is called with it.
DialFails ==
  /\ pc = "dial"
  /\ \E cause \in Causes(remote) :
       /\ Strike(IF IsRelayFailure(cause) THEN remote ELSE NoRelay)
       /\ faulty' = IF cause = "relay" THEN faulty \cup {remote} ELSE faulty
  /\ dials' = Count(dials, remote)
  /\ Select(FALSE, excluded \cup {remote})
  /\ pc' = "reselect"
  /\ UNCHANGED <<listed, cached, named, attempt, remote, last, record>>

\* RecordRequest or RecordError, for a relay that is known.
Record(kind, r) ==
  record' = IF r = NoRelay THEN record ELSE [kind |-> kind, relay |-> r]

\* Mutant: one attempt too many.
MutNextAttempt ==
  /\ attempt' = attempt + 1
  /\ IF attempt' <= MaxRetries
     THEN pc' = "dial" /\ UNCHANGED record
     ELSE pc' = "exhausted" /\ Record("error", last')
  /\ UNCHANGED <<selVars, history>>

\* The loop ends with a record of an error; the client's connection is closed.
NextAttempt ==
  /\ attempt' = attempt + 1
  /\ IF attempt' < MaxRetries
     THEN pc' = "dial" /\ UNCHANGED record
     ELSE pc' = "exhausted" /\ Record("error", last')
  /\ UNCHANGED <<selVars, history>>

Reselected ==
  /\ pc = "reselect" /\ sel = "resolved"
  /\ remote' = pick /\ last' = pick
  /\ NextAttempt

\* Mutant: lastRemoteID is overwritten like remoteID.
MutReselectFails ==
  /\ pc = "reselect" /\ sel \in Failures
  /\ remote' = NoRelay /\ last' = NoRelay
  /\ NextAttempt

ReselectFails ==
  /\ pc = "reselect" /\ sel \in Failures
  /\ remote' = NoRelay /\ UNCHANGED last
  /\ NextAttempt

\* The 200 reaches the client and the tunnel starts, or both sides are closed.
Answer ==
  /\ pc = "answer"
  /\ \/ pc' = "tunnel" /\ Record("request", remote)
     \/ pc' = "closed" /\ Record("error", last)
  /\ UNCHANGED <<selVars, attempt, remote, last, history>>

-----------------------------------------------------------------------------
Selecting == pc \in {"select", "reselect"} /\ (Choose \/ Address) /\ UNCHANGED <<handler, history>>

Handler ==
  \/ Arrive \/ Refuse \/ Hijack \/ HijackFails \/ DialSucceeds \/ DialFails
  \/ Reselected \/ ReselectFails \/ Answer \/ Selecting

Environment == pc \notin Ended /\ Elsewhere /\ UNCHANGED <<handler, history>>

Next == Handler \/ ClientLeaves \/ Environment

Spec == Init /\ [][Next]_vars

-----------------------------------------------------------------------------
(* Properties.                                                             *)

\* No relay is dialled twice by one CONNECT, however the health of the relays
\* flips between the attempts and whichever selections fail.
NeverDialledTwice == \A r \in Relays : dials[r] <= 1

\* A CONNECT strikes only relays it dialled, each at most once, and never the
\* one that carries its tunnel.
StrikesEarned ==
  /\ \A r \in Relays : strikes[r] <= dials[r]
  /\ pc \in {"answer", "tunnel"} => remote \in Relays /\ strikes[remote] = 0

\* Whatever fails on the way, a CONNECT whose connection was hijacked leaves
\* one record in the statistics when it ends.
EndsAccounted == pc \in {"tunnel", "closed", "exhausted"} => record # None

\* handler.go:775-777: a relay failure is one "attributed to the relay itself
\* ... as opposed to the target rejecting the connection": a relay is struck
\* only when it failed itself.
OnlyFaultyStruck == \A r \in Relays : strikes[r] > 0 => r \in faulty

\* README.md:110 "Retry: 3 retries on transient errors": a CONNECT that gives
\* up has tried as many relays as it has attempts.  Meant for a network that
\* is up (no Outages) and at least MaxRetries relays.
EveryAttemptDials ==
  pc = "exhausted" => Cardinality({r \in Relays : dials[r] > 0}) = MaxRetries

\* A CONNECT as Failover sees it.  An attempt counts as failed when its dial has
\* failed, though attempt is incremented after the next selection.
Outcome ==
  IF pc \notin Ended \cup {"answer"} THEN "pending"
  ELSE IF pc = "answer" THEN "reached"
  ELSE IF pc = "tunnel" THEN "served" ELSE "failed"
FailedAttempts == IF pc = "reselect" THEN attempt + 1 ELSE attempt
Told == IF record = None THEN "nothing" ELSE record.kind

F == INSTANCE Failover WITH Limit <- MaxRetries, outcome <- Outcome,
       failures <- FailedAttempts, sent <- dials, struck <- strikes, told <- Told
=============================================================================
