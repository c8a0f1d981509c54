------------------------------ MODULE HttpProxy ------------------------------
(***************************************************************************)
(* proxyHTTP and roundTrip: one plain HTTP request and its attempts.  Each  *)
(* attempt selects a relay, takes the relay's http.Transport from the cache *)
(* or makes one, and sends the request through it.  All attempts run under  *)
(* the context of the request, which ends when the client goes away.        *)
(***************************************************************************)
EXTENDS RelaySelection

VARIABLES
  pc,        \* where the handler stands
  body,      \* none, small (at most maxBodySize), large, unreadable
  reader,    \* what the reader given to the next attempt holds
  attempt,
  transports,\* relays with a transport in the cache
  tried,     \* history: how often the request was sent to each relay
  strikes,   \* history: how often each relay was marked unhealthy
  faulty,    \* history: relays that failed by their own fault
  record     \* what the stats store was told: nothing, a request or an error

handler == <<pc, body, reader, attempt, record>>
history == <<tried, strikes, faulty>>
vars == <<selVars, handler, transports, history>>

Ended == {"answered", "failed", "bad"}
None == [kind |-> "none"]

TypeOK ==
  /\ SelTypeOK
  /\ pc \in {"start", "select", "trip"} \cup Ended
  /\ body \in {"none", "small", "large", "unreadable"}
  /\ reader \in {"empty", "whole", "tail", "used"}
  /\ attempt \in 0..MaxRetries
  /\ transports \subseteq Relays
  /\ tried \in [Relays -> Nat] /\ strikes \in [Relays -> Nat]
  /\ faulty \subseteq Relays
  /\ record \in {None} \cup [kind : {"request", "error"}, relay : Relays]

Init ==
  /\ SelInit
  /\ pc = "start" /\ attempt = 0 /\ reader = "empty" /\ record = None
  /\ body \in {"none", "small", "large", "unreadable"}
  /\ transports \in SUBSET Relays
  /\ tried = [r \in Relays |-> 0] /\ strikes = [r \in Relays |-> 0]
  /\ faulty = {}

-----------------------------------------------------------------------------
(* Errors, by class.  isRetryable and isRelayFailure accept the same ones:   *)
(* broken connections, timeouts, cancelled contexts.  Of the selection's     *)
(* errors, "no servers match filter" is never one of them.                  *)

IsRelayFailure(class) == class = "net"
IsRetryable(class) == class = "net"

SelectionErrors == IF sel = "none" THEN {"other"} ELSE {"net", "other"}

\* What can go wrong in RoundTrip; a cancelled context fails it at once.
Causes == IF live THEN {"relay", "target", "protocol"} ELSE {"cancelled"}
ClassOf(cause) == IF cause = "protocol" THEN "other" ELSE "net"

-----------------------------------------------------------------------------
\* Mutant: the reader of the first attempt serves them all.
MutFresh(b) ==
  IF b # "small" THEN "empty" ELSE IF pc = "trip" THEN "used" ELSE reader

\* bytes.NewReader over the buffered body, for every attempt anew.
Fresh(b) == IF b = "small" THEN "whole" ELSE "empty"

\* readBody: 400 for a body that cannot be read.  Of a large one it has taken
\* maxBodySize + 1 bytes, and the one attempt sends what is left.
ReadBody ==
  /\ pc = "start"
  /\ IF body = "unreadable"
     THEN pc' = "bad" /\ UNCHANGED <<selVars, reader>>
     ELSE /\ pc' = "select"
          /\ reader' = CASE body = "large" -> "tail"
                         [] body = "small" -> "whole"
                         [] OTHER -> "empty"
          /\ UNCHANGED <<shared, named>>
          /\ Select(live, {})
  /\ UNCHANGED <<body, attempt, record, transports, history>>

\* The transport is in the cache, or is made with the relay's address.
TransportHit ==
  /\ pc = "select" /\ sel = "chosen"
  /\ pick \in transports
  /\ pc' = "trip"
  /\ UNCHANGED <<selVars, body, reader, attempt, record, transports, history>>

TransportMiss ==
  /\ pc = "select" /\ sel = "resolved"
  /\ transports' = transports \cup {pick}
  /\ pc' = "trip"
  /\ UNCHANGED <<selVars, body, reader, attempt, record, history>>

\* RecordRequest or RecordError, for a relay that is known.
Record(kind, r) ==
  record' = IF r = NoRelay THEN record ELSE [kind |-> kind, relay |-> r]

\* writeResponse; RecordBytes is StatsStore's.
TripSucceeds ==
  /\ pc = "trip" /\ live
  /\ tried' = [tried EXCEPT ![pick] = @ + 1]
  /\ reader' = "used"
  /\ pc' = "answered" /\ Record("request", pick)
  /\ UNCHANGED <<selVars, body, attempt, transports, strikes, faulty>>

\* logAndRespond: 502.  What a mark does to the standing is RelayHealth's.
Respond(r, mark) ==
  /\ pc' = "failed" /\ Record("error", r)
  /\ IF mark /\ r # NoRelay
     THEN Restand(r) /\ strikes' = [strikes EXCEPT ![r] = @ + 1]
     ELSE UNCHANGED <<standing, since, strikes>>
  /\ UNCHANGED <<listed, cached, named, live, excluded, scan, reader>>

\* Mutants of Again: every failure strikes; the relay is not excluded.
MutAgain(r) ==
  /\ pc' = "select" /\ reader' = Fresh(body)
  /\ strikes' = IF r = NoRelay THEN strikes ELSE [strikes EXCEPT ![r] = @ + 1]
  /\ UNCHANGED <<shared, named, record>>
  /\ Select(live, excluded \cup ({r} \ {NoRelay}))
MutAgainSame(r) ==
  /\ pc' = "select" /\ reader' = Fresh(body)
  /\ UNCHANGED <<shared, named, record, strikes>>
  /\ Select(live, excluded)

\* The next attempt avoids the relay.
Again(r) ==
  /\ pc' = "select" /\ reader' = Fresh(body)
  /\ UNCHANGED <<shared, named, record, strikes>>
  /\ Select(live, excluded \cup ({r} \ {NoRelay}))

\* The rest of the loop's body, and its end; a large body has no loop.
AttemptFails(r, class) ==
  /\ attempt' = attempt + 1
  /\ IF IsRetryable(class) /\ attempt' < MaxRetries /\ body # "large"
     THEN Again(r)
     ELSE Respond(r, IsRelayFailure(class))
  /\ UNCHANGED <<body, transports>>

SelectionFails ==
  /\ pc = "select" /\ sel \in Failures
  /\ \E class \in SelectionErrors : AttemptFails(pick, class)
  /\ UNCHANGED <<tried, faulty>>

TripFails ==
  /\ pc = "trip"
  /\ tried' = [tried EXCEPT ![pick] = @ + 1]
  /\ \E cause \in Causes :
       /\ faulty' = IF cause = "relay" THEN faulty \cup {pick} ELSE faulty
       /\ AttemptFails(pick, ClassOf(cause))

-----------------------------------------------------------------------------
Selecting ==
  /\ pc = "select"
  /\ Choose \/ (pick \notin transports /\ Address)
  /\ UNCHANGED <<handler, transports, history>>

Handler ==
  \/ ReadBody \/ TransportHit \/ TransportMiss \/ TripSucceeds \/ TripFails
  \/ SelectionFails \/ Selecting

ClientLeaves ==
  /\ pc \notin Ended /\ live
  /\ live' = FALSE
  /\ UNCHANGED <<shared, named, excluded, scan, since, handler, transports, history>>

\* Other requests make and evict transports.
TransportAges(r) ==
  /\ transports' = IF r \in transports THEN transports \ {r} ELSE transports \cup {r}
  /\ UNCHANGED <<selVars, handler, history>>

Environment ==
  /\ pc \notin Ended
  /\ \/ Elsewhere /\ UNCHANGED <<handler, transports, history>>
     \/ \E r \in Relays : TransportAges(r)

Next == Handler \/ ClientLeaves \/ Environment

Spec == Init /\ [][Next]_vars

-----------------------------------------------------------------------------
(* Properties.                                                             *)

\* No relay is sent the request twice, whatever fails between the attempts.
NeverTriedTwice == \A r \in Relays : tried[r] <= 1

\* A request blames at most one relay, one it was sent to or could not find
\* the address of; a request that was answered blames nobody.
OneBlamed ==
  /\ \A r, q \in Relays : strikes[r] > 0 /\ strikes[q] > 0 => r = q
  /\ \A r \in Relays : strikes[r] > 0 => pc = "failed" /\ record.relay = r

\* Every attempt carries the body from its first byte, for a body that was
\* buffered; one that was not is sent at most once.
BodyReplayed ==
  /\ pc = "trip" /\ body = "small" => reader = "whole"
  /\ body = "large" => \A r, q \in Relays : tried[r] > 0 /\ tried[q] > 0 => r = q

\* handler.go:775-777: a relay failure is one "attributed to the relay itself
\* (dial/connect to relay failed or relay dropped the connection)": a client
\* that goes away marks no relay unhealthy.
LeavingBlamesNobody ==
  [][~live /\ pc = "trip" => strikes' = strikes]_vars

\* A plain request as Failover sees it.
Outcome ==
  IF pc \notin Ended THEN "pending" ELSE IF pc = "answered" THEN "served" ELSE "failed"
Told == IF record = None THEN "nothing" ELSE record.kind

F == INSTANCE Failover WITH Limit <- MaxRetries, outcome <- Outcome,
       failures <- attempt, sent <- tried, struck <- strikes, told <- Told
=============================================================================
