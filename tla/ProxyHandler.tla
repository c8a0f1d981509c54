---------------------------- MODULE ProxyHandler -----------------------------
(***************************************************************************)
(* Handler.ServeHTTP: one request, sent to the handler it is for.  Requests *)
(* through Mullvad are those of modules Connect and HttpProxy, of which one *)
(* runs; the direct:// upstream, which has no relay to select, is modelled  *)
(* here: handleConnectDirect, and roundTrip's first branch under the same   *)
(* loop of attempts.                                                        *)
(***************************************************************************)
EXTENDS RelaySelection

CONSTANT Upstream  \* the address after direct://, which names it in the statistics

ASSUME UpstreamAssumption == Upstream \notin Relays \cup {NoRelay}

VARIABLES
  route,                    \* the handler that serves the request
  pc, attempt,              \* of that handler
  remote, last, dials,      \* see Connect
  body, reader,             \* see HttpProxy
  transports, tried,
  strikes, faulty, record,  \* of either
  marked                    \* the upstream was marked unhealthy

tunnelVars == <<remote, last, dials>>
plainVars == <<body, reader, transports, tried>>
directVars == <<pc, attempt, reader, record, marked>>
vars == <<selVars, route, pc, attempt, tunnelVars, plainVars, strikes, faulty,
          record, marked>>

\* The modules Connect and HttpProxy, with what is proved of them.
C == INSTANCE ConnectProofs
H == INSTANCE HttpProxyProofs

Routes == {"connect", "http", "directConnect", "directHttp", "page", "refused"}

TypeOK ==
  /\ route \in Routes
  /\ route = "connect" => C!TypeOK
  /\ route = "http" => H!TypeOK
  /\ marked \in BOOLEAN
  /\ route \in {"directConnect", "directHttp"} =>
       /\ pc \in {"start", "dial", "answer", "trip", "tunnel", "gone", "closed",
                  "exhausted", "answered", "failed", "bad"}
       /\ attempt \in 0..MaxRetries
       /\ record \in {C!None} \cup [kind : {"request", "error"}, relay : {Upstream}]

\* ServeHTTP, handleHTTP and the head of handleConnect.  A request names its
\* target ("page": /favicon.ico or the index); the rest is configuration.
Dispatch(q) ==
  IF q.connect
  THEN IF q.target = "none" THEN "refused"
       ELSE IF q.direct THEN "directConnect" ELSE "connect"
  ELSE IF q.httpsOnly THEN "refused"
  ELSE IF q.target = "page" THEN "page"
  ELSE IF q.direct THEN "directHttp" ELSE "http"

Requests == [connect : BOOLEAN, target : {"none", "page", "host"},
             httpsOnly : BOOLEAN, direct : BOOLEAN]

\* What a route does not use is left empty.
Init ==
  /\ \E q \in Requests : route = Dispatch(q)
  /\ C!Init /\ H!Init
  /\ route \notin {"http", "directHttp"} => body = "none"
  /\ route # "http" => transports = {}
  /\ marked = FALSE

-----------------------------------------------------------------------------
(* The direct:// upstream.                                                 *)

Direct(r) == route = r /\ UNCHANGED <<selVars, route, tunnelVars, body,
                                      transports, tried, strikes, faulty>>

DirectHijack ==
  /\ Direct("directConnect") /\ pc = "start"
  /\ pc' \in {"dial", "gone"}
  /\ UNCHANGED <<attempt, reader, record, marked>>

Told(kind) == record' = [kind |-> kind, relay |-> Upstream]

\* Every attempt dials the same address; only the last failure is recorded.
DirectDialFails ==
  /\ Direct("directConnect") /\ pc = "dial"
  /\ attempt' = attempt + 1
  /\ IF attempt' < MaxRetries
     THEN pc' = "dial" /\ UNCHANGED record
     ELSE pc' = "exhausted" /\ Told("error")
  /\ UNCHANGED <<reader, marked>>

\* The 200 reaches the client, or the client has gone and nothing is recorded.
DirectAnswer ==
  /\ Direct("directConnect") /\ pc = "dial"
  /\ \/ pc' = "tunnel" /\ Told("request")
     \/ pc' = "closed" /\ UNCHANGED record
  /\ UNCHANGED <<attempt, reader, marked>>

DirectReadBody ==
  /\ Direct("directHttp") /\ pc = "start"
  /\ pc' = IF body = "unreadable" THEN "bad" ELSE "trip"
  /\ reader' = IF body = "large" THEN "tail" ELSE H!Fresh(body)
  /\ UNCHANGED <<attempt, record, marked>>

DirectTripSucceeds ==
  /\ Direct("directHttp") /\ pc = "trip"
  /\ pc' = "answered" /\ reader' = "used" /\ Told("request")
  /\ UNCHANGED <<attempt, marked>>

\* The excluded set does not stop the loop from using the upstream again.  At
\* the end it is marked as a relay would be.
DirectTripFails ==
  /\ Direct("directHttp") /\ pc = "trip"
  /\ \E class \in {"net", "other"} :
       /\ attempt' = attempt + 1
       /\ IF H!IsRetryable(class) /\ attempt' < MaxRetries /\ body # "large"
          THEN pc' = "trip" /\ reader' = H!Fresh(body) /\ UNCHANGED <<record, marked>>
          ELSE /\ pc' = "failed" /\ Told("error") /\ UNCHANGED reader
               /\ marked' = H!IsRelayFailure(class)

-----------------------------------------------------------------------------
ThroughMullvad ==
  /\ UNCHANGED <<route, marked>>
  /\ \/ route = "connect" /\ C!Next /\ UNCHANGED plainVars
     \/ route = "http" /\ H!Next /\ UNCHANGED tunnelVars

DirectNext ==
  \/ DirectHijack \/ DirectDialFails \/ DirectAnswer
  \/ DirectReadBody \/ DirectTripSucceeds \/ DirectTripFails

Next == ThroughMullvad \/ DirectNext

Spec == Init /\ [][Next]_vars

-----------------------------------------------------------------------------
(* Properties: those of Connect and HttpProxy, each on its route.           *)

\* No relay is dialled twice by one CONNECT (Connect).
NeverDialledTwice == route = "connect" => C!NeverDialledTwice

\* A CONNECT strikes only relays it dialled, once each (Connect).
StrikesEarned == route = "connect" => C!StrikesEarned

\* A hijacked CONNECT leaves a record when it ends (Connect).  Through a
\* direct:// upstream the record names the upstream, an error only after the
\* last attempt; a client that went away before its answer leaves none.
EndsAccounted ==
  /\ route = "connect" => C!EndsAccounted
  /\ route = "directConnect" =>
       /\ pc = "tunnel" => record = [kind |-> "request", relay |-> Upstream]
       /\ pc = "exhausted" => record = [kind |-> "error", relay |-> Upstream]
       /\ pc \in {"gone", "closed"} => record = C!None

\* No relay is sent a plain request twice (HttpProxy).
NeverTriedTwice == route = "http" => H!NeverTriedTwice

\* A plain request blames at most one relay (HttpProxy).
OneBlamed == route = "http" => H!OneBlamed

\* A buffered body is sent whole by every attempt, also when all attempts go
\* to the same direct:// upstream.
BodyReplayed ==
  /\ route = "http" => H!BodyReplayed
  /\ route = "directHttp" /\ pc = "trip" /\ body = "small" => reader = "whole"

\* What module Failover speaks of, on either route through relays; on the
\* other routes nothing of it moves.
F == INSTANCE Failover WITH
  Limit <- MaxRetries,
  outcome <- IF route = "connect" THEN C!Outcome
             ELSE IF route = "http" THEN H!Outcome ELSE "pending",
  failures <- IF route = "connect" THEN C!FailedAttempts
              ELSE IF route = "http" THEN attempt ELSE 0,
  sent <- IF route = "connect" THEN dials ELSE tried,
  struck <- strikes,
  told <- IF route = "connect" THEN C!Told
          ELSE IF route = "http" THEN H!Told ELSE "nothing"

\* Every request through relays fails over as module Failover says, whichever
\* handler serves it: no relay is sent it twice, struck twice, or sent it after
\* a strike; the statistics are told of its end, once; nothing follows the end.
FailsOver == F!Spec
=============================================================================
