------------------------- MODULE ProxyHandlerProofs --------------------------
(* What is proved of Connect and HttpProxy holds of the requests that         *)
(* ServeHTTP sends to them; what it sends to a direct:// upstream keeps the   *)
(* same promises.                                                            *)
EXTENDS ProxyHandler, TLAPS

(***************************************************************************)
(* A request keeps its route, and on the routes through Mullvad it behaves   *)
(* as the module of that route says.                                        *)
(***************************************************************************)

LEMMA RouteKept == [Next]_vars => UNCHANGED route
  BY DEF Next, vars, ThroughMullvad, DirectNext, Direct, DirectHijack,
     DirectDialFails, DirectAnswer, DirectReadBody, DirectTripSucceeds, DirectTripFails

LEMMA ConnectStep == route = "connect" /\ [Next]_vars => [C!Next]_C!vars
<1> SUFFICES ASSUME route = "connect", [Next]_vars PROVE [C!Next]_C!vars
  OBVIOUS
<1>1. CASE UNCHANGED vars
  BY <1>1 DEF vars, tunnelVars, selVars, shared, scan, since, C!vars, C!selVars,
     C!shared, C!scan, C!since, C!handler, C!history
<1>2. CASE Next
  BY <1>2 DEF Next, ThroughMullvad, DirectNext, Direct, DirectHijack,
     DirectDialFails, DirectAnswer, DirectReadBody, DirectTripSucceeds, DirectTripFails
<1>3. QED
  BY <1>1, <1>2

LEMMA HttpStep == route = "http" /\ [Next]_vars => [H!Next]_H!vars
<1> SUFFICES ASSUME route = "http", [Next]_vars PROVE [H!Next]_H!vars
  OBVIOUS
<1>1. CASE UNCHANGED vars
  BY <1>1 DEF vars, plainVars, selVars, shared, scan, since, H!vars, H!selVars,
     H!shared, H!scan, H!since, H!handler, H!history
<1>2. CASE Next
  BY <1>2 DEF Next, ThroughMullvad, DirectNext, Direct, DirectHijack,
     DirectDialFails, DirectAnswer, DirectReadBody, DirectTripSucceeds, DirectTripFails
<1>3. QED
  BY <1>1, <1>2

LEMMA ConnectRoute == Spec => (route = "connect" /\ C!Spec) \/ [](~(route = "connect"))
<1>1. Init => C!Init
  BY DEF Init
<1>2. route = "connect" /\ [Next]_vars => (route = "connect")' /\ [C!Next]_C!vars
  BY ConnectStep, RouteKept
<1>3. ~(route = "connect") /\ [Next]_vars => (~(route = "connect"))'
  BY RouteKept
<1>4. QED
  BY <1>1, <1>2, <1>3, PTL DEF Spec, C!Spec

LEMMA HttpRoute == Spec => (route = "http" /\ H!Spec) \/ [](~(route = "http"))
<1>1. Init => H!Init
  BY DEF Init
<1>2. route = "http" /\ [Next]_vars => (route = "http")' /\ [H!Next]_H!vars
  BY HttpStep, RouteKept
<1>3. ~(route = "http") /\ [Next]_vars => (~(route = "http"))'
  BY RouteKept
<1>4. QED
  BY <1>1, <1>2, <1>3, PTL DEF Spec, H!Spec

(***************************************************************************)
(* The other routes: there is no selection, and an attempt that is under way *)
(* has left no record.                                                      *)
(***************************************************************************)

DirectRoutes == {"directConnect", "directHttp"}

DirectInv ==
  /\ route \notin {"connect", "http"} => sel = "idle"
  /\ route \in DirectRoutes =>
       /\ pc \in {"start", "dial", "trip"} =>
            record = C!None /\ ~marked /\ attempt < MaxRetries
       /\ pc \in {"start", "dial", "answer", "trip", "tunnel", "gone", "closed",
                  "exhausted", "answered", "failed", "bad"}
       /\ attempt \in 0..MaxRetries
       /\ record \in {C!None} \cup [kind : {"request", "error"}, relay : {Upstream}]
  /\ route = "directHttp" /\ pc = "trip" /\ body = "small" => reader = "whole"
  /\ route = "directConnect" =>
       /\ pc = "tunnel" => record = [kind |-> "request", relay |-> Upstream]
       /\ pc = "exhausted" => record = [kind |-> "error", relay |-> Upstream]
       /\ pc \in {"gone", "closed"} => record = C!None
  /\ route \in Routes /\ marked \in BOOLEAN

LEMMA DirectInitially == Init => DirectInv
<1> SUFFICES ASSUME Init PROVE DirectInv
  OBVIOUS
<1>1. route \in Routes
  BY DEF Init, Dispatch, Requests, Routes
<1>2. sel = "idle" /\ pc = "start" /\ attempt = 0 /\ record = C!None
  BY DEF Init, C!Init, C!SelInit
<1>3. marked = FALSE
  BY DEF Init
<1>4. ~marked /\ marked \in BOOLEAN
  BY <1>3
<1>5. attempt \in 0..MaxRetries /\ attempt < MaxRetries
  BY <1>2, RetriesAssumption
<1>6. QED
  BY <1>1, <1>2, <1>4, <1>5 DEF DirectInv

LEMMA DirectStep == DirectInv /\ [Next]_vars => DirectInv'
<1> SUFFICES ASSUME DirectInv, [Next]_vars PROVE DirectInv'
  OBVIOUS
<1>1. CASE UNCHANGED vars
  BY <1>1 DEF vars, tunnelVars, plainVars, selVars, scan, DirectInv
<1>2. CASE ThroughMullvad
  BY <1>2 DEF ThroughMullvad, DirectInv, DirectRoutes
<1>3. CASE DirectNext
  <2>1. /\ UNCHANGED <<sel, route, body>>
        /\ route \in DirectRoutes
    BY <1>3 DEF DirectNext, Direct, DirectHijack, DirectDialFails, DirectAnswer,
       DirectReadBody, DirectTripSucceeds, DirectTripFails, selVars, scan, tunnelVars,
       DirectRoutes
  <2>2. CASE DirectHijack
    BY <2>1, <2>2 DEF DirectHijack, Direct, DirectInv, DirectRoutes
  <2>3. CASE DirectDialFails
    BY <2>1, <2>3, RetriesAssumption
    DEF DirectDialFails, Direct, Told, DirectInv, DirectRoutes
  <2>4. CASE DirectAnswer
    BY <2>1, <2>4 DEF DirectAnswer, Direct, Told, C!None, DirectInv, DirectRoutes
  <2>5. CASE DirectReadBody
    <3>1. pc' = "trip" /\ body' = "small" => reader' = "whole"
      BY <2>1, <2>5 DEF DirectReadBody, H!Fresh
    <3>2. /\ pc = "start" /\ pc' \in {"bad", "trip"} /\ route = "directHttp"
          /\ UNCHANGED <<attempt, record, marked>>
      BY <2>5 DEF DirectReadBody, Direct
    <3>3. QED
      BY <2>1, <3>1, <3>2 DEF DirectInv, DirectRoutes
  <2>6. CASE DirectTripSucceeds
    BY <2>1, <2>6 DEF DirectTripSucceeds, Direct, Told, DirectInv, DirectRoutes
  <2>7. CASE DirectTripFails
    <3>1. /\ route = "directHttp" /\ pc = "trip" /\ attempt' = attempt + 1
          /\ record = C!None /\ ~marked /\ attempt \in Nat /\ attempt' <= MaxRetries
      BY <2>7, RetriesAssumption DEF DirectTripFails, Direct, DirectInv, DirectRoutes
    <3>2. PICK class \in {"net", "other"} :
            IF H!IsRetryable(class) /\ attempt' < MaxRetries /\ body # "large"
            THEN pc' = "trip" /\ reader' = H!Fresh(body) /\ UNCHANGED <<record, marked>>
            ELSE /\ pc' = "failed" /\ Told("error") /\ UNCHANGED reader
                 /\ marked' = H!IsRelayFailure(class)
      BY <2>7 DEF DirectTripFails
    <3>3. CASE H!IsRetryable(class) /\ attempt' < MaxRetries /\ body # "large"
      <4>1. pc' = "trip" /\ (body = "small" => reader' = "whole") /\ UNCHANGED <<record, marked>>
        BY <3>2, <3>3 DEF H!Fresh
      <4>2. QED
        BY <2>1, <3>1, <3>3, <4>1, RetriesAssumption DEF DirectInv, DirectRoutes
    <3>4. CASE ~(H!IsRetryable(class) /\ attempt' < MaxRetries /\ body # "large")
      <4>1. /\ pc' = "failed" /\ marked' \in BOOLEAN
            /\ attempt' < MaxRetries => ~marked' \/ body = "large"
        BY <3>2, <3>4 DEF H!IsRetryable, H!IsRelayFailure
      <4>2. record' = [kind |-> "error", relay |-> Upstream]
        BY <3>2, <3>4 DEF Told
      <4>3. QED
        BY <2>1, <3>1, <4>1, <4>2, RetriesAssumption DEF DirectInv, DirectRoutes
    <3>5. QED
      BY <3>3, <3>4
  <2>8. QED
    BY <1>3, <2>2, <2>3, <2>4, <2>5, <2>6, <2>7 DEF DirectNext
<1>4. QED
  BY <1>1, <1>2, <1>3 DEF Next

LEMMA DirectInvariance == Spec => []DirectInv
  BY DirectInitially, DirectStep, PTL DEF Spec

(***************************************************************************)
(* The properties of the composition.                                      *)
(***************************************************************************)

\* No relay is dialled twice by a CONNECT (the excluded map of handleConnect).
THEOREM NoRelayDialledTwice == Spec => []NeverDialledTwice
<1>1. C!Spec => []C!NeverDialledTwice
  BY C!NoRelayTwice, SelectionAssumption, RetriesAssumption
<1>2. C!NeverDialledTwice \/ ~(route = "connect") => NeverDialledTwice
  BY DEF NeverDialledTwice
<1>3. QED
  BY <1>1, <1>2, ConnectRoute, PTL

\* A CONNECT strikes only what it dialled, once, and never its tunnel's relay.
THEOREM StrikesAreEarned == Spec => []StrikesEarned
<1>1. C!Spec => []C!StrikesEarned
  BY C!StrikesAreEarned, SelectionAssumption, RetriesAssumption
<1>2. C!StrikesEarned \/ ~(route = "connect") => StrikesEarned
  BY DEF StrikesEarned
<1>3. QED
  BY <1>1, <1>2, ConnectRoute, PTL

\* Every hijacked CONNECT that ends is in the statistics.
THEOREM Accounted == Spec => []EndsAccounted
<1>1. C!Spec => []C!EndsAccounted
  BY C!Accounted, SelectionAssumption, RetriesAssumption
<1>2. (C!EndsAccounted \/ ~(route = "connect")) /\ DirectInv => EndsAccounted
  BY DEF EndsAccounted, DirectInv
<1>3. QED
  BY <1>1, <1>2, ConnectRoute, DirectInvariance, PTL

\* proxyHTTP sends a request to no relay twice (its excluded map).
THEOREM NoRelayTriedTwice == Spec => []NeverTriedTwice
<1>1. H!Spec => []H!NeverTriedTwice
  BY H!NoRelayTwice, SelectionAssumption, RetriesAssumption
<1>2. H!NeverTriedTwice \/ ~(route = "http") => NeverTriedTwice
  BY DEF NeverTriedTwice
<1>3. QED
  BY <1>1, <1>2, HttpRoute, PTL

\* logAndRespond strikes one relay at most, and only for a request that failed.
THEOREM BlameIsSingle == Spec => []OneBlamed
<1>1. H!Spec => []H!OneBlamed
  BY H!BlameIsSingle, SelectionAssumption, RetriesAssumption
<1>2. H!OneBlamed \/ ~(route = "http") => OneBlamed
  BY DEF OneBlamed
<1>3. QED
  BY <1>1, <1>2, HttpRoute, PTL

\* Every attempt of proxyHTTP sends a buffered body whole, whatever the upstream.
THEOREM BodyIsReplayed == Spec => []BodyReplayed
<1>1. H!Spec => []H!BodyReplayed
  BY H!BodyIsReplayed, SelectionAssumption, RetriesAssumption
<1>2. (H!BodyReplayed \/ ~(route = "http")) /\ DirectInv => BodyReplayed
  BY DEF BodyReplayed, DirectInv
<1>3. QED
  BY <1>1, <1>2, HttpRoute, DirectInvariance, PTL

\* resolveSOCKS5 passes over a live relay for a dead one on no route.
THEOREM LivePreferred == Spec => []LiveBeforeDead
<1>1. C!Spec => []C!LiveBeforeDead
  BY C!LivePreferred, SelectionAssumption, RetriesAssumption
<1>2. H!Spec => []H!LiveBeforeDead
  BY H!LivePreferred, SelectionAssumption, RetriesAssumption
<1>3. C!LiveBeforeDead \/ H!LiveBeforeDead => LiveBeforeDead
  BY DEF C!LiveBeforeDead, H!LiveBeforeDead, LiveBeforeDead
<1>4. ~(route = "connect") /\ ~(route = "http") /\ DirectInv => LiveBeforeDead
  BY DEF DirectInv, LiveBeforeDead
<1>5. QED
  BY <1>1, <1>2, <1>3, <1>4, ConnectRoute, HttpRoute, DirectInvariance, PTL

\* Every variable of a request keeps its type.
THEOREM Typing == Spec => []TypeOK
<1>1. C!Spec => []C!TypeOK
  BY C!Typing, SelectionAssumption, RetriesAssumption
<1>2. H!Spec => []H!TypeOK
  BY H!Typing, SelectionAssumption, RetriesAssumption
<1>3. /\ C!TypeOK \/ ~(route = "connect")
      /\ H!TypeOK \/ ~(route = "http")
      /\ DirectInv
      => TypeOK
  BY DEF DirectInv, DirectRoutes, TypeOK
<1>4. QED
  BY <1>1, <1>2, <1>3, ConnectRoute, HttpRoute, DirectInvariance, PTL

(***************************************************************************)
(* A request that goes through relays fails over as module Failover says.   *)
(***************************************************************************)

LEMMA ConnectFailsOver ==
  route = "connect" /\ UNCHANGED route /\ [C!F!Next]_C!F!vars => [F!Next]_F!vars
<1> SUFFICES ASSUME route = "connect", route' = "connect", C!F!Next \/ UNCHANGED C!F!vars
             PROVE  F!Next \/ UNCHANGED F!vars
  OBVIOUS
<1>1. CASE UNCHANGED C!F!vars
  BY <1>1 DEF C!F!vars, F!vars
<1>2. ASSUME NEW r \in Relays, C!F!Reach(r) PROVE F!Reach(r)
  BY <1>2 DEF C!F!Reach, C!F!Trying, C!F!Send, C!F!Serve, F!Reach, F!Trying, F!Send, F!Serve
<1>3. ASSUME NEW r \in Relays, C!F!FailAt(r) PROVE F!FailAt(r)
  BY <1>3 DEF C!F!FailAt, C!F!Trying, C!F!Send, C!F!Strike, C!F!Fail,
              F!FailAt, F!Trying, F!Send, F!Strike, F!Fail
<1>4. C!F!Deliver => F!Deliver
  BY DEF C!F!Deliver, C!F!Serve, C!F!Fail, F!Deliver, F!Serve, F!Fail
<1>5. C!F!FailNowhere => F!FailNowhere
  BY DEF C!F!FailNowhere, C!F!Trying, F!FailNowhere, F!Trying
<1>6. C!F!GiveUp => F!GiveUp
  BY DEF C!F!GiveUp, C!F!Fail, F!GiveUp, F!Fail
<1>7. C!F!Refuse => F!Refuse
  BY DEF C!F!Refuse, F!Refuse
<1>8. QED
  BY <1>1, <1>2, <1>3, <1>4, <1>5, <1>6, <1>7 DEF C!F!Next, F!Next

LEMMA HttpFailsOver ==
  route = "http" /\ UNCHANGED route /\ [H!F!Next]_H!F!vars => [F!Next]_F!vars
<1> SUFFICES ASSUME route = "http", route' = "http", H!F!Next \/ UNCHANGED H!F!vars
             PROVE  F!Next \/ UNCHANGED F!vars
  OBVIOUS
<1>1. CASE UNCHANGED H!F!vars
  BY <1>1 DEF H!F!vars, F!vars
<1>2. ASSUME NEW r \in Relays, H!F!Reach(r) PROVE F!Reach(r)
  BY <1>2 DEF H!F!Reach, H!F!Trying, H!F!Send, H!F!Serve, F!Reach, F!Trying, F!Send, F!Serve
<1>3. ASSUME NEW r \in Relays, H!F!FailAt(r) PROVE F!FailAt(r)
  BY <1>3 DEF H!F!FailAt, H!F!Trying, H!F!Send, H!F!Strike, H!F!Fail,
              F!FailAt, F!Trying, F!Send, F!Strike, F!Fail
<1>4. H!F!Deliver => F!Deliver
  BY DEF H!F!Deliver, H!F!Serve, H!F!Fail, F!Deliver, F!Serve, F!Fail
<1>5. H!F!FailNowhere => F!FailNowhere
  BY DEF H!F!FailNowhere, H!F!Trying, F!FailNowhere, F!Trying
<1>6. H!F!GiveUp => F!GiveUp
  BY DEF H!F!GiveUp, H!F!Fail, F!GiveUp, F!Fail
<1>7. H!F!Refuse => F!Refuse
  BY DEF H!F!Refuse, F!Refuse
<1>8. QED
  BY <1>1, <1>2, <1>3, <1>4, <1>5, <1>6, <1>7 DEF H!F!Next, F!Next

\* The other routes have no relays, and leave what the two handlers count.
LEMMA OthersStay ==
  route \notin {"connect", "http"} /\ [Next]_vars => UNCHANGED F!vars
  BY RouteKept DEF Next, vars, ThroughMullvad, DirectNext, Direct, DirectHijack,
     DirectDialFails, DirectAnswer, DirectReadBody, DirectTripSucceeds, DirectTripFails,
     tunnelVars, plainVars, F!vars

LEMMA FailoverStarts == Init => F!Init
<1> SUFFICES ASSUME Init PROVE F!Init
  OBVIOUS
<1>1. C!F!Init
  BY C!StartSeen, SelectionAssumption, RetriesAssumption DEF Init
<1>2. H!F!Init
  BY H!StartSeen, SelectionAssumption, RetriesAssumption DEF Init
<1>3. QED
  BY <1>1, <1>2 DEF C!F!Init, H!F!Init, F!Init

\* Whichever handler serves it, a request is sent to no relay twice, strikes
\* none twice, is told of once, at its end, and does nothing after that.
THEOREM ImplementsFailover == Spec => FailsOver
<1>1. C!Spec => C!F!Spec
  BY C!ImplementsFailover, SelectionAssumption, RetriesAssumption
<1>2. H!Spec => H!F!Spec
  BY H!ImplementsFailover, SelectionAssumption, RetriesAssumption
<1>3. route = "connect" /\ [Next]_vars => (route = "connect")'
  BY RouteKept
<1>4. route = "http" /\ [Next]_vars => (route = "http")'
  BY RouteKept
<1>5. route \notin {"connect", "http"} /\ [Next]_vars => (route \notin {"connect", "http"})'
  BY RouteKept
<1>6. [Next]_vars => UNCHANGED route
  BY RouteKept
<1>7. ~(route = "connect") /\ ~(route = "http") => route \notin {"connect", "http"}
  OBVIOUS
<1>8. QED
  BY <1>1, <1>2, <1>3, <1>4, <1>5, <1>6, <1>7, ConnectRoute, HttpRoute, ConnectFailsOver,
     HttpFailsOver, OthersStay, FailoverStarts, PTL
  DEF Spec, FailsOver, F!Spec, C!F!Spec, H!F!Spec
=============================================================================
