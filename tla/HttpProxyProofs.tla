-------------------------- MODULE HttpProxyProofs ----------------------------
(* A plain HTTP request is sent to no relay twice, blames at most one and     *)
(* replays its body whole, for any set of relays, number of attempts and      *)
(* behaviour of the rest.                                                    *)
EXTENDS HttpProxy, RelaySelectionProofs

Busy == pc \in {"start", "select", "trip"}

\* The attempt under way: its relay is not an excluded one, and the reader of a
\* buffered body stands at its beginning.
UnderWay ==
  /\ Busy => attempt < MaxRetries
  /\ pc = "start" => sel = "idle" /\ attempt = 0
  /\ pc = "trip" => sel \in {"chosen", "resolved"}
  /\ pc \in {"select", "trip"} /\ body = "small" => reader = "whole"

\* While the request is under way, every relay it was sent to is excluded,
\* there is none for a large body, and nobody has been struck.
TriedExcluded ==
  \A r \in Relays :
    /\ tried[r] <= 1
    /\ Busy => strikes[r] = 0
    /\ Busy /\ tried[r] > 0 => r \in excluded
    /\ pc = "start" \/ (Busy /\ body = "large") => tried[r] = 0

Inv == TypeOK /\ SelInv /\ UnderWay /\ TriedExcluded /\ OneBlamed /\ BodyReplayed

LEMMA Initially == Init => Inv
  BY SelInitInv, RetriesAssumption, SelectionAssumption
  DEF Init, Inv, SelInv, TypeOK, UnderWay, TriedExcluded, OneBlamed, BodyReplayed, Busy,
      Ended, SelInit

LEMMA ExcludedStays == Choose \/ Address \/ Elsewhere => UNCHANGED excluded
  BY DEF Choose, Address, Elsewhere, ListArrives, ListFails, PickHealthy, NoneHealthy,
     PickFallback, NoneLeft, Peek, AddressArrives, AddressFails, ListAges,
     StandingChanges, AddressAges

\* Steps of the selection and of the rest of the program.
LEMMA HandlerStays ==
  ASSUME Inv, SelInv', UNCHANGED <<handler, history, excluded>>,
         transports' \subseteq Relays,
         pc = "select" \/ UNCHANGED sel
  PROVE  Inv'
  BY DEF Inv, SelInv, TypeOK, UnderWay, TriedExcluded, OneBlamed, BodyReplayed, Busy,
     handler, history

LEMMA ReadBodyInv == ASSUME Inv, ReadBody PROVE Inv'
<1> USE DEF Inv
<1>1. CASE body = "unreadable"
  BY <1>1, SelStutterInv
  DEF ReadBody, SelInv, TypeOK, UnderWay, TriedExcluded, OneBlamed, BodyReplayed, Busy,
      Ended, history, selVars
<1>2. CASE body # "unreadable"
  <2>1. SelInv'
    BY <1>2, SelectInv DEF ReadBody, SelInv, SelTypeOK, shared
  <2>2. reader' \in {"tail", "whole", "empty"} /\ (body = "small" => reader' = "whole")
    BY <1>2 DEF ReadBody
  <2>3. QED
    BY <1>2, <2>1, <2>2
    DEF ReadBody, Select, SelInv, TypeOK, UnderWay, TriedExcluded, OneBlamed,
        BodyReplayed, Busy, Ended, history, shared
<1>3. QED
  BY <1>1, <1>2

LEMMA TransportInv == ASSUME Inv, TransportHit \/ TransportMiss PROVE Inv'
<1>1. SelInv'
  BY SelStutterInv DEF Inv, TransportHit, TransportMiss
<1>2. transports' \subseteq Relays
  BY DEF Inv, TransportHit, TransportMiss, TypeOK, SelInv, Picked
<1>3. QED
  BY <1>1, <1>2
  DEF Inv, TransportHit, TransportMiss, SelInv, TypeOK, UnderWay, TriedExcluded,
      OneBlamed, BodyReplayed, Busy, Ended, history, selVars, scan

\* What the trip of the request to its relay adds to the history.
Sent(r, f) == [f EXCEPT ![r] = @ + 1]

LEMMA SentOnce ==
  ASSUME Inv, pc = "trip"
  PROVE  /\ pick \in Relays /\ pick \notin excluded
         /\ Sent(pick, tried) \in [Relays -> Nat]
         /\ Sent(pick, tried)[pick] = 1
         /\ \A r \in Relays \ {pick} : Sent(pick, tried)[r] = tried[r]
  BY DEF Inv, SelInv, Picked, UnderWay, TriedExcluded, TypeOK, Sent, Busy

LEMMA TripSucceedsInv == ASSUME Inv, TripSucceeds PROVE Inv'
<1> USE DEF Inv
<1>1. SelInv'
  BY SelStutterInv DEF TripSucceeds
<1>2. tried' = Sent(pick, tried)
  BY DEF TripSucceeds, Sent
<1>3. record' \in [kind : {"request", "error"}, relay : Relays]
  BY SentOnce, SelectionAssumption DEF TripSucceeds, Record
<1>4. QED
  BY <1>1, <1>2, <1>3, SentOnce
  DEF TripSucceeds, SelInv, TypeOK, UnderWay, TriedExcluded, OneBlamed, BodyReplayed,
      Busy, Ended

\* The end of an attempt that failed with relay r.
LEMMA AttemptFailsInv ==
  ASSUME Inv, pc \in {"select", "trip"},
         NEW r \in Relays \cup {NoRelay}, NEW class, AttemptFails(r, class),
         tried' \in [Relays -> Nat], faulty' \subseteq Relays,
         \A q \in Relays : tried'[q] <= 1,
         \A q \in Relays : tried'[q] > 0 => q \in excluded \cup {r},
         body = "large" => \A q \in Relays : tried'[q] > 0 => q = r
  PROVE  Inv'
<1> USE DEF Inv
<1>1. attempt < MaxRetries /\ attempt \in Nat /\ MaxRetries \in Nat
  BY RetriesAssumption DEF UnderWay, Busy, TypeOK
<1>2. attempt' = attempt + 1 /\ UNCHANGED <<body, transports>>
  BY DEF AttemptFails
<1>3. CASE attempt' < MaxRetries /\ body # "large" /\ Again(r)
  <2>1. SelInv'
    <3>1. excluded \cup ({r} \ {NoRelay}) \in SUBSET (Relays \cup {NoRelay})
      BY DEF TypeOK, SelTypeOK
    <3>2. QED
      BY <1>3, <3>1, SelectInv DEF Again, SelInv, SelTypeOK, shared
  <2>2. reader' \in {"whole", "empty"} /\ (body = "small" => reader' = "whole")
    BY <1>3 DEF Again, Fresh
  <2>3. \A q \in Relays : tried'[q] > 0 => q \in excluded'
    BY <1>3, SelectionAssumption DEF Again, Select
  <2>4. QED
    BY <1>1, <1>2, <1>3, <2>1, <2>2, <2>3
    DEF Again, SelInv, TypeOK, UnderWay, TriedExcluded, OneBlamed, BodyReplayed, Busy,
        Ended
<1>4. CASE Respond(r, IsRelayFailure(class))
  <2>1. /\ strikes' \in [Relays -> Nat]
        /\ \A q \in Relays : strikes'[q] > 0 => q = r
        /\ r = NoRelay => strikes' = strikes
    BY <1>4 DEF Respond, TriedExcluded, Busy, TypeOK
  <2>2. SelInv'
    <3>1. CASE UNCHANGED <<standing, since>>
      BY <1>4, <3>1, SelStutterInv DEF Respond, selVars, shared
    <3>2. CASE r \in Relays /\ Restand(r)
      BY <1>4, <3>2, RestandInv DEF Respond
    <3>3. QED
      BY <1>4, <3>1, <3>2 DEF Respond
  <2>3. /\ record' \in {None} \cup [kind : {"request", "error"}, relay : Relays]
        /\ r \in Relays => record'.relay = r
    BY <1>4, SelectionAssumption DEF Respond, Record, TypeOK
  <2>4. OneBlamed'
    BY <1>4, <2>1, <2>3, SelectionAssumption
    DEF OneBlamed, Respond, TriedExcluded, Busy
  <2>5. QED
    BY <1>1, <1>2, <1>4, <2>1, <2>2, <2>3, <2>4
    DEF Respond, SelInv, TypeOK, UnderWay, TriedExcluded, BodyReplayed, Busy, Ended
<1>5. QED
  BY <1>3, <1>4 DEF AttemptFails

LEMMA SelectionFailsInv == ASSUME Inv, SelectionFails PROVE Inv'
<1> USE DEF Inv
<1>1. PICK class \in SelectionErrors : AttemptFails(pick, class)
  BY DEF SelectionFails
<1>2. pick \in Relays \cup {NoRelay}
  BY DEF TypeOK, SelTypeOK
<1>3. QED
  BY <1>1, <1>2, AttemptFailsInv DEF SelectionFails, TypeOK, TriedExcluded, Busy

LEMMA TripFailsInv == ASSUME Inv, TripFails PROVE Inv'
<1> USE DEF Inv
<1>1. PICK cause \in Causes :
        /\ faulty' = IF cause = "relay" THEN faulty \cup {pick} ELSE faulty
        /\ AttemptFails(pick, ClassOf(cause))
  BY DEF TripFails
<1>2. tried' = Sent(pick, tried)
  BY DEF TripFails, Sent
<1>3. faulty' \subseteq Relays
  BY <1>1, SentOnce DEF TripFails, TypeOK
<1>4. /\ \A q \in Relays : tried'[q] <= 1
      /\ \A q \in Relays : tried'[q] > 0 => q \in excluded \cup {pick}
      /\ body = "large" => \A q \in Relays : tried'[q] > 0 => q = pick
  BY <1>2, SentOnce DEF TripFails, TriedExcluded, Busy, TypeOK
<1>5. QED
  BY <1>1, <1>2, <1>3, <1>4, SentOnce, AttemptFailsInv DEF TripFails

LEMMA Preserved == Inv /\ [Next]_vars => Inv'
<1> SUFFICES ASSUME Inv, [Next]_vars PROVE Inv'
  OBVIOUS
<1>1. CASE ReadBody
  BY <1>1, ReadBodyInv
<1>2. CASE TransportHit \/ TransportMiss
  BY <1>2, TransportInv
<1>3. CASE TripSucceeds
  BY <1>3, TripSucceedsInv
<1>4. CASE TripFails
  BY <1>4, TripFailsInv
<1>5. CASE SelectionFails
  BY <1>5, SelectionFailsInv
<1>6. CASE Selecting
  BY <1>6, ChooseInv, AddressInv, HandlerStays, ExcludedStays DEF Selecting, Inv, TypeOK
<1>7. CASE ClientLeaves
  BY <1>7, CancelInv, HandlerStays DEF ClientLeaves, Inv, TypeOK, scan
<1>8. CASE Environment
  <2>1. CASE Elsewhere /\ UNCHANGED <<handler, transports, history>>
    <3>1. UNCHANGED sel
      BY <2>1 DEF Elsewhere, ListAges, StandingChanges, AddressAges, scan
    <3>2. QED
      BY <2>1, <3>1, ElsewhereInv, HandlerStays, ExcludedStays DEF Inv, TypeOK
  <2>2. ASSUME NEW r \in Relays, TransportAges(r) PROVE Inv'
    BY <2>2, SelStutterInv, HandlerStays DEF TransportAges, Inv, TypeOK, selVars, scan
  <2>3. QED
    BY <1>8, <2>1, <2>2 DEF Environment
<1>9. CASE UNCHANGED vars
  BY <1>9, SelStutterInv, HandlerStays DEF vars, selVars, scan, Inv, TypeOK
<1>10. QED
  BY <1>1, <1>2, <1>3, <1>4, <1>5, <1>6, <1>7, <1>8, <1>9 DEF Next, Handler

LEMMA Invariance == Spec => []Inv
  BY Initially, Preserved, PTL DEF Spec

\* Every variable of a plain HTTP request keeps its type.
THEOREM Typing == Spec => []TypeOK
<1>1. Inv => TypeOK
  BY DEF Inv
<1>2. QED
  BY <1>1, Invariance, PTL

\* proxyHTTP sends the request to no relay twice (its excluded map).
THEOREM NoRelayTwice == Spec => []NeverTriedTwice
<1>1. Inv => NeverTriedTwice
  BY DEF Inv, TriedExcluded, NeverTriedTwice
<1>2. QED
  BY <1>1, Invariance, PTL

\* logAndRespond strikes one relay at most, and only for a request that failed.
THEOREM BlameIsSingle == Spec => []OneBlamed
<1>1. Inv => OneBlamed
  BY DEF Inv
<1>2. QED
  BY <1>1, Invariance, PTL

\* Every attempt of proxyHTTP sends a buffered body whole.
THEOREM BodyIsReplayed == Spec => []BodyReplayed
<1>1. Inv => BodyReplayed
  BY DEF Inv
<1>2. QED
  BY <1>1, Invariance, PTL

\* resolveSOCKS5 passes over a live relay for a dead one in no interleaving.
THEOREM LivePreferred == Spec => []LiveBeforeDead
<1>1. Inv => LiveBeforeDead
  BY DEF Inv, SelInv
<1>2. QED
  BY <1>1, Invariance, PTL

-----------------------------------------------------------------------------
(* A plain request is a request of Failover, step by step.                  *)

\* Steps between the attempts' ends, and after the last.
LEMMA Unseen ==
  ASSUME UNCHANGED <<attempt, record, history>>, pc' = pc \/ pc \in {"start", "select"},
         pc' = pc \/ pc' \in {"select", "trip"}
  PROVE  UNCHANGED F!vars
  BY DEF F!vars, Outcome, Told, Ended, history

LEMMA ReadBodySeen == ASSUME Inv, ReadBody PROVE F!Refuse \/ UNCHANGED F!vars
<1>1. pc = "start" /\ attempt = 0 /\ UNCHANGED <<attempt, record, history>>
  BY DEF Inv, UnderWay, ReadBody
<1>2. CASE body = "unreadable"
  BY <1>1, <1>2 DEF ReadBody, F!Refuse, Outcome, Told, Ended, history
<1>3. CASE body # "unreadable"
  BY <1>1, <1>3, Unseen DEF ReadBody
<1>4. QED
  BY <1>2, <1>3

LEMMA SendSeen ==
  ASSUME Inv, pc = "trip", tried' = [tried EXCEPT ![pick] = @ + 1]
  PROVE  F!Send(pick) /\ tried'[pick] = 1
<1>1. pick \in Relays /\ pick \notin excluded /\ tried[pick] \in Nat
  BY SentOnce DEF Inv, TypeOK
<1>2. tried[pick] = 0
  BY <1>1 DEF Inv, TriedExcluded, Busy
<1>3. QED
  BY <1>1, <1>2 DEF F!Send, Inv, TypeOK

LEMMA TripSucceedsSeen == ASSUME Inv, TripSucceeds PROVE F!Reach(pick)
<1>1. /\ pick \in Relays /\ strikes[pick] = 0 /\ attempt < MaxRetries
      /\ F!Send(pick) /\ UNCHANGED <<attempt, strikes>>
  BY SentOnce, SendSeen DEF TripSucceeds, Inv, UnderWay, TriedExcluded, Busy
<1>2. pc = "trip" /\ pc' = "answered" /\ record' = [kind |-> "request", relay |-> pick]
  BY <1>1, SelectionAssumption DEF TripSucceeds, Record
<1>3. QED
  BY <1>1, <1>2 DEF F!Reach, F!Trying, F!Serve, Outcome, Told, Ended, None

\* An attempt that failed with relay r, which it was sent to by now or not.
LEMMA AttemptFailsSeen ==
  ASSUME Inv, pc \in {"select", "trip"},
         NEW r \in Relays \cup {NoRelay}, NEW class, AttemptFails(r, class),
         UNCHANGED tried \/ (r \in Relays /\ F!Send(r))
  PROVE  IF r = NoRelay THEN F!FailNowhere ELSE r \in Relays /\ F!FailAt(r)
<1> USE DEF Inv
<1>1. attempt < MaxRetries /\ attempt' = attempt + 1 /\ Outcome = "pending"
  BY DEF UnderWay, Busy, AttemptFails, Outcome, Ended
<1>2. CASE Again(r)
  <2>1. UNCHANGED strikes /\ Outcome' = "pending" /\ Told' = Told
    BY <1>2 DEF Again, Outcome, Told, Ended
  <2>2. QED
    BY <1>1, <2>1, SelectionAssumption DEF F!FailNowhere, F!FailAt, F!Trying
<1>3. CASE Respond(r, IsRelayFailure(class))
  <2>1. Outcome' = "failed"
    BY <1>3 DEF Respond, Outcome, Ended
  <2>2. CASE r = NoRelay
    <3>1. UNCHANGED <<strikes, record, tried>>
      BY <1>3, <2>2, SelectionAssumption DEF Respond, Record
    <3>2. QED
      BY <1>1, <2>1, <2>2, <3>1 DEF F!FailNowhere, F!Trying, Told
  <2>3. CASE r \in Relays
    <3>1. Told' = "error"
      BY <1>3, <2>3, SelectionAssumption DEF Respond, Record, Told, None
    <3>2. strikes[r] = 0 /\ strikes \in [Relays -> Nat]
      BY <2>3 DEF TriedExcluded, Busy, TypeOK
    <3>3. UNCHANGED strikes \/ F!Strike(r)
      BY <1>3, <2>3, <3>2 DEF Respond, F!Strike
    <3>4. QED
      BY <1>1, <2>1, <2>3, <3>1, <3>3, SelectionAssumption DEF F!FailAt, F!Fail, F!Trying
  <2>4. QED
    BY <2>2, <2>3
<1>4. QED
  BY <1>2, <1>3 DEF AttemptFails

LEMMA FailureSeen == ASSUME Inv, SelectionFails \/ TripFails PROVE F!Next
<1>1. pick \in Relays \cup {NoRelay} /\ pc \in {"select", "trip"}
  BY DEF Inv, TypeOK, SelTypeOK, SelectionFails, TripFails
<1>2. PICK class : AttemptFails(pick, class)
  BY DEF SelectionFails, TripFails
<1>3. UNCHANGED tried \/ (pick \in Relays /\ F!Send(pick))
  BY SentOnce, SendSeen DEF SelectionFails, TripFails
<1>4. QED
  BY <1>1, <1>2, <1>3, AttemptFailsSeen DEF F!Next

LEMMA StepSeen == Inv /\ [Next]_vars => [F!Next]_F!vars
<1> SUFFICES ASSUME Inv, [Next]_vars PROVE F!Next \/ UNCHANGED F!vars
  OBVIOUS
<1>1. CASE ReadBody
  BY <1>1, ReadBodySeen DEF F!Next
<1>2. CASE TransportHit \/ TransportMiss
  BY <1>2, Unseen DEF TransportHit, TransportMiss
<1>3. CASE TripSucceeds
  BY <1>3, TripSucceedsSeen, SentOnce DEF TripSucceeds, F!Next
<1>4. CASE SelectionFails \/ TripFails
  BY <1>4, FailureSeen
<1>5. CASE Selecting \/ ClientLeaves \/ Environment \/ UNCHANGED vars
  BY <1>5, Unseen DEF Selecting, ClientLeaves, Environment, TransportAges, vars, handler
<1>6. QED
  BY <1>1, <1>2, <1>3, <1>4, <1>5 DEF Next, Handler

LEMMA StartSeen == Init => F!Init
  BY DEF Init, F!Init, Outcome, Told, Ended

\* proxyHTTP, with its selections, is a request that fails over.
THEOREM ImplementsFailover == Spec => F!Spec
  BY StartSeen, StepSeen, Invariance, PTL DEF Spec, F!Spec
=============================================================================
