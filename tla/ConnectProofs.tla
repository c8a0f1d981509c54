--------------------------- MODULE ConnectProofs -----------------------------
(* No CONNECT dials or strikes a relay twice, or loses its record, for any    *)
(* set of relays, number of attempts and behaviour of the rest.              *)
EXTENDS Connect, RelaySelectionProofs

\* The relay of the attempt that is under way is not among the excluded ones.
Current ==
  /\ pc = "dial" => remote \notin excluded \/ remote = NoRelay
  /\ pc \in {"answer", "tunnel", "closed"} => remote \in Relays
  /\ pc \in {"dial", "reselect", "answer", "tunnel", "closed", "exhausted"}
       => last \in Relays
  /\ pc \in {"start", "select", "dial", "reselect", "answer"} => attempt < MaxRetries
  /\ pc \in {"start", "select"} => attempt = 0

\* Every relay dialled is excluded, but for the one that was reached.
DialledExcluded ==
  \A r \in Relays :
    /\ dials[r] <= 1
    /\ strikes[r] <= dials[r]
    /\ pc \in {"answer", "tunnel", "closed"} /\ r = remote => strikes[r] = 0
    /\ dials[r] > 0 =>
         \/ r \in excluded
         \/ pc \in {"answer", "tunnel", "closed"} /\ r = remote
    /\ pc \in {"start", "select"} => dials[r] = 0

Inv == TypeOK /\ SelInv /\ Current /\ DialledExcluded /\ EndsAccounted

LEMMA Initially == Init => Inv
  BY SelInitInv, RetriesAssumption, SelectionAssumption
  DEF Init, Inv, SelInv, TypeOK, Current, DialledExcluded, EndsAccounted, Ended

\* Steps that leave the handler alone.
LEMMA HandlerStays ==
  ASSUME Inv, SelInv', UNCHANGED <<handler, history>>,
         UNCHANGED excluded
  PROVE  Inv'
  BY DEF Inv, SelInv, TypeOK, Current, DialledExcluded, EndsAccounted, handler, history

LEMMA ExcludedStays == Choose \/ Address \/ Elsewhere => UNCHANGED excluded
  BY DEF Choose, Address, Elsewhere, ListArrives, ListFails, PickHealthy, NoneHealthy,
     PickFallback, NoneLeft, Peek, AddressArrives, AddressFails, ListAges,
     StandingChanges, AddressAges

LEMMA ArriveInv == ASSUME Inv, Arrive PROVE Inv'
<1>1. SelInv'
  BY SelectInv DEF Inv, SelInv, SelTypeOK, Arrive, shared
<1>2. QED
  BY <1>1 DEF Arrive, Select, Inv, SelInv, TypeOK, Current, DialledExcluded,
     EndsAccounted, Ended, shared, history

LEMMA DialFailsInv == ASSUME Inv, DialFails PROVE Inv'
<1> USE DEF Inv
<1>1. PICK cause \in Causes(remote) :
        /\ Strike(IF IsRelayFailure(cause) THEN remote ELSE NoRelay)
        /\ faulty' = IF cause = "relay" THEN faulty \cup {remote} ELSE faulty
  BY DEF DialFails
<1>2. faulty' \subseteq Relays
  BY <1>1 DEF Causes, TypeOK
<1>3. /\ standing' \in [Relays -> {"unknown", "online", "offline"}]
      /\ strikes' \in [Relays -> Nat]
      /\ \A r \in Relays : strikes'[r] <= strikes[r] + (IF r = remote THEN 1 ELSE 0)
  BY <1>1 DEF Strike, TypeOK, SelTypeOK
<1>4. /\ dials' \in [Relays -> Nat]
      /\ \A r \in Relays : dials'[r] = dials[r] + (IF r = remote THEN 1 ELSE 0)
  BY SelectionAssumption DEF DialFails, Count, TypeOK
<1>5. SelInv'
  <2>1. excluded \cup {remote} \in SUBSET (Relays \cup {NoRelay})
    BY DEF TypeOK, SelTypeOK
  <2>2. QED
    BY <1>3, <2>1, SelectInv DEF DialFails, SelInv, SelTypeOK
<1>6. DialledExcluded'
  <2> SUFFICES ASSUME NEW r \in Relays
      PROVE  /\ dials'[r] <= 1 /\ strikes'[r] <= dials'[r]
             /\ dials'[r] > 0 => r \in excluded'
    BY DEF DialFails, DialledExcluded
  <2>1. CASE r = remote
    <3>1. dials[r] = 0
      BY <2>1, SelectionAssumption
      DEF DialFails, Current, DialledExcluded, TypeOK
    <3>2. QED
      BY <1>3, <1>4, <2>1, <3>1 DEF DialFails, DialledExcluded, Select, TypeOK
  <2>2. CASE r # remote
    <3>1. dials'[r] = dials[r] /\ strikes'[r] <= strikes[r]
      BY <1>3, <1>4, <2>2 DEF TypeOK
    <3>2. QED
      BY <1>3, <3>1 DEF DialFails, DialledExcluded, Select, TypeOK
  <2>3. QED
    BY <2>1, <2>2
<1>7. QED
  BY <1>2, <1>3, <1>4, <1>5, <1>6
  DEF DialFails, TypeOK, SelInv, Current, EndsAccounted, Ended

LEMMA DialSucceedsInv == ASSUME Inv, DialSucceeds PROVE Inv'
<1> USE DEF Inv
<1>1. SelInv'
  BY SelStutterInv DEF DialSucceeds
<1>2. /\ dials' \in [Relays -> Nat]
      /\ \A r \in Relays : dials'[r] = dials[r] + (IF r = remote THEN 1 ELSE 0)
  BY SelectionAssumption DEF DialSucceeds, Count, TypeOK
<1>3. dials[remote] = 0 /\ strikes[remote] = 0 /\ remote \in Relays
  BY DEF DialSucceeds, TypeOK, Current, DialledExcluded
<1>4. DialledExcluded'
  BY <1>2, <1>3 DEF DialSucceeds, DialledExcluded, TypeOK, selVars
<1>5. QED
  BY <1>1, <1>2, <1>3, <1>4
  DEF DialSucceeds, TypeOK, SelInv, Current, EndsAccounted, Ended, selVars

\* The end of an attempt, with the relay of the next one, if there is one.
LEMMA NextAttemptInv ==
  ASSUME Inv, pc = "reselect", NextAttempt,
         remote' \in Relays \cup {NoRelay}, last' \in Relays,
         remote' \notin excluded \/ remote' = NoRelay
  PROVE  Inv'
<1> USE DEF Inv
<1>1. SelInv'
  BY SelStutterInv DEF NextAttempt
<1>2. attempt < MaxRetries /\ attempt \in Nat /\ MaxRetries \in Nat
  BY RetriesAssumption DEF Current, TypeOK
<1>3. /\ pc' \in {"dial", "exhausted"}
      /\ attempt' \in 0..MaxRetries
      /\ pc' = "dial" => attempt' < MaxRetries /\ record' = record
      /\ pc' = "exhausted" => record' = [kind |-> "error", relay |-> last']
  BY <1>2, SelectionAssumption DEF NextAttempt, Record
<1>4. record' \in {None} \cup [kind : {"request", "error"}, relay : Relays]
  BY <1>3 DEF TypeOK
<1>5. EndsAccounted'
  BY <1>3 DEF EndsAccounted, None
<1>6. DialledExcluded' /\ Current'
  BY <1>3 DEF NextAttempt, DialledExcluded, Current, selVars, history
<1>7. QED
  BY <1>1, <1>3, <1>4, <1>5, <1>6 DEF NextAttempt, TypeOK, SelInv, Ended, history

LEMMA AnswerInv == ASSUME Inv, Answer PROVE Inv'
<1> USE DEF Inv
<1>1. SelInv'
  BY SelStutterInv DEF Answer
<1>2. record' \in [kind : {"request", "error"}, relay : Relays]
  BY SelectionAssumption DEF Answer, Record, Current
<1>3. record' # None
  BY <1>2 DEF None
<1>4. QED
  BY <1>1, <1>2, <1>3
  DEF Answer, TypeOK, SelInv, Current, DialledExcluded, EndsAccounted, Ended, selVars, history

LEMMA Preserved == Inv /\ [Next]_vars => Inv'
<1> SUFFICES ASSUME Inv, [Next]_vars PROVE Inv'
  OBVIOUS
<1>1. CASE Arrive
  BY <1>1, ArriveInv
<1>2. CASE Refuse
  BY <1>2, SelStutterInv DEF Refuse, Inv, SelInv, TypeOK, Current, DialledExcluded,
     EndsAccounted, Ended, selVars, history
<1>3. CASE Hijack
  BY <1>3, SelStutterInv DEF Hijack, Inv, SelInv, Picked, TypeOK, Current,
     DialledExcluded, EndsAccounted, Ended, selVars, history
<1>4. CASE HijackFails
  BY <1>4, SelStutterInv DEF HijackFails, Inv, SelInv, TypeOK, Current,
     DialledExcluded, EndsAccounted, Ended, selVars, history
<1>5. CASE DialSucceeds
  BY <1>5, DialSucceedsInv
<1>6. CASE DialFails
  BY <1>6, DialFailsInv
<1>7. CASE Reselected
  BY <1>7, NextAttemptInv DEF Reselected, Inv, SelInv, Picked
<1>8. CASE ReselectFails
  BY <1>8, NextAttemptInv DEF ReselectFails, Inv, Current
<1>9. CASE Answer
  BY <1>9, AnswerInv
<1>10. CASE Selecting
  BY <1>10, ChooseInv, AddressInv, HandlerStays, ExcludedStays DEF Selecting, Inv
<1>11. CASE ClientLeaves
  BY <1>11, CancelInv, HandlerStays DEF ClientLeaves, Inv
<1>12. CASE Environment
  BY <1>12, ElsewhereInv, HandlerStays, ExcludedStays DEF Environment, Inv
<1>13. CASE UNCHANGED vars
  BY <1>13, SelStutterInv, HandlerStays DEF vars, selVars, Inv
<1>14. QED
  BY <1>1, <1>2, <1>3, <1>4, <1>5, <1>6, <1>7, <1>8, <1>9, <1>10, <1>11, <1>12, <1>13
  DEF Next, Handler

LEMMA Invariance == Spec => []Inv
  BY Initially, Preserved, PTL DEF Spec

\* Every variable of a CONNECT keeps its type.
THEOREM Typing == Spec => []TypeOK
<1>1. Inv => TypeOK
  BY DEF Inv
<1>2. QED
  BY <1>1, Invariance, PTL

\* No relay is dialled twice by one CONNECT (the excluded map of handleConnect).
THEOREM NoRelayTwice == Spec => []NeverDialledTwice
<1>1. Inv => NeverDialledTwice
  BY DEF Inv, DialledExcluded, NeverDialledTwice
<1>2. QED
  BY <1>1, Invariance, PTL

\* A CONNECT strikes only what it dialled, once, and never its tunnel's relay.
THEOREM StrikesAreEarned == Spec => []StrikesEarned
<1>1. Inv => StrikesEarned
  BY DEF Inv, DialledExcluded, Current, StrikesEarned
<1>2. QED
  BY <1>1, Invariance, PTL

\* Every hijacked CONNECT that ends is in the statistics.
THEOREM Accounted == Spec => []EndsAccounted
<1>1. Inv => EndsAccounted
  BY DEF Inv
<1>2. QED
  BY <1>1, Invariance, PTL

\* resolveSOCKS5 passes over a live relay for a dead one in no interleaving.
THEOREM LivePreferred == Spec => []LiveBeforeDead
<1>1. Inv => LiveBeforeDead
  BY DEF Inv, SelInv
<1>2. QED
  BY <1>1, Invariance, PTL

-----------------------------------------------------------------------------
(* A CONNECT is a request of Failover, step by step.                        *)

\* Steps before an attempt fails or succeeds, and after the end.
LEMMA Unseen ==
  ASSUME UNCHANGED <<attempt, record, history>>, pc' = pc \/ pc \in {"start", "select"},
         pc' = pc \/ pc' \in {"select", "dial"}
  PROVE  UNCHANGED F!vars
  BY DEF F!vars, Outcome, FailedAttempts, Told, Ended, history

LEMMA RefusedSeen == ASSUME Inv, Refuse \/ HijackFails PROVE F!Refuse
<1>1. pc = "select" /\ attempt = 0 /\ pc' \in {"refused", "gone"}
      /\ UNCHANGED <<attempt, record, history>>
  BY DEF Inv, Current, Refuse, HijackFails
<1>2. QED
  BY <1>1 DEF F!Refuse, Outcome, FailedAttempts, Told, Ended, history

LEMMA DialSucceedsSeen == ASSUME Inv, DialSucceeds PROVE F!Reach(remote)
<1> USE DEF Inv
<1>1. remote \in Relays /\ dials[remote] = 0 /\ strikes[remote] = 0
      /\ attempt \in Nat /\ attempt < MaxRetries
  BY DEF DialSucceeds, TypeOK, Current, DialledExcluded
<1>2. dials' = [dials EXCEPT ![remote] = 1]
  BY <1>1 DEF DialSucceeds, Count, TypeOK
<1>3. QED
  BY <1>1, <1>2
  DEF DialSucceeds, F!Reach, F!Trying, F!Send, Outcome, FailedAttempts, Told, Ended

LEMMA DialFailsSeen ==
  ASSUME Inv, DialFails
  PROVE  IF remote = NoRelay THEN F!FailNowhere ELSE remote \in Relays /\ F!FailAt(remote)
<1> USE DEF Inv
<1>1. PICK cause \in Causes(remote) :
        Strike(IF IsRelayFailure(cause) THEN remote ELSE NoRelay)
  BY DEF DialFails
<1>2. /\ pc = "dial" /\ pc' = "reselect" /\ UNCHANGED <<attempt, record>>
      /\ dials' = Count(dials, remote) /\ attempt < MaxRetries /\ attempt \in Nat
  BY DEF DialFails, Current, TypeOK
<1>3. /\ Outcome = "pending" /\ Outcome' = "pending" /\ Told' = Told
      /\ FailedAttempts = attempt /\ FailedAttempts' = attempt + 1
  BY <1>2 DEF Outcome, Told, FailedAttempts, Ended
<1>4. CASE remote = NoRelay
  <2>1. UNCHANGED <<dials, strikes>>
    BY <1>1, <1>2, <1>4 DEF Count, Strike
  <2>2. QED
    BY <1>2, <1>3, <1>4, <2>1 DEF F!FailNowhere, F!Trying
<1>5. CASE remote # NoRelay
  <2>1. remote \in Relays /\ dials[remote] = 0 /\ strikes[remote] = 0
    BY <1>2, <1>5 DEF TypeOK, Current, DialledExcluded
  <2>2. F!Send(remote) /\ dials'[remote] = 1
    BY <1>2, <1>5, <2>1 DEF F!Send, Count, TypeOK
  <2>3. UNCHANGED strikes \/ F!Strike(remote)
    BY <1>1, <1>5, <2>1 DEF Strike, F!Strike, TypeOK
  <2>4. QED
    BY <1>2, <1>3, <1>5, <2>1, <2>2, <2>3 DEF F!FailAt, F!Trying
<1>6. QED
  BY <1>4, <1>5

LEMMA NextAttemptSeen ==
  ASSUME Inv, pc = "reselect", NextAttempt, last' \in Relays
  PROVE  F!GiveUp \/ UNCHANGED F!vars
<1> USE DEF Inv
<1>1. attempt < MaxRetries /\ attempt \in Nat /\ MaxRetries \in Nat
      /\ attempt' = attempt + 1 /\ UNCHANGED <<dials, strikes>>
  BY RetriesAssumption DEF Current, TypeOK, NextAttempt, history
<1>2. Outcome = "pending" /\ FailedAttempts = attempt + 1
  BY DEF Outcome, FailedAttempts, Ended
<1>3. CASE attempt' < MaxRetries
  <2>1. pc' = "dial" /\ record' = record
    BY <1>3 DEF NextAttempt
  <2>2. QED
    BY <1>1, <1>2, <2>1 DEF F!vars, Outcome, FailedAttempts, Told, Ended
<1>4. CASE ~(attempt' < MaxRetries)
  <2>1. pc' = "exhausted" /\ record' = [kind |-> "error", relay |-> last']
    BY <1>4, SelectionAssumption DEF NextAttempt, Record
  <2>2. Outcome' = "failed" /\ Told' = "error" /\ FailedAttempts' = attempt'
    BY <2>1 DEF Outcome, FailedAttempts, Told, Ended, None
  <2>3. QED
    BY <1>1, <1>2, <1>4, <2>2 DEF F!GiveUp, F!Fail
<1>5. QED
  BY <1>3, <1>4

LEMMA AnswerSeen == ASSUME Inv, Answer PROVE F!Deliver
<1>1. pc = "answer" /\ remote \in Relays /\ last \in Relays
      /\ UNCHANGED <<attempt, dials, strikes>>
  BY DEF Inv, Current, Answer, history
<1>2. \/ pc' = "tunnel" /\ record' = [kind |-> "request", relay |-> remote]
      \/ pc' = "closed" /\ record' = [kind |-> "error", relay |-> last]
  BY <1>1, SelectionAssumption DEF Answer, Record
<1>3. QED
  BY <1>1, <1>2
  DEF F!Deliver, F!Serve, F!Fail, Outcome, FailedAttempts, Told, Ended, None

LEMMA StepSeen == Inv /\ [Next]_vars => [F!Next]_F!vars
<1> SUFFICES ASSUME Inv, [Next]_vars PROVE F!Next \/ UNCHANGED F!vars
  OBVIOUS
<1>1. CASE Arrive \/ Hijack
  BY <1>1, Unseen DEF Arrive, Hijack, Select
<1>2. CASE Refuse \/ HijackFails
  BY <1>2, RefusedSeen DEF F!Next
<1>3. CASE DialSucceeds
  BY <1>3, DialSucceedsSeen DEF DialSucceeds, Inv, TypeOK, F!Next
<1>4. CASE DialFails
  BY <1>4, DialFailsSeen DEF F!Next
<1>5. CASE Reselected
  BY <1>5, NextAttemptSeen DEF Reselected, Inv, SelInv, Picked, F!Next
<1>6. CASE ReselectFails
  BY <1>6, NextAttemptSeen DEF ReselectFails, Inv, Current, F!Next
<1>7. CASE Answer
  BY <1>7, AnswerSeen DEF F!Next
<1>8. CASE Selecting \/ ClientLeaves \/ Environment \/ UNCHANGED vars
  BY <1>8, Unseen DEF Selecting, ClientLeaves, Environment, vars, handler
<1>9. QED
  BY <1>1, <1>2, <1>3, <1>4, <1>5, <1>6, <1>7, <1>8 DEF Next, Handler

LEMMA StartSeen == Init => F!Init
  BY DEF Init, F!Init, Outcome, FailedAttempts, Told, Ended

\* handleConnect, with its selections, is a request that fails over.
THEOREM ImplementsFailover == Spec => F!Spec
  BY StartSeen, StepSeen, Invariance, PTL DEF Spec, F!Spec
=============================================================================
