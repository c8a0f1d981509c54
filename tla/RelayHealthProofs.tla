-------------------------- MODULE RelayHealthProofs --------------------------
(***************************************************************************)
(* Proofs of the safety properties of RelayHealth, for every set of relays, *)
(* every threshold, every channel capacity and any number of rounds.        *)
(*                                                                         *)
(* StoredHealthSound and OfflineOnlyIfBlamed are not inductive: a record   *)
(* reaches the store through a probe in flight, the channel and the        *)
(* flusher's pending map.  IInv says of each of these stations what the    *)
(* store needs of a record that comes from it.                             *)
(***************************************************************************)
EXTENDS RelayHealth, TLAPS

\* A record that may be written over that of r.
Good(r, h) ==
  /\ h.checked
  /\ Sound(h)
  /\ r \notin blamed => h.fails = 0 /\ h.online

Innocent(r, h) == r \notin blamed => h.fails = 0 /\ (h.checked => h.online)

StoreInv == \A r \in Relays : Sound(health[r]) /\ Innocent(r, health[r])

ChannelInv ==
  \A i \in DOMAIN updateCh :
    updateCh[i].kind = "health" => Good(updateCh[i].relay, updateCh[i].health)

PendingInv ==
  \A r \in Relays : pending[r].hasHealth => Good(r, pending[r].health)

PingingInv ==
  \A c \in Checkers, r \in Relays :
    job[c][r].pc = "pinging" =>
      /\ job[c][r].h.fails = 0 \/ job[c][r].h.succs = 0
      /\ r \notin blamed => job[c][r].h.fails = 0

DoneInv ==
  \A c \in Checkers, r \in Relays :
    job[c][r].pc = "done" => Good(r, job[c][r].h)

IInv ==
  /\ TypeOK
  /\ StoreInv
  /\ ChannelInv
  /\ PendingInv
  /\ PingingInv
  /\ DoneInv

-----------------------------------------------------------------------------
(* The operators.                                                          *)

LEMMA BumpType == ASSUME NEW n \in Nat PROVE Bump(n) \in Nat
BY RelayHealthAssumption DEF Bump

LEMMA BlankType == Blank \in Health
BY DEF Blank, Health

LEMMA CeilingBound ==
  Ceiling \in Nat /\ FailThreshold <= Ceiling /\ Strikes <= Ceiling
BY RelayHealthAssumption DEF Ceiling

\* A strike leaves a sound, checked record.
LEMMA StruckFacts ==
  ASSUME NEW h \in Health
  PROVE  Struck(h) \in Health /\ Struck(h).checked /\ Sound(Struck(h))
<1>1. h.fails \in Nat BY DEF Health
<1>2. Bump(h.fails) \in Nat BY <1>1, BumpType
<1>3. Struck(h) \in Health BY <1>2, RelayHealthAssumption DEF Struck, Health
<1>4. Struck(h).checked /\ Struck(h).succs = 0 BY DEF Struck
<1>5. Struck(h).online => Struck(h).fails < Ceiling
  <2>1. Struck(h).fails = Bump(h.fails) BY DEF Struck
  <2>2. Struck(h).online <=> Bump(h.fails) < Strikes BY Zenon DEF Struck
  <2> QED BY <1>2, <2>1, <2>2, CeilingBound, RelayHealthAssumption
<1> QED BY <1>3, <1>4, <1>5 DEF Sound

\* A probe that read a record with at most one streak computes a sound,
\* checked record; a success on a relay without failures keeps it online.
LEMMA PingFacts ==
  ASSUME NEW h \in Health, NEW ok \in BOOLEAN, h.fails = 0 \/ h.succs = 0
  PROVE  /\ PingResult(h, ok) \in Health
         /\ PingResult(h, ok).checked
         /\ Sound(PingResult(h, ok))
         /\ ok /\ h.fails = 0 => /\ PingResult(h, ok).fails = 0
                                 /\ PingResult(h, ok).online
<1> DEFINE f == IF ok THEN 0 ELSE Bump(h.fails)
           s == IF ok THEN Bump(h.succs) ELSE 0
           o == f < FailThreshold /\ (s >= HealthyThreshold \/ h.fails = 0)
<1>1. h.fails \in Nat /\ h.succs \in Nat BY DEF Health
<1>2. f \in Nat /\ s \in Nat BY <1>1, BumpType
<1>3. PingResult(h, ok) = [online |-> o, checked |-> TRUE, fails |-> f, succs |-> s]
  BY DEF PingResult
<1>4. o \in BOOLEAN OBVIOUS
<1>5. f = 0 \/ s = 0 OBVIOUS
<1>6. o => f < Ceiling BY <1>2, CeilingBound, RelayHealthAssumption
<1>7. ok /\ h.fails = 0 => f = 0 /\ o BY RelayHealthAssumption
<1> HIDE DEF f, s, o
<1> QED BY <1>2, <1>3, <1>4, <1>5, <1>6, <1>7 DEF Sound, Health

\* Whatever Send does, the channel holds old updates and at most the new one.
LEMMA SendFacts ==
  ASSUME updateCh \in Seq(Update), NEW u \in Update, Send(u)
  PROVE  /\ updateCh' \in Seq(Update)
         /\ \A i \in DOMAIN updateCh' :
              \/ updateCh'[i] = u
              \/ i \in DOMAIN updateCh /\ updateCh'[i] = updateCh[i]
<1>1. CASE updateCh' = Append(updateCh, u) BY <1>1
<1>2. CASE UNCHANGED updateCh BY <1>2
<1> QED BY <1>1, <1>2 DEF Send

LEMMA UpdateTypes ==
  ASSUME NEW r \in Relays, NEW h \in Health
  PROVE  HealthUpdate(r, h) \in Update /\ UseUpdate(r) \in Update
BY BlankType DEF HealthUpdate, UseUpdate, Update

-----------------------------------------------------------------------------
(* Type correctness.                                                       *)

LEMMA TypeInit == Init => TypeOK
<1> SUFFICES ASSUME Init PROVE TypeOK OBVIOUS
<1>1. NoJob \in Job BY BlankType DEF NoJob, Job
<1>2. Nothing \in Pending BY BlankType DEF Nothing, Pending
<1> QED BY <1>1, <1>2, BlankType DEF Init, TypeOK

LEMMA TypeStep == TypeOK /\ [Next]_vars => TypeOK'
<1> SUFFICES ASSUME TypeOK, [Next]_vars PROVE TypeOK' OBVIOUS
<1> USE DEF TypeOK
<1>a. NoJob \in Job BY BlankType DEF NoJob, Job
<1>b. Nothing \in Pending BY BlankType DEF Nothing, Pending
<1>c. \A c \in Checkers, r \in Relays :
        job[c][r] \in Job /\ job[c][r].h \in Health BY DEF Job
<1>1. ASSUME NEW r \in Relays, Use(r) PROVE TypeOK'
  <2>1. UseUpdate(r) \in Update BY BlankType, UpdateTypes
  <2> QED BY <1>1, <2>1, SendFacts DEF Use, store, checkers
<1>2. ASSUME NEW r \in Relays, Strike(r) PROVE TypeOK'
  <2>1. health[r] \in Health OBVIOUS
  <2>2. Struck(health[r]) \in Health BY <2>1, StruckFacts
  <2> QED BY <1>2, <2>2 DEF Strike, queue, checkers
<1>3. CASE StartRound
  <2>1. [pc |-> "queued", h |-> Blank] \in Job BY BlankType DEF Job
  <2> QED BY <1>3, <2>1 DEF StartRound, store, queue, Checkers
<1>4. CASE StartFast
  <2>1. [pc |-> "admitted", h |-> Blank] \in Job BY BlankType DEF Job
  <2> QED BY <1>4, <2>1 DEF StartFast, store, queue, Checkers
<1>5. ASSUME NEW r \in Relays, Admit(r) PROVE TypeOK'
  <2>1. [job["loop"][r] EXCEPT !.pc = "admitted"] \in Job
    BY <1>c DEF Job, Checkers
  <2> QED BY <1>5, <1>a, <2>1 DEF Admit, store, queue, Checkers
<1>6. ASSUME NEW c \in Checkers, NEW r \in Relays, ReadCounters(c, r) PROVE TypeOK'
  <2>1. [Blank EXCEPT !.fails = health[r].fails, !.succs = health[r].succs]
          \in Health BY DEF Blank, Health
  <2> DEFINE j == [pc |-> "pinging",
                   h |-> [Blank EXCEPT !.fails = health[r].fails,
                                       !.succs = health[r].succs]]
  <2>2. j \in Job BY <2>1 DEF Job
  <2>3. job' = [job EXCEPT ![c][r] = j] BY <1>6 DEF ReadCounters
  <2> HIDE DEF j
  <2> QED BY <1>6, <2>2, <2>3 DEF ReadCounters, store, queue
<1>7. ASSUME NEW c \in Checkers, NEW r \in Relays, Ping(c, r) PROVE TypeOK'
  <2>1. PICK ok \in Answers(r) :
          /\ job' = [job EXCEPT ![c][r] =
                       [pc |-> "done", h |-> PingResult(@.h, ok)]]
          /\ blamed' = IF ok THEN blamed ELSE blamed \cup {r}
    BY <1>7 DEF Ping
  <2>2. ok \in BOOLEAN BY DEF Answers
  <2>3. PingResult(job[c][r].h, ok) \in Health
    <3>1. job[c][r].h.fails \in Nat /\ job[c][r].h.succs \in Nat
      BY <1>c DEF Health
    <3>2. Bump(job[c][r].h.fails) \in Nat /\ Bump(job[c][r].h.succs) \in Nat
      BY <3>1, BumpType
    <3> QED BY <2>2, <3>1, <3>2, RelayHealthAssumption DEF PingResult, Health
  <2> DEFINE j == [pc |-> "done", h |-> PingResult(job[c][r].h, ok)]
  <2>4. j \in Job BY <2>3 DEF Job
  <2>5. job' = [job EXCEPT ![c][r] = j] BY <2>1
  <2> HIDE DEF j
  <2>6. job' \in [Checkers -> [Relays -> Job]] BY <2>4, <2>5
  <2>7. blamed' \in SUBSET Relays BY <2>1
  <2> QED BY <1>7, <2>6, <2>7 DEF Ping, store, queue
<1>8. ASSUME NEW r \in Relays, Collect(r) PROVE TypeOK'
  <2>1. HealthUpdate(r, job["loop"][r].h) \in Update
    BY <1>c, UpdateTypes DEF Checkers
  <2>2. updateCh' \in Seq(Update) BY <1>8, <2>1, SendFacts DEF Collect
  <2> QED BY <1>8, <1>a, <2>2 DEF Collect, store, Checkers
<1>9. ASSUME NEW r \in Relays, FastReport(r) PROVE TypeOK'
  <2>1. HealthUpdate(r, job["fast"][r].h) \in Update
    BY <1>c, UpdateTypes DEF Checkers
  <2>2. updateCh' \in Seq(Update) BY <1>9, <2>1, SendFacts DEF FastReport
  <2>3. job' \in [Checkers -> [Relays -> Job]]
    <3>1. CASE job["fast"][r].h.online
      <4>1. job' = [job EXCEPT !["fast"] = [q \in Relays |-> NoJob]]
        BY <1>9, <3>1 DEF FastReport
      <4> QED BY <4>1, <1>a
    <3>2. CASE ~job["fast"][r].h.online
      <4>1. job' = [job EXCEPT !["fast"][r] = NoJob]
        BY <1>9, <3>2 DEF FastReport
      <4> QED BY <4>1, <1>a
    <3> QED BY <3>1, <3>2
  <2>4. fast' \in {"off", "running", "ended"} BY <1>9 DEF FastReport
  <2> QED BY <1>9, <2>2, <2>3, <2>4 DEF FastReport, store
<1>10. CASE FlushTick BY <1>10 DEF FlushTick, store, checkers
<1>11. CASE Drain
  <2> DEFINE u == Head(updateCh)
             p == IF u.kind = "health"
                  THEN [pending[u.relay] EXCEPT !.hasHealth = TRUE,
                                                !.health = u.health]
                  ELSE [pending[u.relay] EXCEPT !.used = "due"]
  <2>1. u \in Update /\ Tail(updateCh) \in Seq(Update) BY <1>11 DEF Drain
  <2>2. p \in Pending
    <3>1. u.relay \in Relays /\ u.health \in Health
      <4> HIDE DEF u
      <4> QED BY <2>1 DEF Update
    <3>2. pending[u.relay] \in Pending BY <3>1
    <3> HIDE DEF u
    <3> QED BY <3>1, <3>2 DEF Pending
  <2>3. pending' = [pending EXCEPT ![u.relay] = p] BY <1>11 DEF Drain
  <2>4. pending' \in [Relays -> Pending]
    <3> HIDE DEF p, u
    <3> QED BY <2>2, <2>3
  <2> QED BY <1>11, <2>1, <2>4 DEF Drain, store, checkers
<1>12. CASE DrainEnd BY <1>12 DEF DrainEnd, store, checkers
<1>13. ASSUME NEW r \in Relays, ApplyUse(r) PROVE TypeOK'
  <2>1. [pending[r] EXCEPT !.used = "done"] \in Pending BY DEF Pending
  <2>2. pending' \in [Relays -> Pending] BY <1>13, <1>b, <2>1 DEF ApplyUse
  <2> QED BY <1>13, <2>2 DEF ApplyUse, checkers
<1>14. ASSUME NEW r \in Relays, ApplyHealth(r) PROVE TypeOK'
  <2>1. pending[r].health \in Health BY DEF Pending
  <2> QED BY <1>14, <1>b, <2>1 DEF ApplyHealth, checkers
<1>15. CASE FlushEnd BY <1>15 DEF FlushEnd, store, checkers
<1>16. ASSUME NEW r \in Relays, Age(r) PROVE TypeOK'
  BY <1>16 DEF Age, queue, checkers
<1>17. CASE Settle BY <1>17 DEF Settle, store, queue, checkers
<1>18. CASE UNCHANGED vars BY <1>18 DEF vars, store, queue, checkers
<1> QED
  BY <1>1, <1>2, <1>3, <1>4, <1>5, <1>6, <1>7, <1>8, <1>9, <1>10, <1>11,
     <1>12, <1>13, <1>14, <1>15, <1>16, <1>17, <1>18
  DEF Next, Flush, Check, Request, World

\* TypeOK: every variable keeps its type, in particular no counter of a record
\* on its way through the channel leaves the naturals.
THEOREM Typing == Spec => []TypeOK
<1>1. Init => TypeOK BY TypeInit
<1>2. TypeOK /\ [Next]_vars => TypeOK' BY TypeStep
<1> QED BY <1>1, <1>2, PTL DEF Spec

-----------------------------------------------------------------------------
(* The inductive invariant.                                                *)

LEMMA InvInit == Init => IInv
<1> SUFFICES ASSUME Init PROVE IInv OBVIOUS
<1>1. TypeOK BY TypeInit
<1>2. Sound(Blank) BY DEF Sound, Blank
<1>3. \A r \in Relays : Innocent(r, Blank) BY DEF Innocent, Blank
<1>4. StoreInv BY <1>2, <1>3 DEF StoreInv, Init
<1>5. ChannelInv BY DEF ChannelInv, Init
<1>6. PendingInv BY DEF PendingInv, Init, Nothing
<1>7. PingingInv /\ DoneInv BY DEF PingingInv, DoneInv, Init, NoJob
<1> QED BY <1>1, <1>4, <1>5, <1>6, <1>7 DEF IInv

\* The stations a step leaves alone keep their part when it blames nobody new
\* or more relays: Good and Innocent only get weaker.
LEMMA StoreKept ==
  ASSUME StoreInv, UNCHANGED health, blamed \subseteq blamed' PROVE StoreInv'
BY DEF StoreInv, Innocent, Sound

LEMMA ChannelKept ==
  ASSUME ChannelInv, UNCHANGED updateCh, blamed \subseteq blamed'
  PROVE  ChannelInv'
BY DEF ChannelInv, Good, Sound

LEMMA PendingKept ==
  ASSUME PendingInv, UNCHANGED pending, blamed \subseteq blamed'
  PROVE  PendingInv'
BY DEF PendingInv, Good, Sound

LEMMA JobsKept ==
  ASSUME PingingInv, DoneInv, UNCHANGED job, blamed \subseteq blamed'
  PROVE  PingingInv' /\ DoneInv'
BY DEF PingingInv, DoneInv, Good, Sound

\* A step that only moves probes that are neither pinging nor done.
LEMMA JobsReset ==
  ASSUME PingingInv, DoneInv, UNCHANGED blamed,
         \A c \in Checkers, r \in Relays :
           \/ job'[c][r] = job[c][r]
           \/ job'[c][r].pc \notin {"pinging", "done"}
  PROVE  PingingInv' /\ DoneInv'
BY DEF PingingInv, DoneInv, Good, Sound

\* Sending a record that is Good, or a use, keeps the channel Good.
LEMMA ChannelSend ==
  ASSUME ChannelInv, TypeOK, NEW u \in Update, Send(u), UNCHANGED blamed,
         u.kind = "health" => Good(u.relay, u.health)
  PROVE  ChannelInv'
<1> SUFFICES ASSUME NEW i \in DOMAIN updateCh', updateCh'[i].kind = "health"
             PROVE  Good(updateCh'[i].relay, updateCh'[i].health)
  BY DEF ChannelInv, Good, Sound
<1>1. \/ updateCh'[i] = u
      \/ i \in DOMAIN updateCh /\ updateCh'[i] = updateCh[i]
  BY SendFacts DEF TypeOK
<1> QED BY <1>1 DEF ChannelInv

LEMMA InvStep == IInv /\ [Next]_vars => IInv'
<1> SUFFICES ASSUME IInv, [Next]_vars PROVE IInv' OBVIOUS
<1> USE DEF IInv
<1>t. TypeOK' BY TypeStep
<1>j. /\ job \in [Checkers -> [Relays -> Job]]
      /\ \A c \in Checkers, r \in Relays : job[c][r].h \in Health
  BY DEF TypeOK, Job
<1>n. NoJob.pc = "idle" BY DEF NoJob
<1>1. ASSUME NEW r \in Relays, Use(r) PROVE IInv'
  <2>1. UseUpdate(r) \in Update /\ UseUpdate(r).kind # "health"
    BY BlankType, UpdateTypes DEF UseUpdate
  <2>2. ChannelInv' BY <1>1, <2>1, ChannelSend DEF Use
  <2> QED BY <1>1, <1>t, <2>2, StoreKept, PendingKept, JobsKept
          DEF Use, store, checkers
<1>2. ASSUME NEW r \in Relays, Strike(r) PROVE IInv'
  <2>1. health[r] \in Health BY DEF TypeOK
  <2>2. Struck(health[r]).checked /\ Sound(Struck(health[r]))
    BY <2>1, StruckFacts
  <2>3. blamed \subseteq blamed' /\ r \in blamed' BY <1>2 DEF Strike
  <2>4. health' = [health EXCEPT ![r] = Struck(health[r])] BY <1>2 DEF Strike
  <2>5. StoreInv'
    <3> SUFFICES ASSUME NEW q \in Relays
                 PROVE  Sound(health'[q]) /\ Innocent(q, health[q])'
      BY DEF StoreInv, Sound
    <3>1. CASE q = r
      BY <3>1, <2>2, <2>3, <2>4 DEF TypeOK, Innocent
    <3>2. CASE q # r
      <4>1. health'[q] = health[q] BY <3>2, <2>4 DEF TypeOK
      <4> QED BY <4>1, <2>3 DEF StoreInv, Innocent
    <3> QED BY <3>1, <3>2
  <2> QED BY <1>2, <1>t, <2>3, <2>5, ChannelKept, PendingKept, JobsKept
          DEF Strike, queue, checkers
<1>3. CASE StartRound
  <2>1. \A c \in Checkers, r \in Relays :
          \/ job'[c][r] = job[c][r]
          \/ job'[c][r].pc \notin {"pinging", "done"}
    BY <1>3, <1>j DEF StartRound, Checkers
  <2> QED BY <1>3, <1>t, <2>1, StoreKept, ChannelKept, PendingKept, JobsReset
          DEF StartRound, store, queue
<1>4. CASE StartFast
  <2>1. \A c \in Checkers, r \in Relays :
          \/ job'[c][r] = job[c][r]
          \/ job'[c][r].pc \notin {"pinging", "done"}
    BY <1>4, <1>j DEF StartFast, Checkers
  <2> QED BY <1>4, <1>t, <2>1, StoreKept, ChannelKept, PendingKept, JobsReset
          DEF StartFast, store, queue
<1>5. ASSUME NEW q \in Relays, Admit(q) PROVE IInv'
  <2>1. \A c \in Checkers, r \in Relays :
          \/ job'[c][r] = job[c][r]
          \/ job'[c][r].pc \notin {"pinging", "done"}
    BY <1>5, <1>j, <1>n DEF Admit, Checkers, Job
  <2> QED BY <1>5, <1>t, <2>1, StoreKept, ChannelKept, PendingKept, JobsReset
          DEF Admit, store, queue
<1>6. ASSUME NEW c \in Checkers, NEW r \in Relays, ReadCounters(c, r)
      PROVE  IInv'
  <2> DEFINE h == [Blank EXCEPT !.fails = health[r].fails,
                                !.succs = health[r].succs]
  <2>1. h.fails = health[r].fails /\ h.succs = health[r].succs BY DEF Blank
  <2>2. /\ h.fails = 0 \/ h.succs = 0
        /\ r \notin blamed => h.fails = 0
    BY <2>1 DEF StoreInv, Sound, Innocent
  <2>3. job' = [job EXCEPT ![c][r] = [pc |-> "pinging", h |-> h]]
    BY <1>6 DEF ReadCounters
  <2> HIDE DEF h
  <2>4. blamed' = blamed BY <1>6 DEF ReadCounters
  <2>5. \A d \in Checkers, q \in Relays :
          job'[d][q] = IF d = c /\ q = r THEN [pc |-> "pinging", h |-> h]
                                         ELSE job[d][q]
    BY <1>j, <2>3
  <2>6. PingingInv' BY <2>2, <2>4, <2>5 DEF PingingInv
  <2>7. DoneInv' BY <2>4, <2>5 DEF DoneInv, Good, Sound
  <2> QED BY <1>6, <1>t, <2>4, <2>6, <2>7, StoreKept, ChannelKept, PendingKept
          DEF ReadCounters, store, queue
<1>7. ASSUME NEW c \in Checkers, NEW r \in Relays, Ping(c, r) PROVE IInv'
  <2>1. PICK ok \in Answers(r) :
          /\ job' = [job EXCEPT ![c][r] =
                       [pc |-> "done", h |-> PingResult(@.h, ok)]]
          /\ blamed' = IF ok THEN blamed ELSE blamed \cup {r}
    BY <1>7 DEF Ping
  <2>2. ok \in BOOLEAN BY DEF Answers
  <2> DEFINE h == PingResult(job[c][r].h, ok)
  <2>3. job[c][r].h.fails = 0 \/ job[c][r].h.succs = 0
    BY <1>7 DEF Ping, PingingInv
  <2>4. /\ h.checked /\ Sound(h)
        /\ ok /\ job[c][r].h.fails = 0 => h.fails = 0 /\ h.online
    BY <1>j, <2>2, <2>3, PingFacts
  <2>5. r \notin blamed' => ok /\ job[c][r].h.fails = 0
    BY <1>7, <2>1 DEF Ping, PingingInv
  <2>6. h.checked /\ Sound(h) /\ (r \notin blamed' => h.fails = 0 /\ h.online)
    BY <2>4, <2>5
  <2>7. \A d \in Checkers, q \in Relays :
          job'[d][q] = IF d = c /\ q = r THEN [pc |-> "done", h |-> h]
                                         ELSE job[d][q]
    BY <1>j, <2>1
  <2>8. blamed \subseteq blamed' BY <2>1
  <2> HIDE DEF h
  <2>9. PingingInv' BY <2>7, <2>8 DEF PingingInv
  <2>10. DoneInv' BY <2>6, <2>7, <2>8 DEF DoneInv, Good, Sound
  <2> QED BY <1>7, <1>t, <2>8, <2>9, <2>10, StoreKept, ChannelKept, PendingKept
          DEF Ping, store, queue
<1>8. ASSUME NEW r \in Relays, Collect(r) PROVE IInv'
  <2> DEFINE u == HealthUpdate(r, job["loop"][r].h)
  <2>1. u \in Update BY <1>j, UpdateTypes DEF Checkers
  <2>2. Good(u.relay, u.health)
    BY <1>8 DEF Collect, DoneInv, HealthUpdate, Checkers
  <2>3. ChannelInv'
    <3> HIDE DEF u
    <3>1. Send(u) /\ UNCHANGED blamed BY <1>8 DEF Collect, u
    <3> QED BY <2>1, <2>2, <3>1, ChannelSend
  <2>4. \A c \in Checkers, q \in Relays :
          \/ job'[c][q] = job[c][q]
          \/ job'[c][q].pc \notin {"pinging", "done"}
    BY <1>8, <1>j, <1>n DEF Collect, Checkers
  <2> QED BY <1>8, <1>t, <2>3, <2>4, StoreKept, PendingKept, JobsReset
          DEF Collect, store
<1>9. ASSUME NEW r \in Relays, FastReport(r) PROVE IInv'
  <2> DEFINE u == HealthUpdate(r, job["fast"][r].h)
  <2>1. u \in Update BY <1>j, UpdateTypes DEF Checkers
  <2>2. Good(u.relay, u.health)
    BY <1>9 DEF FastReport, DoneInv, HealthUpdate, Checkers
  <2>3. ChannelInv'
    <3> HIDE DEF u
    <3>1. Send(u) /\ UNCHANGED blamed BY <1>9 DEF FastReport, u
    <3> QED BY <2>1, <2>2, <3>1, ChannelSend
  <2>4. \A c \in Checkers, q \in Relays :
          \/ job'[c][q] = job[c][q]
          \/ job'[c][q].pc \notin {"pinging", "done"}
    BY <1>9, <1>j, <1>n DEF FastReport, Checkers
  <2> QED BY <1>9, <1>t, <2>3, <2>4, StoreKept, PendingKept, JobsReset
          DEF FastReport, store
<1>10. CASE FlushTick
  BY <1>10, <1>t, StoreKept, ChannelKept, PendingKept, JobsKept
  DEF FlushTick, store, checkers
<1>11. CASE Drain
  <2> DEFINE u == Head(updateCh)
  <2>0. 1 \in DOMAIN updateCh /\ u = updateCh[1]
    <3>1. updateCh \in Seq(Update) /\ updateCh # <<>>
      BY <1>11 DEF Drain, TypeOK
    <3> QED BY <3>1
  <2>1. u \in Update /\ u.relay \in Relays
    <3> HIDE DEF u
    <3>1. u \in Update BY <2>0 DEF TypeOK
    <3> QED BY <3>1 DEF Update
  <2>2. u.kind = "health" => Good(u.relay, u.health)
    BY <2>0 DEF ChannelInv
  <2>3. ChannelInv'
    <3>1. \A i \in DOMAIN updateCh' :
            i + 1 \in DOMAIN updateCh /\ updateCh'[i] = updateCh[i + 1]
      BY <1>11 DEF Drain, TypeOK
    <3> QED BY <1>11, <3>1 DEF Drain, ChannelInv, Good, Sound
  <2>4. PendingInv'
    <3> DEFINE p == IF u.kind = "health"
                    THEN [pending[u.relay] EXCEPT !.hasHealth = TRUE,
                                                  !.health = u.health]
                    ELSE [pending[u.relay] EXCEPT !.used = "due"]
    <3>1. pending' = [pending EXCEPT ![u.relay] = p] BY <1>11 DEF Drain
    <3>2. pending \in [Relays -> Pending] /\ pending[u.relay] \in Pending
      BY <2>1 DEF TypeOK
    <3>3. p.hasHealth => Good(u.relay, p.health)
      <4>1. CASE u.kind = "health"
        <5>1. p.health = u.health BY <3>2, <4>1 DEF Pending
        <5> QED BY <2>2, <4>1, <5>1
      <4>2. CASE u.kind # "health"
        <5>1. /\ p.health = pending[u.relay].health
              /\ p.hasHealth = pending[u.relay].hasHealth
          BY <3>2, <4>2 DEF Pending
        <5> QED BY <2>1, <5>1 DEF PendingInv
      <4> QED BY <4>1, <4>2
    <3>4. blamed' = blamed BY <1>11 DEF Drain
    <3> HIDE DEF p, u
    <3>5. \A q \in Relays : pending'[q] = IF q = u.relay THEN p ELSE pending[q]
      BY <3>1, <3>2
    <3>6. \A q \in Relays :
            pending'[q].hasHealth => Good(q, pending'[q].health)
      BY <3>3, <3>5 DEF PendingInv
    <3> QED BY <3>4, <3>6 DEF PendingInv, Good, Sound
  <2> QED BY <1>11, <1>t, <2>3, <2>4, StoreKept, JobsKept
          DEF Drain, store, checkers
<1>12. CASE DrainEnd
  BY <1>12, <1>t, StoreKept, ChannelKept, PendingKept, JobsKept
  DEF DrainEnd, store, checkers
<1>13. ASSUME NEW r \in Relays, ApplyUse(r) PROVE IInv'
  <2>1. \A q \in Relays :
          pending'[q].hasHealth => /\ pending[q].hasHealth
                                   /\ pending'[q].health = pending[q].health
    BY <1>13 DEF ApplyUse, TypeOK, Pending, Nothing
  <2>2. PendingInv' BY <1>13, <2>1 DEF ApplyUse, PendingInv, Good, Sound
  <2> QED BY <1>13, <1>t, <2>2, StoreKept, ChannelKept, JobsKept
          DEF ApplyUse, checkers
<1>14. ASSUME NEW r \in Relays, ApplyHealth(r) PROVE IInv'
  <2>1. Good(r, pending[r].health) BY <1>14 DEF ApplyHealth, PendingInv
  <2>2. StoreInv'
    <3> SUFFICES ASSUME NEW q \in Relays
                 PROVE  Sound(health'[q]) /\ Innocent(q, health'[q])
      BY <1>14 DEF StoreInv, Sound, Innocent, ApplyHealth
    <3>1. CASE q = r
      BY <1>14, <2>1, <3>1 DEF ApplyHealth, TypeOK, Good, Innocent
    <3>2. CASE q # r
      BY <1>14, <3>2 DEF ApplyHealth, TypeOK, StoreInv
    <3> QED BY <3>1, <3>2
  <2>3. PendingInv'
    <3>1. \A q \in Relays : pending'[q].hasHealth => pending'[q] = pending[q]
      BY <1>14 DEF ApplyHealth, TypeOK, Nothing
    <3> QED BY <1>14, <3>1 DEF ApplyHealth, PendingInv, Good, Sound
  <2> QED BY <1>14, <1>t, <2>2, <2>3, ChannelKept, JobsKept
          DEF ApplyHealth, checkers
<1>15. CASE FlushEnd
  BY <1>15, <1>t, StoreKept, ChannelKept, PendingKept, JobsKept
  DEF FlushEnd, store, checkers
<1>16. ASSUME NEW r \in Relays, Age(r) PROVE IInv'
  BY <1>16, <1>t, StoreKept, ChannelKept, PendingKept, JobsKept
  DEF Age, queue, checkers
<1>17. CASE Settle
  BY <1>17, <1>t, StoreKept, ChannelKept, PendingKept, JobsKept
  DEF Settle, store, queue, checkers
<1>18. CASE UNCHANGED vars
  BY <1>18, <1>t, StoreKept, ChannelKept, PendingKept, JobsKept
  DEF vars, store, queue, checkers
<1> QED
  BY <1>1, <1>2, <1>3, <1>4, <1>5, <1>6, <1>7, <1>8, <1>9, <1>10, <1>11,
     <1>12, <1>13, <1>14, <1>15, <1>16, <1>17, <1>18
  DEF Next, Flush, Check, Request, World

LEMMA Invariant == Spec => []IInv
<1>1. Init => IInv BY InvInit
<1>2. IInv /\ [Next]_vars => IInv' BY InvStep
<1> QED BY <1>1, <1>2, PTL DEF Spec

-----------------------------------------------------------------------------
(* The results.                                                            *)

\* StoredHealthSound: whatever probes, strikes and flushes are interleaved, no
\* relay is offered as online at the failure threshold.
THEOREM Soundness == Spec => []StoredHealthSound
<1>1. IInv => StoredHealthSound
  BY DEF IInv, StoreInv, StoredHealthSound
<1> QED BY <1>1, Invariant, PTL

\* OfflineOnlyIfBlamed: a relay that never failed is never taken offline.
THEOREM NoRelayLostForNothing == Spec => []OfflineOnlyIfBlamed
<1>1. IInv => OfflineOnlyIfBlamed
  BY DEF IInv, StoreInv, Innocent, OfflineOnlyIfBlamed
<1> QED BY <1>1, Invariant, PTL

\* NeverForgotten: no step makes a checked relay unknown again.  A record that
\* is written is a strike's, or was gathered from a Good update.
THEOREM ChecksAreRemembered == Spec => NeverForgotten
<1> DEFINE Remembers == \A r \in Relays : health[r].checked => health'[r].checked
<1>1. IInv /\ [Next]_vars => Remembers
  <2> SUFFICES ASSUME IInv, [Next]_vars, NEW r \in Relays, health[r].checked
               PROVE  health'[r].checked
    OBVIOUS
  <2>1. ASSUME NEW q \in Relays, Strike(q) PROVE health'[r].checked
    <3>1. health[q] \in Health BY DEF IInv, TypeOK
    <3>2. Struck(health[q]).checked BY <3>1, StruckFacts
    <3> QED BY <2>1, <3>2 DEF Strike, IInv, TypeOK
  <2>2. ASSUME NEW q \in Relays, ApplyHealth(q) PROVE health'[r].checked
    <3>1. pending[q].health.checked
      BY <2>2 DEF ApplyHealth, IInv, PendingInv, Good
    <3> QED BY <2>2, <3>1 DEF ApplyHealth, IInv, TypeOK
  <2>3. CASE UNCHANGED health BY <2>3
  <2> QED BY <2>1, <2>2, <2>3
          DEF Next, Flush, Check, Request, World, Use, StartRound, StartFast,
              Admit, ReadCounters, Ping, Collect, FastReport, FlushTick, Drain,
              DrainEnd, ApplyUse, FlushEnd, Age, Settle, vars, store
<1>2. IInv /\ [Next]_vars => [Remembers]_vars BY <1>1
<1> QED BY <1>2, Invariant, PTL DEF Spec, NeverForgotten

\* What selections may assume of the health of relays, and RelaySelection does
\* of its environment: one step of probes, strikes and flusher together changes
\* what PeekHealth says of one relay at most, and never to unknown.
Standings == [r \in Relays |-> PeekHealth(r)]

Restand(r) ==
  \E s \in {"online", "offline"} : Standings' = [Standings EXCEPT ![r] = s]

LEMMA RecordRestands ==
  ASSUME TypeOK, NEW q \in Relays, NEW h \in Health, h.checked,
         health' = [health EXCEPT ![q] = h]
  PROVE  Restand(q)
<1> DEFINE s == IF h.online THEN "online" ELSE "offline"
<1>1. \A r \in Relays : PeekHealth(r)' = IF r = q THEN s ELSE PeekHealth(r)
  BY DEF PeekHealth, TypeOK
<1>2. Standings' = [Standings EXCEPT ![q] = s]
  BY <1>1 DEF Standings
<1> QED BY <1>2 DEF Restand

THEOREM OneRelayAtATime == Spec => [][\E r \in Relays : Restand(r)]_Standings
<1>1. IInv /\ [Next]_vars => [\E r \in Relays : Restand(r)]_Standings
  <2> SUFFICES ASSUME IInv, [Next]_vars
               PROVE  (\E r \in Relays : Restand(r)) \/ UNCHANGED Standings
    OBVIOUS
  <2>1. ASSUME NEW q \in Relays, Strike(q) PROVE Restand(q)
    <3>1. health[q] \in Health BY DEF IInv, TypeOK
    <3>2. Struck(health[q]) \in Health /\ Struck(health[q]).checked
      BY <3>1, StruckFacts
    <3>3. health' = [health EXCEPT ![q] = Struck(health[q])]
      BY <2>1 DEF Strike
    <3> QED BY <3>2, <3>3, RecordRestands DEF IInv
  <2>2. ASSUME NEW q \in Relays, ApplyHealth(q) PROVE Restand(q)
    <3>1. pending[q].health \in Health /\ pending[q].health.checked
      BY <2>2 DEF ApplyHealth, IInv, TypeOK, Pending, PendingInv, Good
    <3> QED BY <2>2, <3>1, RecordRestands DEF ApplyHealth, IInv
  <2>3. CASE UNCHANGED health BY <2>3 DEF Standings, PeekHealth
  <2> QED BY <2>1, <2>2, <2>3
          DEF Next, Flush, Check, Request, World, Use, StartRound, StartFast,
              Admit, ReadCounters, Ping, Collect, FastReport, FlushTick, Drain,
              DrainEnd, ApplyUse, FlushEnd, Age, Settle, vars, store
<1> QED BY <1>1, Invariant, PTL DEF Spec
=============================================================================
