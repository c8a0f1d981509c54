----------------------------- MODULE RelayHealth -----------------------------
(***************************************************************************)
(* The health of every relay as mulprox keeps it (internal/stats): the     *)
(* record behind RemoteStats.Health is written by two parties that do not  *)
(* wait for each other.                                                    *)
(*                                                                         *)
(*  - Request goroutines strike a relay synchronously, under its healthMu  *)
(*    (RecordRemoteFailure, the circuit breaker).                          *)
(*  - Health checks read the failure and success counters, probe the relay *)
(*    for seconds, compute a new record from what they READ, and send it   *)
(*    through the store's update channel to the flusher, which overwrites  *)
(*    the record up to 200ms later.                                        *)
(*                                                                         *)
(* Two checkers exist: the periodic loop (runHealthChecker/checkHealth)    *)
(* and the startup probe behind FAST_HEALTH_CHECK (CheckHealthOne), which  *)
(* cmd/serve.go runs concurrently with the first round of the loop.        *)
(*                                                                         *)
(* Abstractions: a time stamp is reduced to what is tested of it (LastCheck*)
(* to "checked", LastUsed to never/recent/idle); latencies are left out; a *)
(* counter saturates at CountCap, above every threshold it is compared     *)
(* with; the updates of other kinds that share the channel (bytes, egress  *)
(* IP, metadata) are left out, and QueueCap is the room they leave.        *)
(***************************************************************************)
EXTENDS Naturals, Sequences, FiniteSets

CONSTANTS
  Relays,            \* hostnames of the relays of the Mullvad list
  FailThreshold,     \* Config.HealthCheckConsecutiveFailures (2)
  HealthyThreshold,  \* Config.HealthCheckHealthyThreshold (3)
  FastHealthCheck,   \* Config.FastHealthCheck: CheckHealthOne runs at startup
  Strikes,           \* circuitBreakerStrikes of the proxy handler (2)
  QueueCap,          \* room in updateCh
  PendingCap,        \* remotes a flush gathers before it stops draining
  CountCap           \* bound: the counters saturate here

ASSUME RelayHealthAssumption ==
  /\ FailThreshold \in Nat \ {0}
  /\ HealthyThreshold \in Nat \ {0}
  /\ Strikes \in Nat \ {0}
  /\ QueueCap \in Nat \ {0}
  /\ FastHealthCheck \in BOOLEAN
  /\ PendingCap \in Nat
  /\ CountCap \in Nat
  /\ CountCap >= FailThreshold
  /\ CountCap >= HealthyThreshold
  /\ CountCap >= Strikes

Checkers == {"loop", "fast"}

Health == [online : BOOLEAN, checked : BOOLEAN, fails : Nat, succs : Nat]

\* The zero RemoteHealth: PeekHealth reports the relay as unknown.
Blank == [online |-> FALSE, checked |-> FALSE, fails |-> 0, succs |-> 0]

Update == [kind : {"health", "use"}, relay : Relays, health : Health]

\* What a flush has gathered for one relay; used is "done" between the two
\* critical sections in which LastUsed and Health are applied.
Pending == [used : {"no", "due", "done"}, hasHealth : BOOLEAN, health : Health]
Nothing == [used |-> "no", hasHealth |-> FALSE, health |-> Blank]

\* A probe job: queued on the jobs channel; admitted by skipHealthCheck;
\* pinging with the counters it read; done with the record it computed.
Job == [pc : {"idle", "queued", "admitted", "pinging", "done"},
        h  : Health]
NoJob == [pc |-> "idle", h |-> Blank]

VARIABLES
  health,    \* RemoteStats.Health
  lastUsed,  \* RemoteStats.LastUsed, against healthCheckActiveWindow
  updateCh,  \* InMemoryStore.updateCh
  flusher,   \* where runFlusher is
  pending,   \* the pending map of the flush in progress
  job,       \* the probe of each checker for each relay
  fast,      \* CheckHealthOne: not called, running, returned
  blamed,    \* history: relays that failed a probe or were struck
  world      \* environment: "wild" (requests, outages) until it settles to
             \* the set of relays that answer their probes from then on

store == <<health, lastUsed>>
queue == <<updateCh, flusher, pending>>
checkers == <<job, fast>>
vars == <<store, queue, checkers, blamed, world>>

TypeOK ==
  /\ health \in [Relays -> Health]
  /\ lastUsed \in [Relays -> {"never", "recent", "idle"}]
  /\ updateCh \in Seq(Update)
  /\ flusher \in {"idle", "drain", "apply"}
  /\ pending \in [Relays -> Pending]
  /\ job \in [Checkers -> [Relays -> Job]]
  /\ fast \in {"off", "running", "ended"}
  /\ blamed \in SUBSET Relays
  /\ world \in {<<"wild">>} \cup {<<"calm", a>> : a \in SUBSET Relays}

Init ==
  /\ health = [r \in Relays |-> Blank]
  /\ lastUsed = [r \in Relays |-> "never"]
  /\ updateCh = <<>>
  /\ flusher = "idle"
  /\ pending = [r \in Relays |-> Nothing]
  /\ job = [c \in Checkers |-> [r \in Relays |-> NoJob]]
  /\ fast = "off"
  /\ blamed = {}
  /\ world = <<"wild">>

-----------------------------------------------------------------------------
(* Helpers.                                                                *)

Wild == world[1] = "wild"
Alive(r) == ~Wild /\ r \in world[2]
Dead(r) == ~Wild /\ r \notin world[2]

\* What a probe of r may find: anything while relays come and go.
Answers(r) == IF Wild THEN BOOLEAN ELSE {r \in world[2]}

Bump(n) == IF n < CountCap THEN n + 1 ELSE n

\* sendNonBlocking: a full channel drops the update.
Send(u) ==
  IF Len(updateCh) < QueueCap THEN updateCh' = Append(updateCh, u)
                              ELSE UNCHANGED updateCh

HealthUpdate(r, h) == [kind |-> "health", relay |-> r, health |-> h]
UseUpdate(r) == [kind |-> "use", relay |-> r, health |-> Blank]

\* Mutant: the success streak survives a strike.
MutStruckStreak(h) ==
  [online  |-> Bump(h.fails) < Strikes,
   checked |-> TRUE,
   fails   |-> Bump(h.fails),
   succs   |-> h.succs]

\* RemoteStore.RecordRemoteFailure, under healthMu.
Struck(h) ==
  [online  |-> Bump(h.fails) < Strikes,
   checked |-> TRUE,
   fails   |-> Bump(h.fails),
   succs   |-> 0]

\* Mutants of PingResult: a first success does not count as healthy; a failed
\* probe is not counted.
MutPingFirst(h, ok) ==
  LET f == IF ok THEN 0 ELSE Bump(h.fails)
      s == IF ok THEN Bump(h.succs) ELSE 0
  IN [online  |-> f < FailThreshold /\ s >= HealthyThreshold,
      checked |-> TRUE,
      fails   |-> f,
      succs   |-> s]
MutPingUncounted(h, ok) ==
  LET f == IF ok THEN 0 ELSE h.fails
      s == IF ok THEN Bump(h.succs) ELSE 0
  IN [online  |-> /\ f < FailThreshold
                  /\ (s >= HealthyThreshold \/ h.fails = 0),
      checked |-> TRUE,
      fails   |-> f,
      succs   |-> s]

\* pingServer: the record computed from the counters h it was given.
PingResult(h, ok) ==
  LET f == IF ok THEN 0 ELSE Bump(h.fails)
      s == IF ok THEN Bump(h.succs) ELSE 0
  IN [online  |-> /\ f < FailThreshold
                  /\ (s >= HealthyThreshold \/ h.fails = 0),
      checked |-> TRUE,
      fails   |-> f,
      succs   |-> s]

\* Mutant: an offline relay is passed over as well.
MutSkippable(r) == lastUsed[r] = "idle"

\* skipHealthCheck: online, used before, and idle beyond the active window.
Skippable(r) == health[r].online /\ lastUsed[r] = "idle"

\* RemoteStore.PeekHealth: what requests are told of a relay.
PeekHealth(r) ==
  IF ~health[r].checked THEN "unknown"
  ELSE IF health[r].online THEN "online" ELSE "offline"

-----------------------------------------------------------------------------
(* Request goroutines.                                                     *)

\* RecordRequest or RecordError: reaches LastUsed through the channel.
Use(r) ==
  /\ Wild
  /\ Send(UseUpdate(r))
  /\ UNCHANGED <<store, flusher, pending, checkers, blamed, world>>

\* markRemoteUnhealthy -> RecordRemoteFailure: writes the record directly.
Strike(r) ==
  /\ Wild
  /\ health' = [health EXCEPT ![r] = Struck(@)]
  /\ blamed' = blamed \cup {r}
  /\ UNCHANGED <<lastUsed, queue, checkers, world>>

-----------------------------------------------------------------------------
(* The two checkers.                                                       *)

\* checkHealth starts a round only after the previous one has returned.
StartRound ==
  /\ \A r \in Relays : job["loop"][r].pc = "idle"
  /\ job' = [job EXCEPT !["loop"] =
               [r \in Relays |-> [pc |-> "queued", h |-> Blank]]]
  /\ UNCHANGED <<store, queue, fast, blamed, world>>

\* CheckHealthOne is called at most once; it has no skip test.
StartFast ==
  /\ FastHealthCheck
  /\ fast = "off"
  /\ fast' = "running"
  /\ job' = [job EXCEPT !["fast"] =
               [r \in Relays |-> [pc |-> "admitted", h |-> Blank]]]
  /\ UNCHANGED <<store, queue, blamed, world>>

\* A worker of checkHealth takes the relay and tests skipHealthCheck.
Admit(r) ==
  /\ job["loop"][r].pc = "queued"
  /\ job' = [job EXCEPT !["loop"][r] =
               IF Skippable(r) THEN NoJob ELSE [@ EXCEPT !.pc = "admitted"]]
  /\ UNCHANGED <<store, queue, fast, blamed, world>>

\* consecutiveHealth: the counters are read under healthMu, then released.
ReadCounters(c, r) ==
  /\ job[c][r].pc = "admitted"
  /\ job' = [job EXCEPT ![c][r] =
               [pc |-> "pinging",
                h  |-> [Blank EXCEPT !.fails = health[r].fails,
                                     !.succs = health[r].succs]]]
  /\ UNCHANGED <<store, queue, fast, blamed, world>>

\* The probe ends; the record follows from the counters read before it.
Ping(c, r) ==
  /\ job[c][r].pc = "pinging"
  /\ \E ok \in Answers(r) :
       /\ job' = [job EXCEPT ![c][r] =
                    [pc |-> "done", h |-> PingResult(@.h, ok)]]
       /\ blamed' = IF ok THEN blamed ELSE blamed \cup {r}
  /\ UNCHANGED <<store, queue, fast, world>>

\* The collector goroutine of checkHealth stores results as they come.
Collect(r) ==
  /\ job["loop"][r].pc = "done"
  /\ Send(HealthUpdate(r, job["loop"][r].h))
  /\ job' = [job EXCEPT !["loop"][r] = NoJob]
  /\ UNCHANGED <<store, flusher, pending, fast, blamed, world>>

\* CheckHealthOne waits for every probe, then stores results up to the first
\* online one, which it returns; the results after it are not stored.
FastReport(r) ==
  /\ fast = "running"
  /\ \A q \in Relays : job["fast"][q].pc \in {"idle", "done"}
  /\ job["fast"][r].pc = "done"
  /\ Send(HealthUpdate(r, job["fast"][r].h))
  /\ IF job["fast"][r].h.online
     THEN /\ fast' = "ended"
          /\ job' = [job EXCEPT !["fast"] = [q \in Relays |-> NoJob]]
     ELSE /\ job' = [job EXCEPT !["fast"][r] = NoJob]
          /\ fast' = IF \A q \in Relays \ {r} : job["fast"][q].pc = "idle"
                     THEN "ended" ELSE "running"
  /\ UNCHANGED <<store, flusher, pending, blamed, world>>

-----------------------------------------------------------------------------
(* The flusher goroutine: drain into pending, the last update of a kind    *)
(* winning, then apply remote by remote.                                   *)

FlushTick ==
  /\ flusher = "idle"
  /\ updateCh # <<>>
  /\ flusher' = "drain"
  /\ UNCHANGED <<store, updateCh, pending, checkers, blamed, world>>

Gathered == {r \in Relays : pending[r] # Nothing}

Drain ==
  /\ flusher = "drain"
  /\ updateCh # <<>>
  /\ Cardinality(Gathered) <= PendingCap
  /\ LET u == Head(updateCh)
     IN pending' = [pending EXCEPT ![u.relay] =
                      IF u.kind = "health"
                      THEN [@ EXCEPT !.hasHealth = TRUE, !.health = u.health]
                      ELSE [@ EXCEPT !.used = "due"]]
  /\ updateCh' = Tail(updateCh)
  /\ UNCHANGED <<store, flusher, checkers, blamed, world>>

DrainEnd ==
  /\ flusher = "drain"
  /\ updateCh = <<>> \/ Cardinality(Gathered) > PendingCap
  /\ flusher' = "apply"
  /\ UNCHANGED <<store, updateCh, pending, checkers, blamed, world>>

\* One remote at a time, in the order the map is ranged over.
AppliesAlone(r) == \A q \in Relays \ {r} : pending[q].used # "done"

\* LastUsed and Health are written in two critical sections, in this order.
ApplyUse(r) ==
  /\ flusher = "apply"
  /\ AppliesAlone(r)
  /\ pending[r].used = "due"
  /\ lastUsed' = [lastUsed EXCEPT ![r] = "recent"]
  /\ pending' = [pending EXCEPT ![r] =
                   IF @.hasHealth THEN [@ EXCEPT !.used = "done"] ELSE Nothing]
  /\ UNCHANGED <<health, updateCh, flusher, checkers, blamed, world>>

\* Mutant: the record is applied whether or not the flush gathered one.
MutApplyHealth(r) ==
  /\ flusher = "apply"
  /\ AppliesAlone(r)
  /\ pending[r] # Nothing
  /\ health' = [health EXCEPT ![r] = pending[r].health]
  /\ pending' = [pending EXCEPT ![r] = Nothing]
  /\ UNCHANGED <<lastUsed, updateCh, flusher, checkers, blamed, world>>

ApplyHealth(r) ==
  /\ flusher = "apply"
  /\ AppliesAlone(r)
  /\ pending[r].hasHealth
  /\ pending[r].used # "due"
  /\ health' = [health EXCEPT ![r] = pending[r].health]
  /\ pending' = [pending EXCEPT ![r] = Nothing]
  /\ UNCHANGED <<lastUsed, updateCh, flusher, checkers, blamed, world>>

FlushEnd ==
  /\ flusher = "apply"
  /\ Gathered = {}
  /\ flusher' = "idle"
  /\ UNCHANGED <<store, updateCh, pending, checkers, blamed, world>>

-----------------------------------------------------------------------------
(* Time and the outside world.                                             *)

\* healthCheckActiveWindow elapses since the relay was last used.
Age(r) ==
  /\ lastUsed[r] = "recent"
  /\ lastUsed' = [lastUsed EXCEPT ![r] = "idle"]
  /\ UNCHANGED <<health, queue, checkers, blamed, world>>

\* Requests cease, and every relay is up for good or down for good.
Settle ==
  /\ Wild
  /\ world' \in {<<"calm", a>> : a \in SUBSET Relays}
  /\ UNCHANGED <<store, queue, checkers, blamed>>

-----------------------------------------------------------------------------
Flush ==
  \/ FlushTick \/ Drain \/ DrainEnd \/ FlushEnd
  \/ \E r \in Relays : ApplyUse(r) \/ ApplyHealth(r)

Check ==
  \/ StartRound \/ StartFast
  \/ \E r \in Relays : Admit(r) \/ Collect(r) \/ FastReport(r)
  \/ \E c \in Checkers, r \in Relays : ReadCounters(c, r) \/ Ping(c, r)

Request == \E r \in Relays : Use(r) \/ Strike(r)

World == \E r \in Relays : Age(r)

Next == Flush \/ Check \/ Request \/ World \/ Settle

Spec == Init /\ [][Next]_vars

\* One worker or collector step of the periodic round for r.
LoopStep(r) ==
  Admit(r) \/ ReadCounters("loop", r) \/ Ping("loop", r) \/ Collect(r)

\* The ticker, the workers, the collector and the flusher are goroutines the
\* Go scheduler keeps running; a probe has a timeout. Requests, the outside
\* world and CheckHealthOne, which runs once, are not fair. DrainEnd is
\* strongly fair: the channel is empty for seconds between the results of a
\* round, and a drain that finds it empty at one select ends.
Fairness ==
  /\ WF_vars(Flush)
  /\ SF_vars(DrainEnd)
  /\ WF_vars(StartRound)
  /\ \A r \in Relays : WF_vars(LoopStep(r))

FairSpec == Spec /\ Fairness

\* The health checks alone, with no request traffic.
ProbeSpec == Init /\ [][Flush \/ Check \/ World]_vars

-----------------------------------------------------------------------------
(* Properties.                                                             *)

GoesOnline(r)  == health[r].checked /\ ~health[r].online /\ health'[r].online
GoesOffline(r) == health[r].online /\ ~health'[r].online

Ceiling == IF FailThreshold > Strikes THEN FailThreshold ELSE Strikes

\* A record the store may hold: an online relay is below the failure
\* threshold, at most one of the two streaks is running, and a record that was
\* never checked carries no strike.
Sound(h) ==
  /\ h.online => h.fails < Ceiling
  /\ h.fails = 0 \/ h.succs = 0
  /\ ~h.checked => h = Blank

\* Whatever the order in which strikes, probes and flushes hit a relay, its
\* stored record is sound: no relay at the failure threshold is offered as
\* online, and no relay with strikes is offered as unknown (PeekHealth).
StoredHealthSound == \A r \in Relays : Sound(health[r])

\* No relay loses traffic for nothing: a relay that never failed a probe and
\* was never struck carries no failure and is not offline, whatever mixture of
\* stale and fresh records the two checkers and the flusher wrote for it.
OfflineOnlyIfBlamed ==
  \A r \in Relays \ blamed :
    /\ health[r].fails = 0
    /\ health[r].checked => health[r].online

\* Once a relay has been checked or struck it never becomes unknown again:
\* no overwrite from the flusher can erase LastCheck, which would make
\* PeekHealth offer a dead relay as a fresh one.
NeverForgotten ==
  [][\A r \in Relays : health[r].checked => health'[r].checked]_vars

\* skipHealthCheck must not starve recovery: once requests and outages stop, a
\* relay that answers its probes is online for good, whatever stale results
\* were still in the pipeline.
LiveRelayRecovers ==
  \A r \in Relays : Alive(r) ~> [](health[r].online)

\* Once requests and outages stop, a relay that answers no probe is offline
\* for good, unless it is an idle relay that skipHealthCheck passes over.
DeadRelayRetired ==
  \A r \in Relays :
    Dead(r) ~> [](~health[r].online \/ lastUsed[r] = "idle")

\* README.md:108 "back after 3 successes".
BackAfterSuccesses ==
  [][\A r \in Relays :
       GoesOnline(r) => health'[r].succs >= HealthyThreshold]_vars

\* handler.go: "recovery happens via the health checker": a failing request
\* never puts an offline relay back online.
StrikeNeverRevives ==
  [][\A r \in Relays : Strike(r) => ~GoesOnline(r)]_vars
=============================================================================
