----------------------------- MODULE StatsStore ------------------------------
(***************************************************************************)
(* InMemoryStore of internal/stats: how a counter update travels from a     *)
(* request goroutine to the counters, and how Stop ends it.                *)
(*                                                                         *)
(* A producer (RecordRequest, RecordBytes, RecordError, SetRemote...) loads *)
(* the started flag, and only then sends without blocking; the flusher      *)
(* drains the channel into a pending map one update at a time and adds the *)
(* sums remote by remote; the window ticker sums the counters remote by     *)
(* remote, while the flusher may be adding, and publishes the difference    *)
(* to its previous total.  Stop clears started, closes stopCh, and waits    *)
(* for both goroutines, at most stopTimeout.                               *)
(*                                                                         *)
(* Abstractions: one additive counter stands for RequestCount, BytesSent,  *)
(* BytesRecv and ErrorCount.  Additive updates commute, so the channel is  *)
(* a count per remote, and chLen its length.  Smoothing and the ring of    *)
(* WindowStat are left out; the broadcast is module Broadcast.             *)
(***************************************************************************)
EXTENDS Integers, FiniteSets

CONSTANTS
  Remotes,    \* remotes the store has an entry for
  Producers,  \* goroutines that record
  None,       \* not a remote
  QueueCap,   \* capacity of updateCh (10000)
  PendingCap, \* remotes a flush gathers before it stops draining (10000)
  MaxRecords  \* bound: calls of Record... in a behaviour

ASSUME StatsStoreAssumption ==
  /\ None \notin Remotes
  /\ QueueCap \in Nat \ {0}
  /\ PendingCap \in Nat /\ PendingCap >= QueueCap
  /\ MaxRecords \in Nat

VARIABLES
  main,       \* cmd/serve.go: new, running, stopping, waiting, stopped
  started,    \* InMemoryStore.started
  stopCh,     \* InMemoryStore.stopCh is closed
  sending,    \* the update of each producer that saw started
  records,    \* calls made so far, for MaxRecords
  chan,       \* updateCh: updates queued for each remote
  chLen,      \* len(updateCh)
  flusher,    \* runFlusher: off, wait, drain, apply, ended
  last,       \* the flush in progress was started by stopCh
  pending,    \* flush: the pending map
  counter,    \* RemoteStats.RequestCount and its like
  ticker,     \* runWindowTicker: off, wait, reading, ended
  unread,     \* GetAggregated: remotes still to be added up
  agg,        \* GetAggregated: the sum so far
  prevTotal,  \* InMemoryStore.prevTotalRequests
  delta,      \* the difference the last window was computed from
  accepted,   \* history: updates that entered the channel
  overlap     \* history: producers that were past the started check at Stop

producers == <<sending, records, accepted>>
channel == <<chan, chLen>>
flush == <<flusher, last, pending, counter>>
window == <<ticker, unread, agg, prevTotal, delta>>
control == <<main, started, stopCh, overlap>>
vars == <<control, producers, channel, flush, window>>

Counts == [Remotes -> Nat]
Zero == [r \in Remotes |-> 0]

TypeOK ==
  /\ main \in {"new", "running", "stopping", "waiting", "stopped"}
  /\ started \in BOOLEAN /\ stopCh \in BOOLEAN /\ overlap \subseteq Producers
  /\ sending \in [Producers -> Remotes \cup {None}]
  /\ records \in Nat
  /\ chan \in Counts /\ pending \in Counts /\ counter \in Counts
  /\ accepted \in Counts
  /\ chLen \in Nat /\ chLen <= QueueCap
  /\ flusher \in {"off", "wait", "drain", "apply", "ended"}
  /\ last \in BOOLEAN
  /\ ticker \in {"off", "wait", "reading", "ended"}
  /\ unread \in SUBSET Remotes
  /\ agg \in Nat /\ prevTotal \in Nat /\ delta \in Int

Init ==
  /\ main = "new" /\ started = FALSE /\ stopCh = FALSE /\ overlap = {}
  /\ sending = [p \in Producers |-> None] /\ records = 0
  /\ chan = Zero /\ chLen = 0 /\ pending = Zero /\ counter = Zero
  /\ accepted = Zero
  /\ flusher = "off" /\ last = FALSE
  /\ ticker = "off" /\ unread = {} /\ agg = 0 /\ prevTotal = 0 /\ delta = 0

-----------------------------------------------------------------------------
(* Start and Stop.                                                         *)

Start ==
  /\ main = "new"
  /\ main' = "running" /\ started' = TRUE
  /\ flusher' = "wait" /\ ticker' = "wait"
  /\ UNCHANGED <<stopCh, overlap, producers, channel, last, pending, counter,
                 unread, agg, prevTotal, delta>>

\* Mutant: started is not cleared before stopCh closes.
MutStop ==
  /\ main = "running"
  /\ main' = "stopping"
  /\ overlap' = {p \in Producers : sending[p] # None}
  /\ UNCHANGED <<started, stopCh, producers, channel, flush, window>>

\* started.CompareAndSwap(true, false).
Stop ==
  /\ main = "running"
  /\ main' = "stopping" /\ started' = FALSE
  /\ overlap' = {p \in Producers : sending[p] # None}
  /\ UNCHANGED <<stopCh, producers, channel, flush, window>>

\* Mutant: the goroutines are never told.
MutCloseStopCh ==
  /\ main = "stopping"
  /\ main' = "waiting"
  /\ UNCHANGED <<started, stopCh, overlap, producers, channel, flush, window>>

CloseStopCh ==
  /\ main = "stopping"
  /\ main' = "waiting" /\ stopCh' = TRUE
  /\ UNCHANGED <<started, overlap, producers, channel, flush, window>>

\* wg.Wait returned, or stopTimeout elapsed.
StopReturns ==
  /\ main = "waiting"
  /\ main' = "stopped"
  /\ UNCHANGED <<started, stopCh, overlap, producers, channel, flush, window>>

-----------------------------------------------------------------------------
(* Producers: sendNonBlocking.                                             *)

\* The flag is loaded; a stopped store returns at once.
Begin(p, r) ==
  /\ started
  /\ sending[p] = None /\ records < MaxRecords
  /\ sending' = [sending EXCEPT ![p] = r]
  /\ records' = records + 1
  /\ UNCHANGED <<accepted, control, channel, flush, window>>

\* Mutant: a send that does not look at the capacity.
MutDeliver(p, r) ==
  /\ sending[p] = r
  /\ sending' = [sending EXCEPT ![p] = None]
  /\ chan' = [chan EXCEPT ![r] = @ + 1] /\ chLen' = chLen + 1
  /\ accepted' = [accepted EXCEPT ![r] = @ + 1]
  /\ UNCHANGED <<records, control, flush, window>>

\* The select: enqueue, or drop when the channel is full.
Deliver(p, r) ==
  /\ sending[p] = r
  /\ sending' = [sending EXCEPT ![p] = None]
  /\ \/ /\ chLen < QueueCap
        /\ chan' = [chan EXCEPT ![r] = @ + 1] /\ chLen' = chLen + 1
        /\ accepted' = [accepted EXCEPT ![r] = @ + 1]
     \/ /\ chLen = QueueCap
        /\ UNCHANGED <<channel, accepted>>
  /\ UNCHANGED <<records, control, flush, window>>

-----------------------------------------------------------------------------
(* The flusher.                                                            *)

\* select of runFlusher: the ticker fires, or stopCh is closed; with both
\* ready either may be taken.
FlushTick ==
  /\ flusher = "wait"
  /\ flusher' = "drain"
  /\ UNCHANGED <<last, pending, counter, control, producers, channel, window>>

\* Mutant: stopCh ends the flusher without a last flush.
MutFlushStop ==
  /\ flusher = "wait" /\ stopCh
  /\ flusher' = "ended" /\ last' = TRUE
  /\ UNCHANGED <<pending, counter, control, producers, channel, window>>

FlushStop ==
  /\ flusher = "wait" /\ stopCh
  /\ flusher' = "drain" /\ last' = TRUE
  /\ UNCHANGED <<pending, counter, control, producers, channel, window>>

Gathered == {r \in Remotes : pending[r] > 0}

Drain(r) ==
  /\ flusher = "drain"
  /\ chan[r] > 0
  /\ Cardinality(Gathered) <= PendingCap
  /\ chan' = [chan EXCEPT ![r] = @ - 1] /\ chLen' = chLen - 1
  /\ pending' = [pending EXCEPT ![r] = @ + 1]
  /\ UNCHANGED <<flusher, last, counter, control, producers, window>>

\* Mutant: the flush returns without applying what it gathered.
MutDrainEnd ==
  /\ flusher = "drain"
  /\ chLen = 0 \/ Cardinality(Gathered) > PendingCap
  /\ flusher' = "wait"
  /\ UNCHANGED <<last, pending, counter, control, producers, channel, window>>

DrainEnd ==
  /\ flusher = "drain"
  /\ chLen = 0 \/ Cardinality(Gathered) > PendingCap
  /\ flusher' = "apply"
  /\ UNCHANGED <<last, pending, counter, control, producers, channel, window>>

\* Mutants: the sum replaces the counter; the sum is added and kept.
MutApplySet(r) ==
  /\ flusher = "apply" /\ pending[r] > 0
  /\ counter' = [counter EXCEPT ![r] = pending[r]]
  /\ pending' = [pending EXCEPT ![r] = 0]
  /\ UNCHANGED <<flusher, last, control, producers, channel, window>>
MutApplyKeep(r) ==
  /\ flusher = "apply" /\ pending[r] > 0
  /\ counter' = [counter EXCEPT ![r] = @ + pending[r]]
  /\ UNCHANGED <<pending, flusher, last, control, producers, channel, window>>

Apply(r) ==
  /\ flusher = "apply" /\ pending[r] > 0
  /\ counter' = [counter EXCEPT ![r] = @ + pending[r]]
  /\ pending' = [pending EXCEPT ![r] = 0]
  /\ UNCHANGED <<flusher, last, control, producers, channel, window>>

FlushEnd ==
  /\ flusher = "apply" /\ Gathered = {}
  /\ flusher' = IF last THEN "ended" ELSE "wait"
  /\ UNCHANGED <<last, pending, counter, control, producers, channel, window>>

-----------------------------------------------------------------------------
(* The window ticker: updateWindow over RemoteStore.GetAggregated.         *)

Tick ==
  /\ ticker = "wait"
  /\ ticker' = "reading" /\ unread' = Remotes /\ agg' = 0
  /\ UNCHANGED <<prevTotal, delta, control, producers, channel, flush>>

ReadRemote(r) ==
  /\ ticker = "reading" /\ r \in unread
  /\ unread' = unread \ {r} /\ agg' = agg + counter[r]
  /\ UNCHANGED <<ticker, prevTotal, delta, control, producers, channel, flush>>

UpdateWindow ==
  /\ ticker = "reading" /\ unread = {}
  /\ ticker' = "wait"
  /\ delta' = agg - prevTotal /\ prevTotal' = agg
  /\ UNCHANGED <<unread, agg, control, producers, channel, flush>>

TickerStop ==
  /\ ticker = "wait" /\ stopCh
  /\ ticker' = "ended"
  /\ UNCHANGED <<unread, agg, prevTotal, delta, control, producers, channel,
                 flush>>

-----------------------------------------------------------------------------
Control == Start \/ Stop \/ CloseStopCh \/ StopReturns

Record ==
  \E p \in Producers, r \in Remotes : Begin(p, r) \/ Deliver(p, r)

Flusher ==
  \/ FlushTick \/ FlushStop \/ DrainEnd \/ FlushEnd
  \/ \E r \in Remotes : Drain(r) \/ Apply(r)

Ticker ==
  \/ Tick \/ UpdateWindow \/ TickerStop
  \/ \E r \in Remotes : ReadRemote(r)

Next == Control \/ Record \/ Flusher \/ Ticker

Spec == Init /\ [][Next]_vars

\* The two goroutines run.  The select of each is strongly fair towards
\* stopCh: with both channels ready Go picks at random, and the next tick is
\* far away.  Producers and the signal that stops the server are not fair.
Fairness ==
  /\ WF_vars(Flusher) /\ SF_vars(FlushStop)
  /\ WF_vars(Ticker) /\ SF_vars(TickerStop)
  /\ WF_vars(CloseStopCh)

FairSpec == Spec /\ Fairness

-----------------------------------------------------------------------------
(* Properties.                                                             *)

\* The store implements the ledger: what readers see was accepted, once.
Ledger == INSTANCE StatsLedger WITH visible <- counter
LedgerSpec == Ledger!Spec

\* Stop loses one update at most for each producer that had loaded started
\* before it was cleared: when the flusher has ended, all that was accepted is
\* in the counters but what is left in the channel, and of that there is no
\* more than there were such producers.
FlushedOnStop ==
  flusher = "ended" =>
    /\ chLen <= Cardinality(overlap)
    /\ \A r \in Remotes : counter[r] + chan[r] = accepted[r]

\* The window's uint64 subtraction never wraps, although the counters are
\* summed one by one while the flusher adds to them.
WindowNeverWraps == delta >= 0

\* An update in the channel reaches the counters, unless Stop ended the
\* flusher first.
AcceptedIsPublished ==
  \A r \in Remotes :
    chan[r] + pending[r] > 0
      ~> \/ chan[r] + pending[r] = 0
         \/ flusher = "ended"

\* Once Stop is called both goroutines end: it never needs its timeout.
StopEnds == main = "stopping" ~> flusher = "ended" /\ ticker = "ended"
=============================================================================
