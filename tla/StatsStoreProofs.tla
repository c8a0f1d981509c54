-------------------------- MODULE StatsStoreProofs ---------------------------
(***************************************************************************)
(* StatsStore implements StatsLedger, and Stop loses nothing, for every set *)
(* of remotes and producers and every capacity.                            *)
(***************************************************************************)
EXTENDS StatsStore, FiniteSetTheorems, TLAPS

\* The part of TypeOK the ledger rests on.
CountsOK ==
  /\ chan \in Counts /\ pending \in Counts
  /\ counter \in Counts /\ accepted \in Counts

\* Every accepted update is in exactly one place.
Conserved ==
  \A r \in Remotes : chan[r] + pending[r] + counter[r] = accepted[r]

LedgerInv == CountsOK /\ Conserved

LEMMA LedgerInit == Init => LedgerInv
BY DEF Init, LedgerInv, CountsOK, Conserved, Counts, Zero

LEMMA LedgerStep == LedgerInv /\ [Next]_vars => LedgerInv'
<1> SUFFICES ASSUME LedgerInv, [Next]_vars PROVE LedgerInv' OBVIOUS
<1> USE DEF LedgerInv, CountsOK, Conserved, Counts
<1>1. ASSUME NEW p \in Producers, NEW r \in Remotes, Deliver(p, r)
      PROVE  LedgerInv'
  BY <1>1 DEF Deliver, channel, flush
<1>2. ASSUME NEW r \in Remotes, Drain(r) PROVE LedgerInv'
  BY <1>2 DEF Drain, producers
<1>3. ASSUME NEW r \in Remotes, Apply(r) PROVE LedgerInv'
  BY <1>3 DEF Apply, producers, channel
<1>4. CASE UNCHANGED <<chan, pending, counter, accepted>> BY <1>4
<1> QED
  BY <1>1, <1>2, <1>3, <1>4
  DEF Next, Control, Record, Flusher, Ticker, Start, Stop, CloseStopCh,
      StopReturns, Begin, FlushTick, FlushStop, DrainEnd, FlushEnd, Tick,
      ReadRemote, UpdateWindow, TickerStop, vars, control, producers, channel,
      flush, window

LEMMA LedgerInvariant == Spec => []LedgerInv
<1>1. Init => LedgerInv BY LedgerInit
<1>2. LedgerInv /\ [Next]_vars => LedgerInv' BY LedgerStep
<1> QED BY <1>1, <1>2, PTL DEF Spec

\* LedgerSpec: no counter shows an update twice, shows one that was dropped,
\* or goes back, whatever producers, flusher and Stop do.
THEOREM ImplementsLedger == Spec => LedgerSpec
<1>1. Init => Ledger!Init BY DEF Init, Ledger!Init, Zero
<1>2. LedgerInv /\ [Next]_vars => [Ledger!Next]_<<accepted, counter>>
  <2> SUFFICES ASSUME LedgerInv, [Next]_vars
               PROVE  Ledger!Next \/ UNCHANGED <<accepted, counter>>
    OBVIOUS
  <2> USE DEF LedgerInv, CountsOK, Conserved, Counts
  <2>1. ASSUME NEW p \in Producers, NEW r \in Remotes, Deliver(p, r)
        PROVE  Ledger!Next \/ UNCHANGED <<accepted, counter>>
    BY <2>1 DEF Deliver, flush, Ledger!Next, Ledger!Accept
  <2>2. ASSUME NEW r \in Remotes, Apply(r) PROVE Ledger!Publish(r)
    <3>1. pending[r] \in 1..(accepted[r] - counter[r]) BY <2>2 DEF Apply
    <3>2. counter' = [counter EXCEPT ![r] = @ + pending[r]] BY <2>2 DEF Apply
    <3>3. accepted' = accepted BY <2>2 DEF Apply, producers
    <3> QED BY <3>1, <3>2, <3>3 DEF Ledger!Publish
  <2>3. CASE UNCHANGED <<accepted, counter>> BY <2>3
  <2> QED
    BY <2>1, <2>2, <2>3
    DEF Next, Control, Record, Flusher, Ticker, Start, Stop, CloseStopCh,
        StopReturns, Begin, FlushTick, FlushStop, Drain, DrainEnd, FlushEnd,
        Tick, ReadRemote, UpdateWindow, TickerStop, vars, control, producers,
        flush, Ledger!Next
<1> QED
  BY <1>1, <1>2, LedgerInvariant, PTL DEF Spec, LedgerSpec, Ledger!Spec

-----------------------------------------------------------------------------
(* Stop.                                                                   *)

\* The producers past the started check.
Late == {p \in Producers : sending[p] # None}

\* Why the last flush leaves no more behind than the producers that overlap with
\* Stop can still send: started is cleared before stopCh closes, so nobody else
\* sends any more, and each of them sends once.
StopInv ==
  /\ stopCh => main \in {"waiting", "stopped"}
  /\ started <=> main = "running"
  /\ main = "new" => flusher = "off"
  /\ last => stopCh
  /\ flusher = "ended" => last
  /\ sending \in [Producers -> Remotes \cup {None}]
  /\ overlap \subseteq Producers
  /\ main \in {"stopping", "waiting", "stopped"} => Late \subseteq overlap
  /\ chLen \in Nat
  /\ last /\ flusher \in {"apply", "ended"} =>
       chLen + Cardinality(Late) <= Cardinality(overlap)
  /\ flusher = "ended" => pending = Zero
  /\ last => flusher \in {"drain", "apply", "ended"}

LEMMA StopInit == Init => StopInv
BY DEF Init, StopInv

\* A flush never gathers more remotes than there are.
LEMMA GatheredBound ==
  ASSUME IsFiniteSet(Remotes), Cardinality(Remotes) <= PendingCap
  PROVE  ~(Cardinality(Gathered) > PendingCap)
<1>1. Gathered \subseteq Remotes BY DEF Gathered
<1>2. IsFiniteSet(Gathered) /\ Cardinality(Gathered) <= Cardinality(Remotes)
  BY <1>1, FS_Subset
<1>3. Cardinality(Gathered) \in Nat /\ Cardinality(Remotes) \in Nat
  BY <1>2, FS_CardinalityType
<1> QED BY <1>2, <1>3, StatsStoreAssumption

LEMMA StopStep ==
  ASSUME IsFiniteSet(Remotes), Cardinality(Remotes) <= PendingCap, IsFiniteSet(Producers)
  PROVE  StopInv /\ LedgerInv /\ TypeOK' /\ [Next]_vars => StopInv'
<1> SUFFICES ASSUME StopInv, LedgerInv, chLen' \in Nat, [Next]_vars PROVE StopInv'
  BY DEF TypeOK
<1> USE DEF StopInv
<1>0. /\ IsFiniteSet(Late) /\ IsFiniteSet(overlap)
      /\ Cardinality(Late) \in Nat /\ Cardinality(overlap) \in Nat
      /\ Late \subseteq overlap => Cardinality(Late) <= Cardinality(overlap)
  <2>1. Late \subseteq Producers BY DEF Late
  <2>2. IsFiniteSet(Late) /\ IsFiniteSet(overlap) BY <2>1, FS_Subset
  <2> QED BY <2>2, FS_Subset, FS_CardinalityType
<1>00. sending' = sending => Late' = Late
  BY DEF Late
<1>1. CASE Start BY <1>00, <1>1 DEF Start, producers, channel
<1>2. CASE Stop
  <2>1. overlap' = Late /\ sending' = sending BY <1>2 DEF Stop, Late, producers
  <2>2. ~last BY <1>2 DEF Stop
  <2> QED BY <1>00, <1>2, <2>1, <2>2 DEF Stop, Late, producers, channel, flush
<1>3. CASE CloseStopCh BY <1>00, <1>3 DEF CloseStopCh, producers, channel, flush
<1>4. CASE StopReturns BY <1>00, <1>4 DEF StopReturns, producers, channel, flush
<1>5. ASSUME NEW p \in Producers, NEW r \in Remotes, Begin(p, r) PROVE StopInv'
  BY <1>5 DEF Begin, control, channel, flush
<1>6. ASSUME NEW p \in Producers, NEW r \in Remotes, Deliver(p, r)
      PROVE  StopInv'
  <2>1. p \in Late BY <1>6, StatsStoreAssumption DEF Deliver, Late
  <2>2. Late' = Late \ {p} BY <1>6 DEF Deliver, Late
  <2>3. Cardinality(Late') = Cardinality(Late) - 1
    BY <1>0, <2>1, <2>2, FS_RemoveElement
  <2>4. chLen' <= chLen + 1 BY <1>6 DEF Deliver, channel
  <2>5. sending' \in [Producers -> Remotes \cup {None}] BY <1>6 DEF Deliver
  <2>6. UNCHANGED <<control, flush>> BY <1>6 DEF Deliver
  <2>7. Late' \subseteq Late BY <2>2
  <2> QED BY <1>0, <2>3, <2>4, <2>5, <2>6, <2>7 DEF control, flush
<1>7. CASE FlushTick BY <1>00, <1>7 DEF FlushTick, control, producers, channel
<1>8. CASE FlushStop BY <1>00, <1>8 DEF FlushStop, control, producers, channel
<1>9. ASSUME NEW r \in Remotes, Drain(r) PROVE StopInv'
  BY <1>00, <1>9 DEF Drain, control, producers
<1>10. CASE DrainEnd
  <2>1. chLen = 0 BY <1>10, GatheredBound DEF DrainEnd
  <2>2. last => Late \subseteq overlap OBVIOUS
  <2> QED BY <1>0, <1>00, <1>10, <2>1, <2>2 DEF DrainEnd, control, producers, channel
<1>11. ASSUME NEW r \in Remotes, Apply(r) PROVE StopInv'
  BY <1>00, <1>11 DEF Apply, control, producers, channel
<1>12. CASE FlushEnd
  <2>1. pending = Zero
    BY <1>12 DEF FlushEnd, Gathered, Zero, LedgerInv, CountsOK, Counts
  <2> QED BY <1>00, <1>12, <2>1 DEF FlushEnd, control, producers, channel
<1>13. CASE UNCHANGED <<control, producers, channel, flush>>
  BY <1>00, <1>13 DEF control, producers, channel, flush
<1> QED
  BY <1>1, <1>2, <1>3, <1>4, <1>5, <1>6, <1>7, <1>8, <1>9, <1>10, <1>11,
     <1>12, <1>13
  DEF Next, Control, Record, Flusher, Ticker, Tick, ReadRemote, UpdateWindow,
      TickerStop, vars

-----------------------------------------------------------------------------
(* The window.  Its invariant compares what the ticker has added up with the *)
(* sum of the counters, and the length of the channel is the sum of its      *)
(* counts.  A sum is known by what it does, as a function of the set that is *)
(* summed over: one step of the store moves it at one remote, so that no     *)
(* induction over the remotes is needed, nor that they are finitely many.    *)

\* total[S] is the sum of f over the remotes of S.
Adds(total, f) ==
  /\ total \in [SUBSET Remotes -> Nat]
  /\ total[{}] = 0
  /\ \A S \in SUBSET Remotes : \A r \in S : total[S] = total[S \ {r}] + f[r]

\* What a change of n at remote r does to a sum over S.
Share(r, n, S) == IF r \in S THEN n ELSE 0

LEMMA AddsZero == Adds([S \in SUBSET Remotes |-> 0], Zero)
  BY DEF Adds, Zero

\* A sum follows its counts.
LEMMA AddsMoves ==
  ASSUME NEW f \in Counts, NEW total, Adds(total, f),
         NEW r \in Remotes, NEW n \in Int, f[r] + n \in Nat
  PROVE  \E moved : /\ Adds(moved, [f EXCEPT ![r] = @ + n])
                    /\ \A S \in SUBSET Remotes : moved[S] = total[S] + Share(r, n, S)
<1> DEFINE g == [f EXCEPT ![r] = @ + n]
           moved == [S \in SUBSET Remotes |-> total[S] + Share(r, n, S)]
<1>1. \A S \in SUBSET Remotes : moved[S] = total[S] + Share(r, n, S)
  OBVIOUS
<1>2. \A q \in Remotes : f[q] \in Nat /\ g[q] = f[q] + (IF q = r THEN n ELSE 0)
  BY DEF Counts
<1>3. \A S \in SUBSET Remotes : total[S] \in Nat
  BY DEF Adds
<1>4. moved \in [SUBSET Remotes -> Nat]
  <2> SUFFICES ASSUME NEW S \in SUBSET Remotes PROVE total[S] + Share(r, n, S) \in Nat
    OBVIOUS
  <2>1. CASE r \in S
    <3>1. total[S] = total[S \ {r}] + f[r] /\ S \ {r} \in SUBSET Remotes
      BY <2>1 DEF Adds
    <3>2. total[S \ {r}] \in Nat
      BY <1>3, <3>1
    <3>3. Share(r, n, S) = n
      BY <2>1 DEF Share
    <3>4. QED
      BY <1>2, <3>1, <3>2, <3>3
  <2>2. CASE r \notin S
    BY <1>3, <2>2 DEF Share
  <2>3. QED
    BY <2>1, <2>2
<1>5. moved[{}] = 0
  BY DEF Adds, Share
<1>6. ASSUME NEW S \in SUBSET Remotes, NEW q \in S
      PROVE  moved[S] = moved[S \ {q}] + g[q]
  <2>1. S \ {q} \in SUBSET Remotes /\ q \in Remotes
    OBVIOUS
  <2>2. moved[S] = total[S] + Share(r, n, S)
    BY <1>1
  <2>3. moved[S \ {q}] = total[S \ {q}] + Share(r, n, S \ {q})
    BY <1>1, <2>1
  <2>4. total[S] = total[S \ {q}] + f[q] /\ total[S \ {q}] \in Nat
    BY <1>3, <2>1 DEF Adds
  <2>5. Share(r, n, S) = Share(r, n, S \ {q}) + (IF q = r THEN n ELSE 0)
    BY DEF Share
  <2>6. Share(r, n, S \ {q}) \in Int
    BY DEF Share
  <2>7. QED
    BY <1>2, <2>1, <2>2, <2>3, <2>4, <2>5, <2>6
<1>7. Adds(moved, g)
  BY <1>4, <1>5, <1>6 DEF Adds
<1>8. QED
  BY <1>1, <1>7

\* len(updateCh) counts what is queued for all remotes together.
LengthIsSum == \E total : Adds(total, chan) /\ chLen = total[Remotes]

\* What the last window counted has not been lost: it is in what the ticker
\* has read by now and what it has still to read, and all of that is in the
\* counters.
Behind(total) ==
  /\ Adds(total, counter)
  /\ ticker = "reading" => /\ prevTotal <= agg + total[unread]
                           /\ agg + total[unread] <= total[Remotes]
  /\ ticker # "reading" => prevTotal <= total[Remotes]

WindowBehind == \E total : Behind(total)

WindowInv == TypeOK /\ LengthIsSum /\ WindowBehind /\ WindowNeverWraps

LEMMA WindowInit == Init => WindowInv
<1> SUFFICES ASSUME Init PROVE WindowInv
  OBVIOUS
<1>1. TypeOK
  <2>1. started \in BOOLEAN /\ stopCh \in BOOLEAN /\ overlap \subseteq Producers /\ last \in BOOLEAN
    BY Zenon DEF Init
  <2>2. QED
    BY <2>1, StatsStoreAssumption DEF Init, TypeOK, Counts, Zero
<1>2. LengthIsSum
  <2>1. [S \in SUBSET Remotes |-> 0][Remotes] = 0
    OBVIOUS
  <2>2. QED
    BY <2>1, AddsZero DEF Init, LengthIsSum
<1>3. WindowBehind
  <2>1. [S \in SUBSET Remotes |-> 0][Remotes] = 0
    OBVIOUS
  <2>2. QED
    BY <2>1, AddsZero DEF Init, WindowBehind, Behind
<1>4. QED
  BY <1>1, <1>2, <1>3 DEF Init, WindowInv, WindowNeverWraps

\* Steps that neither queue nor count nor read.
LEMMA WindowKept ==
  ASSUME WindowInv, TypeOK', UNCHANGED <<chan, chLen, counter, prevTotal, agg, unread, delta>>,
         ticker' = "reading" => ticker = "reading"
  PROVE  WindowInv'
<1>1. LengthIsSum'
  BY DEF WindowInv, LengthIsSum, Adds
<1>2. WindowBehind'
  <2>1. PICK total : Behind(total)
    BY DEF WindowInv, WindowBehind
  <2>2. total[unread] \in Nat /\ total[Remotes] \in Nat /\ agg \in Nat /\ prevTotal \in Nat
    BY <2>1 DEF WindowInv, TypeOK, Behind, Adds
  <2>3. Behind(total)'
    BY <2>1, <2>2 DEF Behind, Adds
  <2>4. QED
    BY <2>3 DEF WindowBehind
<1>3. QED
  BY <1>1, <1>2 DEF WindowInv, WindowNeverWraps

LEMMA DeliverKeeps ==
  ASSUME WindowInv, NEW p \in Producers, NEW r \in Remotes, Deliver(p, r)
  PROVE  WindowInv'
<1> USE DEF WindowInv
<1>1. UNCHANGED <<control, flush, window, records>>
  BY DEF Deliver
<1>2. CASE UNCHANGED <<channel, accepted>>
  <2>1. TypeOK'
    BY <1>1, <1>2 DEF Deliver, TypeOK, control, flush, window, channel
  <2>2. QED
    BY <1>1, <1>2, <2>1, WindowKept DEF flush, window, channel
<1>3. CASE /\ chLen < QueueCap
           /\ chan' = [chan EXCEPT ![r] = @ + 1] /\ chLen' = chLen + 1
           /\ accepted' = [accepted EXCEPT ![r] = @ + 1]
  <2>1. TypeOK'
    BY <1>1, <1>3, StatsStoreAssumption
    DEF Deliver, TypeOK, Counts, control, flush, window
  <2>2. PICK total : Adds(total, chan) /\ chLen = total[Remotes]
    BY DEF LengthIsSum
  <2>3. chan \in Counts /\ chan[r] + 1 \in Nat /\ 1 \in Int
    BY DEF TypeOK, Counts
  <2>4. PICK moved : /\ Adds(moved, [chan EXCEPT ![r] = @ + 1])
                     /\ \A S \in SUBSET Remotes : moved[S] = total[S] + Share(r, 1, S)
    <3> HIDE DEF WindowInv
    <3> QED BY <2>2, <2>3, AddsMoves
  <2>5. chLen' = moved[Remotes]
    BY <1>3, <2>2, <2>4 DEF Share
  <2>6. LengthIsSum'
    BY <1>3, <2>4, <2>5 DEF LengthIsSum, Adds
  <2>7. WindowBehind' /\ WindowNeverWraps'
    BY <1>1 DEF WindowBehind, Behind, WindowNeverWraps, Adds, flush, window
  <2>8. QED
    BY <2>1, <2>6, <2>7
<1>4. QED
  BY <1>2, <1>3 DEF Deliver

LEMMA DrainKeeps == ASSUME WindowInv, NEW r \in Remotes, Drain(r) PROVE WindowInv'
<1> USE DEF WindowInv
<1>1. PICK total : Adds(total, chan) /\ chLen = total[Remotes]
  BY DEF LengthIsSum
<1>2. chan \in Counts /\ chan[r] + (-1) \in Nat /\ chan[r] + (-1) = chan[r] - 1
  BY DEF Drain, TypeOK, Counts
<1>3. PICK moved : /\ Adds(moved, [chan EXCEPT ![r] = @ + (-1)])
                   /\ \A S \in SUBSET Remotes : moved[S] = total[S] + Share(r, -1, S)
  BY <1>1, <1>2, AddsMoves
<1>4. chan' = [chan EXCEPT ![r] = @ + (-1)]
  BY <1>2 DEF Drain
<1>5. chLen' = moved[Remotes] /\ moved[Remotes] \in Nat /\ chLen' <= chLen
  <2>1. moved[Remotes] = total[Remotes] + (-1)
    BY <1>3 DEF Share
  <2>2. moved[Remotes] \in Nat /\ total[Remotes] \in Nat
    BY <1>1, <1>3 DEF Adds
  <2>3. QED
    BY <1>1, <2>1, <2>2 DEF Drain
<1>6. TypeOK'
  BY <1>2, <1>4, <1>5, StatsStoreAssumption
  DEF Drain, TypeOK, Counts, control, producers, window
<1>7. LengthIsSum'
  BY <1>3, <1>4, <1>5 DEF LengthIsSum, Adds
<1>8. WindowBehind' /\ WindowNeverWraps'
  BY DEF Drain, WindowBehind, Behind, WindowNeverWraps, Adds, window
<1>9. QED
  BY <1>6, <1>7, <1>8

\* A flush adds to the counters while the ticker may be reading them: what it
\* has still to read grows no more than the whole.
LEMMA ApplyKeeps == ASSUME WindowInv, NEW r \in Remotes, Apply(r) PROVE WindowInv'
<1> USE DEF WindowInv
<1>1. PICK total : Behind(total)
  BY DEF WindowBehind
<1>2. pending[r] \in Nat /\ counter \in Counts /\ counter[r] + pending[r] \in Nat
  BY DEF TypeOK, Counts
<1>3. PICK moved :
        /\ Adds(moved, [counter EXCEPT ![r] = @ + pending[r]])
        /\ \A S \in SUBSET Remotes : moved[S] = total[S] + Share(r, pending[r], S)
  BY <1>1, <1>2, AddsMoves DEF Behind
<1>4. counter' = [counter EXCEPT ![r] = @ + pending[r]]
  BY DEF Apply
<1>5. TypeOK'
  BY <1>2, <1>4 DEF Apply, TypeOK, Counts, control, producers, channel, window
<1>6. /\ UNCHANGED <<ticker, unread, agg, prevTotal, delta, chan, chLen>>
      /\ agg \in Nat /\ prevTotal \in Nat /\ unread \in SUBSET Remotes
  BY DEF Apply, TypeOK, window, channel
<1>7. Behind(moved)'
  <2>1. Adds(moved, counter')
    BY <1>3, <1>4
  <2>2. total[unread] \in Nat /\ total[Remotes] \in Nat
    BY <1>1, <1>6 DEF Behind, Adds
  <2>3. /\ moved[Remotes] = total[Remotes] + pending[r]
        /\ moved[unread] = total[unread] + Share(r, pending[r], unread)
        /\ Share(r, pending[r], unread) \in 0..pending[r]
    BY <1>2, <1>3, <1>6 DEF Share
  <2>4. QED
    BY <1>1, <1>2, <1>6, <2>1, <2>2, <2>3 DEF Behind
<1>8. WindowBehind'
  BY <1>7 DEF WindowBehind
<1>9. LengthIsSum' /\ WindowNeverWraps'
  BY <1>6 DEF LengthIsSum, WindowNeverWraps, Adds
<1>10. QED
  BY <1>5, <1>8, <1>9

\* The ticker's own steps.
LEMMA TickerKeeps == ASSUME WindowInv, Ticker PROVE WindowInv'
<1> USE DEF WindowInv
<1>1. UNCHANGED <<control, producers, channel, flush>>
  BY DEF Ticker, Tick, ReadRemote, UpdateWindow, TickerStop
<1>2. LengthIsSum'
  BY <1>1 DEF LengthIsSum, Adds, channel
<1>3. PICK total : Behind(total)
  BY DEF WindowBehind
<1>4. \A S \in SUBSET Remotes : total[S] \in Nat
  BY <1>3 DEF Behind, Adds
<1>5. CASE Tick
  <2>1. TypeOK'
    BY <1>1, <1>5 DEF Tick, TypeOK, control, producers, channel, flush
  <2>2. prevTotal' <= agg' + total[unread'] /\ agg' + total[unread'] <= total[Remotes]
    BY <1>3, <1>4, <1>5 DEF Tick, TypeOK, Behind
  <2>3. WindowBehind' /\ WindowNeverWraps'
    <3>1. Behind(total)'
      BY <1>1, <1>3, <1>5, <2>2 DEF Tick, Behind, Adds, flush
    <3>2. QED
      BY <1>5, <3>1 DEF Tick, WindowBehind, WindowNeverWraps
  <2>4. QED
    BY <1>2, <2>1, <2>3
<1>6. ASSUME NEW r \in Remotes, ReadRemote(r) PROVE WindowInv'
  <2>1. TypeOK'
    BY <1>1, <1>6 DEF ReadRemote, TypeOK, Counts, control, producers, channel, flush
  <2>2. total[unread] = total[unread'] + counter[r] /\ unread' \in SUBSET Remotes
    BY <1>3, <1>6 DEF ReadRemote, TypeOK, Behind, Adds
  <2>3. agg' + total[unread'] = agg + total[unread]
    BY <1>4, <1>6, <2>2 DEF ReadRemote, TypeOK, Counts
  <2>4. WindowBehind' /\ WindowNeverWraps'
    <3>1. Behind(total)'
      BY <1>1, <1>3, <1>6, <2>3 DEF ReadRemote, Behind, Adds, flush
    <3>2. QED
      BY <1>6, <3>1 DEF ReadRemote, WindowBehind, WindowNeverWraps
  <2>5. QED
    BY <1>2, <2>1, <2>4
<1>7. CASE UpdateWindow
  <2>1. total[unread] = 0 /\ total[Remotes] \in Nat
    BY <1>3, <1>4, <1>7 DEF UpdateWindow, Behind, Adds
  <2>2. prevTotal <= agg /\ agg <= total[Remotes]
    BY <1>3, <1>7, <2>1 DEF UpdateWindow, TypeOK, Behind
  <2>3. TypeOK' /\ WindowNeverWraps'
    BY <1>1, <1>7, <2>2
    DEF UpdateWindow, TypeOK, WindowNeverWraps, control, producers, channel, flush
  <2>4. WindowBehind'
    <3>1. Behind(total)'
      BY <1>1, <1>3, <1>7, <2>2 DEF UpdateWindow, Behind, Adds, flush
    <3>2. QED
      BY <3>1 DEF WindowBehind
  <2>5. QED
    BY <1>2, <2>3, <2>4
<1>8. CASE TickerStop
  <2>1. TypeOK'
    BY <1>1, <1>8 DEF TickerStop, TypeOK, control, producers, channel, flush
  <2>2. QED
    BY <1>1, <1>8, <2>1, WindowKept DEF TickerStop, channel, flush
<1>9. QED
  BY <1>5, <1>6, <1>7, <1>8 DEF Ticker

LEMMA WindowStep == WindowInv /\ [Next]_vars => WindowInv'
<1> SUFFICES ASSUME WindowInv, [Next]_vars PROVE WindowInv'
  OBVIOUS
<1>1. CASE Control
  <2>1. UNCHANGED <<producers, channel, last, pending, counter, unread, agg, prevTotal, delta>>
    BY <1>1 DEF Control, Start, Stop, CloseStopCh, StopReturns, flush, window
  <2>2. TypeOK' /\ (ticker' = "reading" => ticker = "reading")
    <3>1. CASE Start
      <4>1. started' \in BOOLEAN /\ stopCh' \in BOOLEAN /\ overlap' \subseteq Producers
        <5>1. started' = TRUE /\ stopCh' = stopCh /\ overlap' = overlap
          BY <3>1 DEF Start
        <5> QED BY <5>1, Zenon DEF WindowInv, TypeOK
      <4>2. main' = "running" /\ flusher' = "wait" /\ ticker' = "wait"
        BY <3>1 DEF Start
      <4>3. QED
        BY <4>1, <4>2, <2>1 DEF WindowInv, TypeOK, producers, channel
    <3>2. CASE Stop \/ CloseStopCh \/ StopReturns
      <4>1. overlap' \subseteq Producers
        BY <3>2 DEF WindowInv, Stop, CloseStopCh, StopReturns, TypeOK
      <4> QED
        BY <3>2, <4>1, <2>1
        DEF WindowInv, Stop, CloseStopCh, StopReturns, TypeOK, producers, channel, flush, window
    <3>3. QED
      BY <1>1, <3>1, <3>2 DEF Control
  <2>3. QED
    BY <2>1, <2>2, WindowKept DEF channel
<1>2. ASSUME NEW p \in Producers, NEW r \in Remotes, Begin(p, r) PROVE WindowInv'
  <2>1. TypeOK'
    BY <1>2 DEF WindowInv, Begin, TypeOK, control, channel, flush, window
  <2>2. QED
    BY <1>2, <2>1, WindowKept DEF Begin, channel, flush, window
<1>3. CASE FlushTick \/ FlushStop \/ DrainEnd \/ FlushEnd
  <2>1. TypeOK'
    BY <1>3
    DEF WindowInv, FlushTick, FlushStop, DrainEnd, FlushEnd, TypeOK, control, producers,
        channel, window
  <2>2. QED
    BY <1>3, <2>1, WindowKept
    DEF FlushTick, FlushStop, DrainEnd, FlushEnd, channel, window
<1>4. CASE UNCHANGED vars
  <2>1. TypeOK'
    BY <1>4 DEF WindowInv, TypeOK, vars, control, producers, channel, flush, window
  <2>2. QED
    BY <1>4, <2>1, WindowKept DEF vars, channel, flush, window
<1>5. QED
  BY <1>1, <1>2, <1>3, <1>4, DeliverKeeps, DrainKeeps, ApplyKeeps, TickerKeeps
  DEF Next, Record, Flusher

LEMMA WindowInvariant == Spec => []WindowInv
  BY WindowInit, WindowStep, PTL DEF Spec

\* Every variable of the store keeps its type; the channel never holds more
\* than its capacity, and its length is what is queued in it.
THEOREM Typing == Spec => []TypeOK
<1>1. WindowInv => TypeOK
  BY DEF WindowInv
<1>2. QED
  BY <1>1, WindowInvariant, PTL

\* updateWindow's uint64 subtraction never wraps, however the flusher's
\* additions interleave with the ticker's reading of one remote after another.
THEOREM WindowsAreWhole == Spec => []WindowNeverWraps
<1>1. WindowInv => WindowNeverWraps
  BY DEF WindowInv
<1>2. QED
  BY <1>1, WindowInvariant, PTL

-----------------------------------------------------------------------------
(* What Stop leaves behind.                                                *)

\* FlushedOnStop: when the store's remotes fit in one flush (a few hundred
\* relays against 10000), what the flusher has not counted when it ends is in the
\* channel, and is at most one update of each producer that overlapped with Stop.
THEOREM StopLosesNothing ==
  ASSUME IsFiniteSet(Remotes), Cardinality(Remotes) <= PendingCap, IsFiniteSet(Producers)
  PROVE  Spec => []FlushedOnStop
<1>1. Init => StopInv BY StopInit
<1>2. StopInv /\ LedgerInv /\ TypeOK' /\ [Next]_vars => StopInv'
  BY StopStep
<1>3. StopInv /\ LedgerInv => FlushedOnStop
  <2> SUFFICES ASSUME StopInv, LedgerInv, flusher = "ended" PROVE FlushedOnStop
    BY DEF FlushedOnStop
  <2>1. IsFiniteSet(Late) /\ IsFiniteSet(overlap)
    <3>1. Late \subseteq Producers /\ overlap \subseteq Producers BY DEF Late, StopInv
    <3> QED BY <3>1, FS_Subset
  <2>2. Cardinality(Late) \in Nat /\ Cardinality(overlap) \in Nat
    BY <2>1, FS_CardinalityType
  <2>3. chLen <= Cardinality(overlap) BY <2>2 DEF StopInv
  <2>4. ASSUME NEW r \in Remotes PROVE counter[r] + chan[r] = accepted[r]
    <3>1. pending[r] = 0 BY DEF StopInv, Zero
    <3>2. chan[r] \in Nat /\ counter[r] \in Nat /\ chan[r] + pending[r] + counter[r] = accepted[r]
      BY DEF LedgerInv, Conserved, CountsOK, Counts
    <3> QED BY <3>1, <3>2
  <2> QED BY <2>3, <2>4 DEF FlushedOnStop
<1> QED BY <1>1, <1>2, <1>3, LedgerInvariant, Typing, PTL DEF Spec
=============================================================================
