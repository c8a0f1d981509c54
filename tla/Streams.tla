------------------------------- MODULE Streams --------------------------------
(***************************************************************************)
(* The event streams of the dashboard, from the store's broadcasts to the   *)
(* shutdown of the program.  serveStream writes a snapshot of its own, then *)
(* subscribes; runWindowTicker takes a snapshot every second and offers it  *)
(* to every subscriber, whose channel holds one.  A subscription ends when  *)
(* the request's context does, by a goroutine of its own, or when the store *)
(* stops.  cmd/serve.go stops the collector, then the store, then the HTTP  *)
(* server, which accepts new streams up to that moment and waits five       *)
(* seconds for the handlers that are under way.                             *)
(*                                                                         *)
(* Abstractions: a snapshot is the version of the statistics that it shows. *)
(* Handlers that can end are taken to do so within the five seconds.        *)
(***************************************************************************)
EXTENDS Integers

CONSTANTS
  Clients,    \* requests for the stream
  NoSnap,     \* an empty channel
  MaxVersion  \* bound: versions of the statistics

ASSUME StreamsAssumption == NoSnap \notin Nat /\ MaxVersion \in Nat

VARIABLES
  version,  \* what a snapshot taken now would show
  ticker,   \* runWindowTicker: wait, holds a snapshot, ended
  snap,     \* the snapshot it holds
  main,     \* cmd/serve.go
  subs,     \* InMemoryStore.subs
  slot,     \* the snapshot in the channel of each subscriber
  closes,   \* how often the channel was closed
  watcher,  \* the goroutine of Subscribe: none, waits, closes, ended
  ended,    \* the context of the request has ended
  stream,   \* serveStream: new, shot, reading, stalled, over
  shown,    \* the version it wrote last
  late      \* history: it subscribed after the store had stopped

storeVars == <<version, ticker, snap>>
subVars == <<subs, slot, closes, watcher>>
clientVars == <<ended, stream, shown, late>>
streamVars == <<storeVars, main, subVars, clientVars>>

Snaps == 0..MaxVersion
Phases == {"running", "collector", "store", "swept", "shutdown", "exited"}

StreamsTypeOK ==
  /\ version \in Snaps /\ snap \in Snaps
  /\ ticker \in {"wait", "holds", "ended"}
  /\ main \in Phases
  /\ subs \subseteq Clients
  /\ slot \in [Clients -> Snaps \cup {NoSnap}]
  /\ closes \in [Clients -> Nat]
  /\ watcher \in [Clients -> {"none", "waits", "closes", "ended"}]
  /\ ended \in [Clients -> BOOLEAN]
  /\ stream \in [Clients -> {"new", "shot", "reading", "stalled", "over"}]
  /\ shown \in [Clients -> Snaps]
  /\ late \in [Clients -> BOOLEAN]

StreamsInit ==
  /\ version = 0 /\ ticker = "wait" /\ snap = 0
  /\ main = "running"
  /\ subs = {} /\ slot = [c \in Clients |-> NoSnap]
  /\ closes = [c \in Clients |-> 0] /\ watcher = [c \in Clients |-> "none"]
  /\ ended = [c \in Clients |-> FALSE] /\ stream = [c \in Clients |-> "new"]
  /\ shown = [c \in Clients |-> 0]
  /\ late = [c \in Clients |-> FALSE]

-----------------------------------------------------------------------------
(* The store.                                                              *)

Stopping == main \notin {"running", "collector"}

\* The flusher or the health checker changes something.
StatsChange ==
  /\ version < MaxVersion
  /\ version' = version + 1
  /\ UNCHANGED <<ticker, snap, main, subVars, clientVars>>

\* Mutant: the snapshot of the last tick is broadcast.
MutTakeSnapshot ==
  /\ ticker = "wait"
  /\ ticker' = "holds" /\ UNCHANGED <<snap, version, main, subVars, clientVars>>

TakeSnapshot ==
  /\ ticker = "wait"
  /\ ticker' = "holds" /\ snap' = version
  /\ UNCHANGED <<version, main, subVars, clientVars>>

\* Under subMu: a full channel keeps what it has.
Broadcast ==
  /\ ticker = "holds"
  /\ slot' = [c \in Clients |-> IF c \in subs /\ slot[c] = NoSnap THEN snap ELSE slot[c]]
  /\ ticker' = "wait"
  /\ UNCHANGED <<version, snap, main, subs, closes, watcher, clientVars>>

TickerEnds ==
  /\ ticker = "wait" /\ Stopping
  /\ ticker' = "ended"
  /\ UNCHANGED <<version, snap, main, subVars, clientVars>>

\* Mutant: the channel is closed without sync.Once.
MutClose(cs) == closes' = [c \in Clients |-> IF c \in cs THEN closes[c] + 1 ELSE closes[c]]

\* subscriber.done.Do(close).
Close(cs) ==
  closes' = [c \in Clients |-> IF c \in cs /\ closes[c] = 0 THEN 1 ELSE closes[c]]

-----------------------------------------------------------------------------
(* A stream.                                                               *)

\* serveStream up to its first flush.
Open(c) ==
  /\ stream[c] = "new" /\ main \notin {"shutdown", "exited"}
  /\ stream' = [stream EXCEPT ![c] = "shot"]
  /\ shown' = [shown EXCEPT ![c] = version]
  /\ UNCHANGED <<storeVars, main, subVars, ended, late>>

Subscribe(c) ==
  /\ stream[c] = "shot"
  /\ stream' = [stream EXCEPT ![c] = "reading"]
  /\ subs' = subs \cup {c}
  /\ watcher' = [watcher EXCEPT ![c] = "waits"]
  /\ late' = [late EXCEPT ![c] = main \in {"swept", "shutdown"}]
  /\ UNCHANGED <<storeVars, main, slot, closes, ended, shown>>

\* A snapshot is received and written.
Receive(c) ==
  /\ stream[c] = "reading" /\ slot[c] # NoSnap
  /\ shown' = [shown EXCEPT ![c] = slot[c]]
  /\ slot' = [slot EXCEPT ![c] = NoSnap]
  /\ UNCHANGED <<storeVars, main, subs, closes, watcher, ended, stream, late>>

\* The client reads no more, and the write of a snapshot blocks.
Stall(c) ==
  /\ stream[c] = "reading" /\ slot[c] # NoSnap
  /\ stream' = [stream EXCEPT ![c] = "stalled"]
  /\ slot' = [slot EXCEPT ![c] = NoSnap]
  /\ UNCHANGED <<storeVars, main, subs, closes, watcher, ended, shown, late>>

\* The handler returns, and net/http ends the context of the request.  What is
\* remembered of the stream for the properties is forgotten.
StreamOver(c) ==
  /\ stream' = [stream EXCEPT ![c] = "over"]
  /\ ended' = [ended EXCEPT ![c] = TRUE]
  /\ shown' = [shown EXCEPT ![c] = 0] /\ late' = [late EXCEPT ![c] = FALSE]
  /\ UNCHANGED <<storeVars, main, subVars>>

\* A write fails: the client is gone, or WriteTimeout (60 s) has passed.
StreamBreaks(c) ==
  /\ \/ stream[c] \in {"shot", "stalled"}
     \/ stream[c] = "reading" /\ slot[c] # NoSnap
  /\ StreamOver(c)

\* The range loop ends with the channel.
ChannelClosed(c) ==
  /\ stream[c] = "reading" /\ slot[c] = NoSnap /\ closes[c] > 0
  /\ StreamOver(c)

\* External: net/http sees that the client has left.
ClientLeaves(c) ==
  /\ stream[c] \notin {"new", "over"} /\ ~ended[c]
  /\ ended' = [ended EXCEPT ![c] = TRUE]
  /\ UNCHANGED <<storeVars, main, subVars, stream, shown, late>>

\* unsubscribe: the deletion under the lock, the close after it.
Unsubscribe(c) ==
  /\ watcher[c] = "waits" /\ ended[c]
  /\ watcher' = [watcher EXCEPT ![c] = "closes"]
  /\ subs' = subs \ {c}
  /\ UNCHANGED <<storeVars, main, slot, closes, clientVars>>

CloseChannel(c) ==
  /\ watcher[c] = "closes"
  /\ watcher' = [watcher EXCEPT ![c] = "ended"]
  /\ Close({c})
  /\ UNCHANGED <<storeVars, main, subs, slot, clientVars>>

-----------------------------------------------------------------------------
(* The end of the program.                                                 *)

Phase(from, to) ==
  /\ main = from /\ main' = to
  /\ UNCHANGED <<storeVars, clientVars>>

Signal == Phase("running", "collector") /\ UNCHANGED subVars

\* Collector.Stop returns, after ten seconds at the latest; InMemoryStore.Stop
\* closes stopCh.
CollectorStops == Phase("collector", "store") /\ UNCHANGED subVars

\* Mutant: the subscribers are forgotten, not told.
MutSweep ==
  /\ Phase("store", "swept")
  /\ subs' = {}
  /\ UNCHANGED <<slot, closes, watcher>>

\* The goroutines of the store have ended, or ten seconds have passed: Stop
\* closes all channels under subMu.
Sweep ==
  /\ Phase("store", "swept")
  /\ Close(subs) /\ subs' = {}
  /\ UNCHANGED <<slot, watcher>>

Shutdown == Phase("swept", "shutdown") /\ UNCHANGED subVars

Active == {c \in Clients : stream[c] \in {"shot", "reading", "stalled"}}

\* A handler that nothing tells to end.
Stuck(c) ==
  \/ stream[c] = "stalled"
  \/ stream[c] = "reading" /\ closes[c] = 0 /\ watcher[c] = "waits" /\ ~ended[c]

AllEnd == Active = {} /\ Phase("shutdown", "exited") /\ UNCHANGED subVars

\* Mutant: Shutdown waits for as long as it takes.
MutTimeIsUp == FALSE /\ Phase("shutdown", "exited") /\ UNCHANGED subVars

\* shutdownCtx: five seconds.
TimeIsUp ==
  /\ Active # {} /\ \A c \in Active : Stuck(c)
  /\ Phase("shutdown", "exited") /\ UNCHANGED subVars

-----------------------------------------------------------------------------
Ticking == TakeSnapshot \/ Broadcast \/ TickerEnds
Serving(c) == Subscribe(c) \/ Receive(c) \/ ChannelClosed(c)
Watching(c) == Unsubscribe(c) \/ CloseChannel(c)
Stop == CollectorStops \/ Sweep \/ Shutdown \/ AllEnd \/ TimeIsUp

StreamsNext ==
  /\ main # "exited"
  /\ \/ StatsChange \/ Ticking \/ Signal \/ Stop
     \/ \E c \in Clients :
          \/ Open(c) \/ Serving(c) \/ Watching(c)
          \/ Stall(c) \/ StreamBreaks(c) \/ ClientLeaves(c)

\* Goroutines run, the ticker ticks and timeouts come; clients, statistics and
\* signals need not.
StreamsFairness ==
  /\ WF_streamVars(main # "exited" /\ Ticking)
  /\ WF_streamVars(Stop)
  /\ \A c \in Clients : /\ WF_streamVars(main # "exited" /\ Serving(c))
                        /\ WF_streamVars(main # "exited" /\ Watching(c))

StreamsSpec == StreamsInit /\ [][StreamsNext]_streamVars /\ StreamsFairness

-----------------------------------------------------------------------------
(* Properties.                                                             *)

\* Nothing is ever sent on a closed channel, nor a channel closed twice, in
\* any order of broadcasts, contexts that end and Stop: either would end the
\* process with a panic.
NoPanic == \A c \in Clients : closes[c] <= 1 /\ (c \in subs => closes[c] = 0)

\* Every stream that subscribed before the store stopped is told to end, so
\* that the program cuts off only late ones and those with a stalled client.
OnlyLateCutOff ==
  main = "exited" => \A c \in Active : late[c] \/ stream[c] = "stalled"

\* The program ends after a signal, also with streams that nobody will close.
ShutdownEnds == main # "running" ~> main = "exited"

\* A stream comes to show the newest statistics, whatever was dropped on the
\* way, unless it ends or stalls or the program stops.
NewestShown ==
  \A c \in Clients :
    stream[c] = "reading" /\ version = MaxVersion
      ~> shown[c] = MaxVersion \/ stream[c] # "reading" \/ main # "running"
=============================================================================
