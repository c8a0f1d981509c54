# TLA+ verification of mulprox

mulprox is an HTTP and SOCKS5 proxy that sends every request through one of
Mullvad's SOCKS5 relays. It picks a relay per request (by filter, by seed or at
random), avoids relays that its health checker or its circuit breaker hold to be
offline, retries on another relay, and keeps statistics. Line numbers below are
those of the repository this directory sits beside (`src/`).

## 1. Inventory

| Component | Code | State | Operations | Interacts with |
|---|---|---|---|---|
| Relay health | `internal/stats/stats.go` (Collector), `types.go` | `RemoteStats.Health`, `LastUsed` per relay; probes in flight | periodic round, fast check at startup, strike, flush of a result | Stats store (its channel), proxy handler (strikes, `PeekHealth`) |
| Stats store | `internal/stats/stats.go` (InMemoryStore) | `updateCh`, pending map, counters, window totals, `started`, `stopCh` | record, flush, window tick, start, stop | everything that records |
| Relay selection | `proxy/handler.go` 570-657, `mullvad.go` 98-245 | per attempt: scan, fallback, address; cached list and addresses | pick a relay, resolve it | CONNECT and HTTP handlers, Relay health, relay list and DNS |
| Broadcast | `stats.go` 120-176, 431-488, `dashboard/handler.go` 60-96 | subscribers, their one-slot channels | subscribe, unsubscribe, broadcast, stop | Stats store's ticker, dashboard streams |
| Tunnel | `internal/util/tunnel.go` | two copy goroutines, byte counts, deadlines | copy, report, close | CONNECT and SOCKS5 handlers, Stats store |
| CONNECT handler | `proxy/handler.go` 402-568 | per request: attempt, excluded set, chosen relay | dial, strike, reselect, answer, tunnel | Relay selection, Relay health, Tunnel |
| HTTP handler | `proxy/handler.go` 131-400, 678-756 | per request: attempt, excluded set, replayable body; transport cache | round trip, retry, strike, respond | Relay selection, Relay health, LRU cache |
| LRU cache | `internal/util/lrucache.go` | map of entries, recency list | Get, Set, Delete, Clear, eviction callback | transport cache |
| Relay list and DNS | `internal/mullvad/mullvad.go` | cached list, resolver cache | fetch (single flight), refresh, filter, resolve | all pickers |
| Filter and auth | `mullvad.go`, `proxy/auth_parser.go` | none (pure) | filter, seed pick, parse | pickers |
| SOCKS5 server | `internal/socks5/server.go` | connections, semaphore | accept, handshake, connect, tunnel | relay list, Tunnel |
| Lifecycle | `cmd/serve.go`, `Collector.Start/Stop` | goroutines, contexts | start, signal, stop order | all |
| Readiness, dashboard, CLI | `internal/health`, `internal/dashboard`, `cmd` | none | render | Stats store |

The hard behaviours are concurrency without a common lock: a probe's result is
computed from counters read seconds before it overwrites the record; the flusher
applies updates up to 200ms later; Stop races with producers; two copy
goroutines and a ticker share byte counters without synchronisation; caches are
read and written in two critical sections.

What makes each component correct, in a line:

- Relay health: no dead relay is offered, no live one is lost, whatever order
  strikes, probes and flushes take; both recover.
- Stats store: an update is counted once or not at all; Stop loses only what
  producers send that it overlaps with.
- Tunnel: no byte counted twice, none lost by teardown; it ends and closes all.
- Relay selection: a live relay before a dead one; never one that just failed.
- CONNECT, HTTP: no relay twice, only guilty relays struck, bodies replayed whole.
- LRU cache: map and list agree; an evicted value is closed once.
- Broadcast: no send on a closed channel; every subscriber's channel closes; the
  newest snapshot is shown in the end.
- Relay list and DNS: fetches do not overlap, all who wait are told; no address
  outlives the limits of cache and query.
- Filter and auth: the parser reads what the string says; a request leaves the
  base filter only where it names something outside it.
- SOCKS5 server: slots bound the open connections and are returned; no exit of a
  handler leaks; who waits for a slot is served.
- Lifecycle: what requests record during shutdown is kept; stop ends in time.

## 2. Plan

Done, in the order of importance:

1. `RelayHealth`, `RelayHealthProofs`: who is online, and why.
2. `StatsStore`, which implements `StatsLedger`; `StatsStoreProofs`.
3. `Tunnel`: byte accounting and teardown.
4. `RelaySelection`, `Connect`, with proofs: the retry loop of CONNECT.
5. `HttpProxy`, with proofs: the retry loop of plain HTTP, replay of bodies.
6. `ProxyHandler`, which composes 4 and 5 under `ServeHTTP` and adds the
   `direct://` upstream; `ProxyHandlerProofs` lifts their theorems. `Failover` is
   what it promises of a request, and all three implement it.
7. `RelayLookup`, `LruCache`, `RelayFilter`: what requests share on the way to a
   relay; `SharedCachesProofs`.
8. `Streams`, `Socks5Server`: what runs until someone leaves; `ServersProofs`, with
   the theorems about `Tunnel`.

Left, in order: several requests over `RelayHealth` in place of the free standings
of `RelaySelection`, composed with what `OneRelayAtATime` says of them; the
connections of a transport as state (`handler.go:700`); `Delete` and `Clear` of the
LRU cache, which need the links of `container/list`; the window's ring.

Disagreements met while modelling whose runs are still to be written:

- `stats.go:767`: fail, success takes a relay offline without two failures in a
  row (README.md:108, "Offline after 2 fails").
- `stats.go:617`: a failing probe that had read its counters before two strikes
  puts the relay back online when its result is flushed.
- `stats.go:712`: `CheckHealthOne` returns a relay that failed its first probe.
- `stats.go:613`: an online relay that is idle is never probed again
  (README.md:108, "probes all servers every 30s").
- `tunnel.go:85`: bytes read between the two loads of a count are not recorded.
- `handler.go:207`: with a filter of one or two relays, HTTP requests that fail
  never strike a relay, because the last attempt ends with no relay at all.
- `mullvad.go:479`: a seed picks from the relays that are healthy at the moment
  (README.md:34, "deterministic").

Further exposures of the code that no property covers: strings written without
the lock the readers hold (`stats.go:325`, `stats.go:425`); Start after Stop
(`stats.go:124`, which the program never does); `Clear` under a concurrent `Get`
(`lrucache.go:115`, never called); `WriteTimeout` ending event streams
(`serve.go:115`); a misspelt SOCKS5 user name that is taken as no filter
(`server.go:286`, as its comment says); a shutdown that does not close the SOCKS5
listener (`serve.go:145`).

## 3. What is modelled, and how it corresponds to the code

### RelayHealth

The record `health[r]` is `RemoteStats.Health`, its times reduced to what is
tested of them. Two parties write it. A request strikes it under its lock
(`Strike`, `RecordRemoteFailure`). A checker takes four steps: `ReadCounters`
under the lock, `Ping` with no lock for as long as the probe lasts, `Collect` or
`FastReport` into `updateCh`, and the flusher's `ApplyHealth`, which overwrites
the record. `StartRound`, `Admit` and `Skippable` are `checkHealth` and
`skipHealthCheck`; `StartFast` is `CheckHealthOne`. The flusher is one goroutine:
`FlushTick`, `Drain` (one update, the last of a kind wins), `DrainEnd`, then for
each remote `ApplyUse` and `ApplyHealth`, two critical sections. `Send` drops when
the channel is full. `Settle` is no code: it fixes what the liveness properties
need, that requests and outages stop.

### StatsStore and StatsLedger

`Begin` loads `started`; `Deliver` is the select of `sendNonBlocking`, any time
later. The channel is a count per remote, because additive updates commute. The
flusher drains one update at a time and adds remote by remote; the ticker sums
remote by remote (`ReadRemote`) while it does. `Stop`, `CloseStopCh`,
`StopReturns` are the three steps of Stop; `overlap` is the producers that `Stop`
finds between `Begin` and `Deliver`. `StatsLedger` is the promise: an
accepted update becomes visible once or never, counters never go back.
`StatsStore` implements it with `visible <- counter`.

### Tunnel

Each copier reads (the bytes are counted before they are written), writes, and at
its end closes the connection it writes to. The loop loads each count twice in a
tick: in `Report`, for the difference it gives to `RecordBytes`, and in `Rebase`,
for the new base, with the copiers running in between. Deadlines are one flag,
which only `Rebase` clears; `Expire` sets it at any moment, since a byte may have come
that no tick has seen yet.

### RelaySelection, Connect, HttpProxy, ProxyHandler

`RelaySelection` is one call of `resolveSOCKS5`, and of `ResolveRelayAddr` after
it: `Select` is the call; `ListArrives`/`ListFails` are `FetchMullvadList`, which
needs a live context unless the list is fresh; `Peek` is one `PeekHealth`;
`PickHealthy` is `GetFilteredServerWithHealth`, whose error only sends the code to
the fallback (`NoneHealthy`, second list, second scan, `PickFallback`, `NoneLeft`);
`AddressArrives`/`AddressFails` need a live context unless the name is cached.
The relays that match the filter are the constant `Relays`, so a request with an
invalid `Proxy-Authorization` header is one whose list fails; the seeded pick is
one of the picks of `Pick`. Everything else in the program is the action
`Elsewhere`, which may change a standing, the list or a cached address between
any two steps: this stands for any number of other requests, for both checkers
and for the refresher. It keeps one promise, that a step changes one standing at
most and never to unknown, which is theorem `OneRelayAtATime` of
`RelayHealthProofs`: no step of probes, strikes and flusher goes beyond what
`Elsewhere` allows in what `PeekHealth` says.

`Connect` is `handleConnect`: selection before the hijack, then attempts that dial,
on failure strike, cancel the context, exclude the relay, select again with the
cancelled context, and count. `remote` and `last` are `remoteID` and
`lastRemoteID`, which part when a selection fails. `Answer` ends in `Tunnel` or
closes both sides. `HttpProxy` is `proxyHTTP` with `roundTrip`: the transport is in
the cache or is made with the relay's address (the only place where an address is
needed), `AttemptFails` is the loop's decision, `Respond` is `logAndRespond`. The
errors are a class each: what `isRetryable` and `isRelayFailure` accept, or not.
The types of errors come from `net/http` and `golang.org/x/net/proxy`, which are
not in the repository; those definitions are marked external. The store is present,
as in `cmd/serve.go`.

`ProxyHandler` is `ServeHTTP`: `Dispatch` sends a request to one of the two modules,
which are instantiated with the same variables, or to the `direct://` upstream:
`handleConnectDirect` (`DirectDialFails` dials the same address again, up to three
times) and the first branch of `roundTrip` under `proxyHTTP`'s loop, which excludes
the upstream and uses it all the same.

`Failover` is the promise, without selections, contexts, transports or bodies: a
request goes to one relay after another, to none twice, for at most
`MaxRetries` failures; relays are struck once each and are not sent the request
after; the statistics hear of the end, once. `Connect` implements it with
`sent <- dials`, and `FailedAttempts` as its failures, which counts an attempt
when its dial fails, before the reselection that may end it; `HttpProxy` with
`sent <- tried` and `failures <- attempt`; `ProxyHandler` with the one or the
other, and with nothing that moves on the other routes.

### RelayLookup

`CachedList`/`StaleList` are the look under the read lock; `StartFetch` and
`JoinFetch` are `singleflight`, later and without another look; `ApiAnswers` and
`FetchSucceeds` part the answer from its storing. A fetch runs with the context of
the caller that started it, so `FetchFails` may strike all who joined.
`CachedAddress`, `Ask`, `DnsAnswers`, `TryAgain`, `QuerySucceeds` and `QueryFails` are
`ResolveRelayAddr` with `resolveDoH`, `Refresh` is `refreshDNSCache`. Time is in
ticks; an address is known by its age since the server gave it, an entry by its age
since it was stored, and the two part when a slow answer replaces a newer one.

### LruCache

`Get` is three steps (`Lookup`, `Touch`, `ReadValue`), since it takes two locks and
then none; a Set is one (`Overwrite`, `Insert` or `InsertFull`). A user that misses may
fail to make its value and go without a Set (`NoDialer`). The list is a set
with, for each element, those in front of it; `MoveToFront` ignores an element
that has left, as `container/list` does.

### RelayFilter

`ParsePart` is the body of `ParseProxyAuth`'s loop, `parser` its variables, `TypePart` a
turn of it over a part that it appends to the string, so that the parser has
always read the whole string. `ApplyTo` and `FilterBy` are the functions of those
names. The reference definition beside it looks at the whole string at once
(`CountsFor`, `Giving`, `Readable`). Case is left out, and a number or a Boolean is
known by its text. A part without `=` (`Keyless`) continues the last key; a part
that starts with it has an empty key (`NoKey`), which is refused.

### Streams

`TakeSnapshot` and `Broadcast` are the two halves of a window tick; `Open`,
`Subscribe`, `Receive`, `Stall`, `StreamBreaks`, `ChannelClosed` are `serveStream`;
`Unsubscribe` and `CloseChannel` the goroutine of `Subscribe`, whose close comes after
the lock. `Signal` to `AllEnd`/`TimeIsUp` is the end of `cmd/serve.go`: collector,
store (`Sweep` closes what is subscribed), then `Shutdown`, until which new streams
are accepted. `Close` is `sync.Once`.

### Socks5Server

`Accept`, `Admit` (the send to `sem`) and `Free` are `Serve`; a connection's handler goes
through the stages of `handleConn`, with an action for each way out. `LookupHangs`
and `DialHangs` are the two waits without a deadline, on a DNS answer that is not
asked for over HTTPS and on a relay that has taken the connection.

### Side by side

`RelayLookup`, `LruCache` and `RelayFilter` share no state, nor do `Tunnel`, `Streams`
and `Socks5Server`. `MCSharedCaches` and `MCServers` explore each group in one run:
one component moves, the others rest where they can do nothing. That is the union
of their state spaces, not the product.

Histories (`blamed`, `accepted`, `overlap`, `written`, `reported`, `dials`, `tried`,
`strikes`, `faulty`, `alwaysUp`, `everUp`, `began`, `given`, `late`, `overwritten`) are written and never read by an action.

## 4. The runs

| Run | Instance | Shows |
|---|---|---|
| RelayHealthSafety | one relay, both checkers, channel of 1 | stored records are sound, nobody is offline without a failure, a checked relay stays known |
| RelayHealthLive | thresholds of the code, periodic round | a live relay comes back for good, a dead one goes for good |
| RelayHealthBack | probes alone | *violation*: back online after 2 successes, not 3 |
| RelayHealthStrike | as Safety, thresholds of the code | *violation*: a failing request puts a relay online |
| StatsStore | 2 remotes, 2 producers, channel 2, flush cap 2, 4 records | the ledger is implemented, Stop loses one update at most per producer it overlaps with, the window never wraps; updates arrive; Stop needs no timeout |
| ProxyHandlerSafety | 2 relays, 3 attempts, outages, every route and body | no relay twice, strikes earned, every end accounted, live before dead, one blamed, bodies whole; `Failover` is implemented |
| ConnectRefusal | 2 relays | *violation*: a target that refuses strikes the relay |
| ConnectRetries | 3 relays, no outages | *violation*: attempts that dial no relay |
| HttpProxyLeaving | 2 relays, no outages | *violation*: a client that leaves strikes a relay |
| SharedCaches | 2 callers and the refresher, entries of 2 ticks, queries of 1; 2 users, 3 keys, 2 places, 5 Sets; strings of 3 parts, 3 base filters, 4 relays | fetches shared, addresses recent; map and list agree, values were cached, none lost; the parser agrees, filters widen by name only |
| Servers | 2 bytes each way; 2 streams, 2 versions; 3 connections, 1 slot | tunnel accounting, delivery, teardown; no panic, late cut-offs only, newest shown, shutdown ends; connections bounded, handlers account, who waits is served |
| RelayFilterBase | strings of 3 parts | *violation*: a request leaves the base filter |

Bounds, and why they are enough:

- One relay in RelayHealth: relays share only the channel and the flush, and a
  channel of one already drops and delays any update; the theorems hold for any
  set of relays. `CountCap` saturates counters above every threshold. Safety uses
  a healthy threshold of 2 to keep the two checkers and all strikes in reach; the
  other runs use 3.
- `QueueCap` and `MaxRecords` are small so that the channel is full at times: 4
  records overflow a channel of 2. It is 2, so that the one update that an
  overlapping producer may leave behind is fewer than the channel holds. The
  remotes fit in one flush, as they do in the program, whose cap is
  10000. Since producers are bounded, the run does not show a
  drain that never ends (a hazard listed for `stats.go:225`).
- 2 bytes give every split of reads, and reads between the two loads.
- Two relays and three attempts let every attempt name a different relay and let a
  request run out of relays; a third relay adds only larger sets to choose from,
  and the theorems hold for any number.
- `MaxVersion` of `RelayLookup` is 2, an old list and a new one; entries of two ticks
  and queries of one let an answer be older than an entry that it replaces.
- Three keys for two places make evictions, two users make every interleaving of a
  Get with Sets, five Sets allow an eviction of what was overwritten before.
- Three parts suffice for a key, a part without a value and a continuation.
- Two streams let one stall while the other subscribes late; one change of the
  statistics is what a stream can miss. One slot and three connections have one
  served, one held by `Serve` and one in the kernel's queue.
- `Outages` is FALSE in the runs that show a disagreement, so the fault is never
  the network's. In the passing runs it is TRUE.

Deadlock is checked for RelayHealth, which never stops. Stores, tunnels,
requests, streams, connections and bounded inputs end, and their runs say so.
Symmetry is used only in runs of invariants and of `FailsOver`, a refinement
without fairness whose every step treats the relays alike.

Fairness. RelayHealth: flusher, round starter and workers are goroutines with
timeouts; a drain that repeatedly finds the channel empty ends (strong fairness:
rounds leave seconds between results). StatsStore: flusher and ticker run, and
`select` with two ready channels picks either, so `stopCh` is not passed over for
ever. Tunnel: copiers, loop and clock advance, and a peer that stays connected
takes what is written to it; the code has no write deadline, so this is an
assumption on peers and listed as a hazard. Streams: goroutines run, the ticker
ticks, timeouts come; clients need not read, leave or come. Socks5Server: `Serve`
and handlers run, and what has a deadline or a context ends; a client that says
nothing meets its deadline, while a hung peer may stay hung and a tunnel may
last, and `WaitingServed` excepts the slots they hold. No request, peer, outage or
signal is ever assumed to happen. The proxy handlers have no liveness property:
their loop is bounded, but `Dial` waits for a silent relay without a deadline
(`handler.go:474`). RelayLookup has none either: a caller's steps depend on the
peers' answers and their time limits.

## 5. What is proved

TLAPS checks the following for all values of the constants, from the assumptions
named in the modules (positive thresholds and capacities, `CountCap` above the
thresholds, `NoRelay` and `None` outside their sets).

- `RelayHealthProofs`: `Typing`, `Soundness`, `NoRelayLostForNothing`,
  `ChecksAreRemembered`, `OneRelayAtATime`. The two invariants are not inductive: a record reaches
  the store through a probe, the channel and the pending map, so `IInv` has a part
  for each of these stations, saying what the store will need of the record. A
  probe keeps counters that were sound when read, and `PingFacts` and `StruckFacts`
  show that both writers make sound records of them; a relay that was never blamed
  has no failures at any station.
- `StatsStoreProofs`: `ImplementsLedger`, from the conservation of updates (channel,
  pending and counter add up to what was accepted); `StopLosesNothing`, when the
  remotes fit in one flush and the producers are finitely many, from the order of
  Stop: `started` is cleared before `stopCh` closes, so once the last drain has found
  the channel empty only the producers that Stop overlapped with can send, once
  each. What is in the channel and those that have yet to send are together no more
  than those it overlapped with.
  `WindowsAreWhole`: what the last window counted is at most what the ticker has read
  by now and has still to read together, and that is in the counters. A sum over
  remotes is known by what it does, as a function of the set summed over (`Adds`);
  a step of the store moves it at one remote (`AddsMoves`), which takes no induction
  over the remotes. `Typing` bounds the channel's length in the same way.
- `RelaySelectionProofs`: the selection's invariant. During a scan, a relay up all
  along is still to be peeked at or already found, and what was found was up at
  some time. Each lemma covers one kind of step; the handlers reuse them.
- `ConnectProofs`, from: every relay dialled is excluded but the one that was
  reached, and the relay about to be dialled is not excluded. `HttpProxyProofs`, from
  the same two facts and: nobody is struck while the request is under way, and a
  buffered body's reader stands at its beginning.
- `ProxyHandlerProofs`: `NoRelayDialledTwice`, `StrikesAreEarned`, `Accounted`,
  `NoRelayTriedTwice`, `BlameIsSingle`, `BodyIsReplayed`, `LivePreferred`, `Typing`: on
  its route a request steps as that module does, so the inductive invariants of
  the two modules hold there; the direct routes have one of their own.
- `ImplementsFailover`, in the last three modules: each action is mapped to a step of
  `Failover` or to a stutter. The invariants supply what `Failover`'s guards ask: the
  relay about to be dialled is not excluded, hence never sent or struck, and the
  attempt number is below the limit until the last failure. `ProxyHandler`'s theorem
  follows from the other two on their routes.
- `SharedCachesProofs`: `FetchIsShared`, from: there is one flight at most, and those
  who wait are those it will tell. `AddressIsRecent`, from: an answer is no older
  than its query, an entry no older than the limit of a query and its own age.
  `MapIsList`, `ReturnedIsCached`, `NoTransportLost`, from: every element holds a
  value of its own, and one that a Get has found holds a value the cache had
  during the call, in the list or not.
  `ParserIsRight`: the reference definition holds of the string read so far, which
  an appended part changes only at its own position, so the parser as a state
  machine turns induction over the string into an inductive invariant.
  `WidenedOnlyByName` needs no invariant but the types: it follows from `ApplyTo` and
  `Matches`. `CachesTyped` is the types of all three.
- `ServersProofs`: `ServersTyped`; for Tunnel, `Accounting` (reported is behind base while the loop
  waits, base is behind count), `Delivery` and `Teardown` (only a copier closes its
  destination, as its last step); for Streams, `ChannelsSafe` and `CutOffs`, from: who
  is subscribed has an open channel, and after the sweep only late ones are; for
  Socks5Server, `ConnectionsBounded` and `HandlersAccount`, from: the slots taken are
  the handlers between `Admit` and `Free` (a count, hence the assumption that the
  connections are finitely many), one connection at most is held, and what each
  stage of a handler knows of its connection.

Only model-checked: liveness (`LiveRelayRecovers`, `DeadRelayRetired`,
`AcceptedIsPublished`, `StopEnds`, `TunnelEnds`, `ShutdownEnds`, `NewestShown`,
`WaitingServed`), which is out of the prover's reach. Every invariant, action
property and refinement that a passing run checks is a theorem.

## 6. What is not modelled

- `Delete` and `Clear` of the LRU cache, which the program never calls.
- Start-up, and the goroutines of the collector apart from its probes: Lifecycle is
  the shutdown of `Streams` and the start and stop of `StatsStore`.
- `CheckMullvadStatus`, a value cached once for a command of the CLI, and the parsing
  of the relay list.
- The connections inside a transport, and its dialling goroutine.
- The error branches of the construction of a SOCKS5 dialer (`handler.go:446`), which
  does not fail with the program's provider, and plain and TLS resolution
  (`mullvad.go:364`), which have no deadline: `RelayLookup` has DoH, the default.
- Readiness, dashboard, CLI and metadata display: rendering, with no state.
- Latencies, moving averages, the ring of windows, snapshots, response headers and
  the byte counts of plain HTTP responses.
