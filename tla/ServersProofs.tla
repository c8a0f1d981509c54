---------------------------- MODULE ServersProofs ----------------------------
(***************************************************************************)
(* Proofs of the safety properties of Tunnel, for any number of bytes, of   *)
(* Streams, for any number of streams, and of Socks5Server, for any number  *)
(* of connections and slots.                                               *)
(***************************************************************************)
EXTENDS MCServers, FiniteSetTheorems, TLAPS

-----------------------------------------------------------------------------
(* Tunnel.                                                                 *)

\* What was reported never passes the base, and the base never passes the
\* count; between Report and Rebase the base lags behind what was reported.
AccountInv ==
  \A d \in Sides :
    /\ base[d] <= count[d]
    /\ reported[d] <= count[d]
    /\ loop = "wait" => reported[d] <= base[d]

\* A copier has written what it no longer holds, unless its destination left;
\* and it alone closes its destination, as its last step.
CopyInv ==
  \A d \in Sides :
    /\ ~open[Other(d)] <=> copier[d] = "ended"
    /\ copier[d] # "writing" => held[d] = 0
    /\ written[d] + held[d] = count[d] \/ gone[Other(d)]

ReturnInv == loop = "returned" => Ended

TunnelInv == TypeOK /\ AccountInv /\ CopyInv /\ ReturnInv

LEMMA OtherSide == \A d \in Sides : Other(d) \in Sides /\ Other(Other(d)) = d
BY DEF Sides, Other

LEMMA TunnelInvInit == Init => TunnelInv
<1> SUFFICES ASSUME Init PROVE TunnelInv OBVIOUS
<1>1. TypeOK BY DEF Init, TypeOK, None
<1>2. AccountInv BY DEF Init, AccountInv, None
<1>3. CopyInv BY OtherSide DEF Init, CopyInv, None
<1>4. ReturnInv BY DEF Init, ReturnInv
<1> QED BY <1>1, <1>2, <1>3, <1>4 DEF TunnelInv

LEMMA TunnelInvStep == TunnelInv /\ [Next]_vars => TunnelInv'
<1> SUFFICES ASSUME TunnelInv, [Next]_vars PROVE TunnelInv' OBVIOUS
<1> USE OtherSide DEF TunnelInv, TypeOK, AccountInv, CopyInv, ReturnInv
<1>1. ASSUME NEW d \in Sides, Read(d) PROVE TunnelInv'
  <2>1. PICK n \in 1..(Bytes - count[d]) :
          /\ count' = [count EXCEPT ![d] = @ + n]
          /\ held' = [held EXCEPT ![d] = n]
    BY <1>1 DEF Read
  <2>2. n \in Nat /\ n > 0 BY <2>1, TunnelAssumption
  <2>3. ~Ended BY <1>1 DEF Read, Ended
  <2> QED BY <1>1, <2>1, <2>2, <2>3 DEF Read, peers, report
<1>2. ASSUME NEW d \in Sides, ReadFails(d) PROVE TunnelInv'
  <2>1. ~Ended BY <1>2 DEF ReadFails, Ended
  <2> QED BY <1>2, <2>1 DEF ReadFails, peers, report
<1>3. ASSUME NEW d \in Sides, Write(d) PROVE TunnelInv'
  <2>1. ~Ended BY <1>3 DEF Write, Ended
  <2> QED BY <1>3, <2>1 DEF Write, peers, report
<1>4. ASSUME NEW d \in Sides, WriteFails(d) PROVE TunnelInv'
  <2>1. ~Ended BY <1>4 DEF WriteFails, Ended
  <2>2. gone[Other(d)] BY <1>4 DEF WriteFails
  <2> QED BY <1>4, <2>1, <2>2 DEF WriteFails, peers, report
<1>5. ASSUME NEW d \in Sides, CloseOther(d) PROVE TunnelInv'
  <2>1. ~Ended BY <1>5 DEF CloseOther, Ended
  <2>2. \A e \in Sides : Other(e) = Other(d) => e = d
    BY DEF Sides, Other
  <2> QED BY <1>5, <2>1, <2>2 DEF CloseOther, report
<1>6. CASE Report
  <2>1. \A d \in Sides : reported'[d] = reported[d] + (count[d] - base[d])
    BY <1>6 DEF Report, Reported, Delta
  <2>2. reported' \in [Sides -> Nat]
    <3>1. \A d \in Sides : reported'[d] \in Nat BY <2>1
    <3>2. reported' = [d \in Sides |-> reported'[d]] BY <1>6 DEF Report, Reported
    <3> HIDE DEF TunnelInv, TypeOK, AccountInv, CopyInv, ReturnInv
    <3> QED BY <3>1, <3>2
  <2>3. loop = "wait" /\ loop' = "report" BY <1>6 DEF Report
  <2>4. \A d \in Sides : reported'[d] <= count[d] BY <2>1, <2>3
  <2> QED BY <1>6, <2>2, <2>3, <2>4 DEF Report, peers, copy, Ended
<1>7. CASE Rebase
  <2>1. loop = "report" /\ loop' = "wait" /\ base' = count
    BY <1>7 DEF Rebase
  <2>2. expired' = FALSE /\ UNCHANGED <<reported, open, gone, copier, held, count, written>>
    BY <1>7 DEF Rebase, copy
  <2>3. TypeOK' BY <2>1, <2>2
  <2>4. \A d \in Sides : base'[d] = count[d] /\ count'[d] = count[d]
                         /\ reported'[d] = reported[d]
    BY <2>1, <2>2
  <2>5. AccountInv' BY <2>4
  <2>6. CopyInv' BY <2>2
  <2>7. ReturnInv' BY <2>1
  <2> QED BY <2>3, <2>5, <2>6, <2>7
<1>8. CASE Return
  <2>1. \A d \in Sides : reported'[d] = reported[d] + (count[d] - base[d])
    BY <1>8 DEF Return, Reported, Delta
  <2>2. reported' \in [Sides -> Nat]
    <3>1. \A d \in Sides : reported'[d] \in Nat BY <2>1
    <3>2. reported' = [d \in Sides |-> reported'[d]] BY <1>8 DEF Return, Reported
    <3> HIDE DEF TunnelInv, TypeOK, AccountInv, CopyInv, ReturnInv
    <3> QED BY <3>1, <3>2
  <2>3. loop = "wait" /\ loop' = "returned" BY <1>8 DEF Return
  <2>4. \A d \in Sides : reported'[d] <= count[d] BY <2>1, <2>3
  <2>5. Ended /\ Ended' BY <1>8 DEF Return, Ended, copy
  <2> QED BY <1>8, <2>2, <2>3, <2>4, <2>5 DEF Return, peers, copy
<1>9. CASE Expire BY <1>9 DEF Expire, copy, report, Ended
<1>10. ASSUME NEW d \in Sides, PeerCloses(d) PROVE TunnelInv'
  BY <1>10 DEF PeerCloses, copy, report, Ended
<1>11. CASE UNCHANGED vars
  BY <1>11 DEF vars, peers, copy, report, Ended
<1> QED
  BY <1>1, <1>2, <1>3, <1>4, <1>5, <1>6, <1>7, <1>8, <1>9, <1>10, <1>11
  DEF Next, Loop, Copier

LEMMA TunnelInvariant == Spec => []TunnelInv
<1>1. Init => TunnelInv BY TunnelInvInit
<1>2. TunnelInv /\ [Next]_vars => TunnelInv' BY TunnelInvStep
<1> QED BY <1>1, <1>2, PTL DEF Spec

\* NeverOverReported: the unsynchronised double load never reports a byte
\* twice; it can only lose some.
THEOREM Accounting == Spec => []NeverOverReported
<1>1. TunnelInv => NeverOverReported BY DEF TunnelInv, AccountInv, NeverOverReported
<1> QED BY <1>1, TunnelInvariant, PTL

\* NothingLostToLivePeer: teardown loses no byte on its own account.
THEOREM Delivery == Spec => []NothingLostToLivePeer
<1>1. TunnelInv => NothingLostToLivePeer
  BY DEF TunnelInv, TypeOK, CopyInv, NothingLostToLivePeer
<1> QED BY <1>1, TunnelInvariant, PTL

\* ReturnsClosed: Tunnel returns with both connections closed.
THEOREM Teardown == Spec => []ReturnsClosed
<1>1. TunnelInv => ReturnsClosed
  <2> SUFFICES ASSUME TunnelInv, loop = "returned", NEW d \in Sides PROVE ~open[d]
    BY DEF ReturnsClosed
  <2>1. Other(d) \in Sides /\ Other(Other(d)) = d BY OtherSide
  <2> QED BY <2>1 DEF TunnelInv, ReturnInv, Ended, CopyInv
<1> QED BY <1>1, TunnelInvariant, PTL

-----------------------------------------------------------------------------
(* Streams.                                                                *)

\* A subscriber's channel is open, and its goroutine waits for the end of the
\* context; before Stop has closed the channels, it waits for no one else.
SubscribersOpen ==
  \A c \in Clients :
    /\ closes[c] <= 1
    /\ c \in subs => closes[c] = 0 /\ watcher[c] = "waits"
    /\ stream[c] \in {"new", "shot"} => watcher[c] = "none" /\ closes[c] = 0
    /\ stream[c] \in {"reading", "stalled"} => watcher[c] # "none"
    /\ watcher[c] = "waits" /\ main \in {"running", "collector", "store"} => c \in subs

\* Once Stop has closed the channels, a stream that subscribed before has been
\* told, or its own goroutine is about to.
ToldToEnd ==
  \A c \in Clients :
    main \notin {"running", "collector", "store"} /\ stream[c] = "reading" /\ ~late[c]
      => closes[c] = 1 \/ watcher[c] \in {"closes", "ended"}

StreamsInv == StreamsTypeOK /\ SubscribersOpen /\ ToldToEnd /\ OnlyLateCutOff

LEMMA StreamsInvInit == StreamsInit => StreamsInv
<1> SUFFICES ASSUME StreamsInit PROVE StreamsInv OBVIOUS
<1>1. StreamsTypeOK
  BY StreamsAssumption DEF StreamsInit, StreamsTypeOK, Snaps, Phases
<1>2. SubscribersOpen BY DEF StreamsInit, SubscribersOpen
<1>3. ToldToEnd BY DEF StreamsInit, ToldToEnd
<1>4. OnlyLateCutOff BY DEF StreamsInit, OnlyLateCutOff
<1> QED BY <1>1, <1>2, <1>3, <1>4 DEF StreamsInv

LEMMA StreamsInvStep == StreamsInv /\ [StreamsNext]_streamVars => StreamsInv'
<1> SUFFICES ASSUME StreamsInv, [StreamsNext]_streamVars PROVE StreamsInv' OBVIOUS
<1> USE StreamsAssumption
    DEF StreamsInv, StreamsTypeOK, SubscribersOpen, ToldToEnd, OnlyLateCutOff, Active,
        Snaps, Phases, storeVars, subVars, clientVars
<1>1. CASE main # "exited" /\ StatsChange BY <1>1 DEF StatsChange
<1>2. CASE main # "exited" /\ Ticking
  <2>1. CASE TakeSnapshot BY <1>2, <2>1 DEF TakeSnapshot
  <2>2. CASE Broadcast BY <1>2, <2>2 DEF Broadcast
  <2>3. CASE TickerEnds BY <1>2, <2>3 DEF TickerEnds
  <2> QED BY <1>2, <2>1, <2>2, <2>3 DEF Ticking
<1>3. CASE Signal BY <1>3 DEF Signal, Phase
<1>4. CASE CollectorStops BY <1>4 DEF CollectorStops, Phase
<1>5. CASE Sweep
  <2>1. main = "store" /\ main' = "swept" /\ subs' = {}
        /\ UNCHANGED <<version, ticker, snap, slot, watcher, ended, stream, shown, late>>
    BY <1>5 DEF Sweep, Phase
  <2>2. closes' = [c \in Clients |-> IF c \in subs /\ closes[c] = 0 THEN 1 ELSE closes[c]]
    BY <1>5 DEF Sweep, Close
  <2>3. \A c \in Clients : closes'[c] = IF c \in subs THEN 1 ELSE closes[c] BY <2>2
  <2>4. StreamsTypeOK' BY <2>1, <2>2
  <2>5. SubscribersOpen' BY <2>1, <2>3
  <2>6. ToldToEnd' BY <2>1, <2>3
  <2> QED BY <2>1, <2>4, <2>5, <2>6
<1>6. CASE Shutdown BY <1>6 DEF Shutdown, Phase
<1>7. CASE AllEnd BY <1>7 DEF AllEnd, Phase
<1>8. CASE TimeIsUp BY <1>8 DEF TimeIsUp, Stuck, Phase
<1>9. ASSUME NEW c \in Clients, main # "exited", Open(c) PROVE StreamsInv'
  BY <1>9 DEF Open
<1>10. ASSUME NEW c \in Clients, main # "exited", Subscribe(c) PROVE StreamsInv'
  <2>1. /\ stream[c] = "shot" /\ stream' = [stream EXCEPT ![c] = "reading"]
        /\ subs' = subs \cup {c} /\ watcher' = [watcher EXCEPT ![c] = "waits"]
        /\ UNCHANGED <<version, ticker, snap, main, slot, closes, ended, shown>>
    BY <1>10 DEF Subscribe
  <2>2. late' = [late EXCEPT ![c] = main \in {"swept", "shutdown"}]
    BY <1>10 DEF Subscribe
  <2> DEFINE b == main \in {"swept", "shutdown"}
  <2>0. b \in BOOLEAN /\ late' = [late EXCEPT ![c] = b] BY <2>2
  <2>3. late' \in [Clients -> BOOLEAN]
        /\ \A d \in Clients : late'[d] <=> IF d = c THEN b ELSE late[d]
    <3> HIDE DEF b
    <3> QED BY <2>0
  <2> HIDE StreamsAssumption
  <2>4. StreamsTypeOK' BY <2>1, <2>3
  <2>5. SubscribersOpen' BY <2>1
  <2>6. ToldToEnd' BY <1>10, <2>1, <2>3
  <2> QED BY <1>10, <2>1, <2>4, <2>5, <2>6
<1>11. ASSUME NEW c \in Clients, main # "exited", Receive(c) PROVE StreamsInv'
  BY <1>11 DEF Receive
<1>12. ASSUME NEW c \in Clients, main # "exited", Stall(c) PROVE StreamsInv'
  BY <1>12 DEF Stall
<1>13. ASSUME NEW c \in Clients, main # "exited", StreamOver(c) PROVE StreamsInv'
  BY <1>13 DEF StreamOver
<1>14. ASSUME NEW c \in Clients, main # "exited", ClientLeaves(c) PROVE StreamsInv'
  BY <1>14 DEF ClientLeaves
<1>15. ASSUME NEW c \in Clients, main # "exited", Unsubscribe(c) PROVE StreamsInv'
  BY <1>15 DEF Unsubscribe
<1>16. ASSUME NEW c \in Clients, main # "exited", CloseChannel(c) PROVE StreamsInv'
  BY <1>16 DEF CloseChannel, Close
<1>17. CASE UNCHANGED streamVars BY <1>17 DEF streamVars
<1> HIDE DEF StreamsInv
<1>19. ASSUME NEW c \in Clients, StreamBreaks(c) \/ ChannelClosed(c) PROVE StreamOver(c)
  BY <1>19 DEF StreamBreaks, ChannelClosed
<1> QED
  BY <1>1, <1>2, <1>3, <1>4, <1>5, <1>6, <1>7, <1>8, <1>9, <1>10, <1>11, <1>12, <1>13,
     <1>14, <1>15, <1>16, <1>17, <1>19 DEF StreamsNext, Stop, Serving, Watching

LEMMA StreamsInvariant == StreamsSpec => []StreamsInv
BY StreamsInvInit, StreamsInvStep, PTL DEF StreamsSpec

\* NoPanic: no snapshot is sent on a closed channel, and none is closed twice.
THEOREM ChannelsSafe == StreamsSpec => []NoPanic
<1>1. StreamsInv => NoPanic BY DEF StreamsInv, SubscribersOpen, NoPanic
<1> QED BY <1>1, StreamsInvariant, PTL

\* OnlyLateCutOff: what the program cuts off at its end subscribed after the
\* store had stopped, or has a client that does not read.
THEOREM CutOffs == StreamsSpec => []OnlyLateCutOff
<1>1. StreamsInv => OnlyLateCutOff BY DEF StreamsInv
<1> QED BY <1>1, StreamsInvariant, PTL

-----------------------------------------------------------------------------
(* Socks5Server.                                                           *)

Undialled == {"none", "held", "greets", "asks", "finds", "readies", "lost", "dials", "silent"}
Leaving == {"returns", "frees", "ended"}
InSlot == Stages \ {"none", "held", "ended"}

\* What holds of a connection at each stage of its handler.
StageOK(h, k, t, a, r) ==
  /\ h = "none" <=> k \in {"none", "queued"}
  /\ h \in {"frees", "ended"} => k = "closed"
  /\ h \in Undialled => t = "none" /\ a = "none" /\ r = "none"
  /\ h = "answers" => t = "open" /\ a = "none" /\ r = "none"
  /\ h = "tunnels" => t = "open" /\ a = "success" /\ r = "request"
  /\ h \in Leaving =>
       /\ t # "open"
       /\ a = "success" <=> r = "request"
       /\ a = "hostUnreach" => r = "error"
       /\ a \in {"generalFail", "notAllowed"} => r = "none"

Staged ==
  \A c \in Conns : StageOK(handler[c], client[c], target[c], answer[c], recorded[c])

Holding == {c \in Conns : handler[c] \in InSlot}

\* The slots taken are those of the handlers, and one connection at most waits.
SlotsCounted ==
  /\ slots = Cardinality(Holding)
  /\ \A c \in Conns : handler[c] = "held" => acceptor = "waits"
  /\ \A c, d \in Conns : handler[c] = "held" /\ handler[d] = "held" => c = d

SocksInv == SocksTypeOK /\ Staged /\ SlotsCounted

LEMMA SocksInvInit == SocksInit => SocksInv
<1> SUFFICES ASSUME SocksInit PROVE SocksInv OBVIOUS
<1>1. SocksTypeOK BY SocksAssumption DEF SocksInit, SocksTypeOK, Stages
<1>2. Staged BY DEF SocksInit, Staged, StageOK, Undialled, Leaving
<1>3. Holding = {} BY DEF SocksInit, Holding, InSlot
<1>4. SlotsCounted BY <1>3, FS_EmptySet DEF SocksInit, SlotsCounted
<1> QED BY <1>1, <1>2, <1>4 DEF SocksInv

LEMMA HoldingFinite == IsFiniteSet(Holding) /\ Cardinality(Holding) \in Nat
<1>1. Holding \subseteq Conns BY DEF Holding
<1>2. IsFiniteSet(Holding) BY <1>1, SocksAssumption, FS_Subset
<1> QED BY <1>2, FS_CardinalityType

\* A handler goes to another stage and keeps its slot.
Moved(c, to, k, t, a, r) ==
  /\ handler' = [handler EXCEPT ![c] = to] /\ client' = [client EXCEPT ![c] = k]
  /\ target' = [target EXCEPT ![c] = t] /\ answer' = [answer EXCEPT ![c] = a]
  /\ recorded' = [recorded EXCEPT ![c] = r]
  /\ UNCHANGED <<acceptor, slots>>

Fitting(to, k, t, a, r) ==
  /\ to \in InSlot /\ k \in {"open", "closed"} /\ t \in {"none", "open", "closed"}
  /\ a \in {"none", "success", "generalFail", "notAllowed", "hostUnreach"}
  /\ r \in {"none", "request", "error"}
  /\ StageOK(to, k, t, a, r)

LEMMA KeepsSlot ==
  ASSUME SocksInv, NEW c \in Conns, handler[c] \in InSlot,
         NEW to, NEW k, NEW t, NEW a, NEW r,
         Fitting(to, k, t, a, r), Moved(c, to, k, t, a, r)
  PROVE  SocksInv'
<1>1. SocksTypeOK' BY DEF SocksInv, SocksTypeOK, InSlot, Fitting, Moved
<1>2. Staged' BY DEF SocksInv, SocksTypeOK, Staged, Fitting, Moved
<1>3. Holding' = Holding BY DEF SocksInv, SocksTypeOK, Holding, Fitting, Moved
<1>4. SlotsCounted' BY <1>3 DEF SocksInv, SocksTypeOK, SlotsCounted, InSlot, Fitting, Moved
<1> QED BY <1>1, <1>2, <1>4 DEF SocksInv

\* The same, when nothing but the stage changes.
LEMMA KeepsAll ==
  ASSUME SocksInv, NEW c \in Conns, NEW from \in InSlot, NEW to \in InSlot,
         Step(c, from, to), Quiet,
         StageOK(to, client[c], target[c], answer[c], recorded[c])
  PROVE  SocksInv'
<1>1. handler[c] \in InSlot BY DEF Step
<1>2. Fitting(to, client[c], target[c], answer[c], recorded[c])
  BY <1>1 DEF Fitting, SocksInv, SocksTypeOK, Staged, StageOK, InSlot
<1>3. Moved(c, to, client[c], target[c], answer[c], recorded[c])
  BY DEF Moved, Step, Quiet, SocksInv, SocksTypeOK
<1> QED BY <1>1, <1>2, <1>3, KeepsSlot

\* The steps before the target is dialled.
LEMMA SocksHandshakes ==
  ASSUME SocksInv, NEW c \in Conns,
         \/ Greeted(c) \/ GreetingFails(c) \/ Asked(c) \/ Found(c)
         \/ \E from \in {"readies", "lost"} : Ready(c, from)
         \/ LookupHangs(c) \/ DialHangs(c)
  PROVE  SocksInv'
<1>1. PICK from \in Undialled \cap InSlot, to \in (Undialled \cap InSlot) \cup {"returns"} :
        Step(c, from, to) /\ Quiet
  BY DEF Greeted, GreetingFails, Asked, Found, Ready, LookupHangs, DialHangs, Undialled,
         InSlot, Stages
<1>2. StageOK(handler[c], client[c], target[c], answer[c], recorded[c]) /\ handler[c] = from
  BY <1>1 DEF SocksInv, Staged, Step
<1>3. StageOK(to, client[c], target[c], answer[c], recorded[c])
  BY <1>1, <1>2 DEF StageOK, Undialled, InSlot, Stages, Leaving
<1>4. from \in InSlot /\ to \in InSlot BY <1>1 DEF InSlot, Stages
<1> QED BY <1>1, <1>3, <1>4, KeepsAll

\* What a handler that ends early, or an undialled one, knows of its connection.
LEMMA StageFacts ==
  ASSUME SocksInv, NEW c \in Conns, handler[c] \in InSlot
  PROVE  /\ StageOK(handler[c], client[c], target[c], answer[c], recorded[c])
         /\ client[c] \in {"open", "closed"} /\ target[c] \in {"none", "open", "closed"}
         /\ answer[c] \in {"none", "success", "generalFail", "notAllowed", "hostUnreach"}
         /\ recorded[c] \in {"none", "request", "error"}
         /\ client = [client EXCEPT ![c] = client[c]]
         /\ target = [target EXCEPT ![c] = target[c]]
         /\ answer = [answer EXCEPT ![c] = answer[c]]
         /\ recorded = [recorded EXCEPT ![c] = recorded[c]]
BY DEF SocksInv, SocksTypeOK, Staged, StageOK, InSlot

LEMMA SocksRefusals ==
  ASSUME SocksInv, NEW c \in Conns, NEW from \in Undialled \cap InSlot,
         NEW rep \in {"generalFail", "notAllowed"}, Refuse(c, from, rep)
  PROVE  SocksInv'
<1>1. PICK a \in {rep, "none"} : answer' = [answer EXCEPT ![c] = a]
  BY DEF Refuse, Reply
<1>2. handler[c] = from /\ handler[c] \in InSlot BY DEF Refuse, Step
<1>3. Moved(c, "returns", client[c], target[c], a, recorded[c])
  BY <1>1, <1>2, StageFacts DEF Moved, Refuse, Step
<1>4. Fitting("returns", client[c], target[c], a, recorded[c])
  BY <1>2, StageFacts DEF Fitting, StageOK, Undialled, Leaving, InSlot, Stages
<1> QED BY <1>2, <1>3, <1>4, KeepsSlot

LEMMA SocksDials ==
  ASSUME SocksInv, NEW c \in Conns, NEW from \in {"dials", "silent"},
         Dialled(c, from) \/ DialFails(c, from)
  PROVE  SocksInv'
<1>1. handler[c] = from /\ handler[c] \in InSlot
  BY DEF Dialled, DialFails, Step, InSlot, Stages
<1>2. CASE Dialled(c, from)
  <2>1. Moved(c, "answers", client[c], "open", answer[c], recorded[c])
    BY <1>1, <1>2, StageFacts DEF Moved, Dialled, Step
  <2>2. Fitting("answers", client[c], "open", answer[c], recorded[c])
    BY <1>1, StageFacts DEF Fitting, StageOK, Undialled, Leaving, InSlot, Stages
  <2> QED BY <1>1, <2>1, <2>2, KeepsSlot
<1>3. CASE DialFails(c, from)
  <2>1. PICK a \in {"hostUnreach", "none"} : answer' = [answer EXCEPT ![c] = a]
    BY <1>3 DEF DialFails, Reply
  <2>2. Moved(c, "returns", client[c], target[c], a, "error")
    BY <1>1, <1>3, <2>1, StageFacts DEF Moved, DialFails, Step
  <2>3. Fitting("returns", client[c], target[c], a, "error")
    BY <1>1, StageFacts DEF Fitting, StageOK, Undialled, Leaving, InSlot, Stages
  <2> QED BY <1>1, <2>2, <2>3, KeepsSlot
<1> QED BY <1>2, <1>3

LEMMA SocksAnswers ==
  ASSUME SocksInv, NEW c \in Conns,
         Answered(c) \/ AnswerFails(c) \/ TunnelOver(c) \/ CloseClient(c)
  PROVE  SocksInv'
<1>1. handler[c] \in {"answers", "tunnels", "returns"} /\ handler[c] \in InSlot
  BY DEF Answered, AnswerFails, TunnelOver, CloseClient, Step, InSlot, Stages
<1>2. CASE Answered(c)
  <2>1. Moved(c, "tunnels", client[c], target[c], "success", "request")
    BY <1>1, <1>2, StageFacts DEF Moved, Answered, Step
  <2>2. handler[c] = "answers" BY <1>2 DEF Answered, Step
  <2>3. Fitting("tunnels", client[c], target[c], "success", "request")
    BY <1>1, <2>2, StageFacts DEF Fitting, StageOK, Undialled, Leaving, InSlot, Stages
  <2> QED BY <1>1, <2>1, <2>3, KeepsSlot
<1>3. CASE AnswerFails(c)
  <2>1. Moved(c, "returns", client[c], "closed", answer[c], recorded[c])
    BY <1>1, <1>3, StageFacts DEF Moved, AnswerFails, Step
  <2>2. handler[c] = "answers" BY <1>3 DEF AnswerFails, Step
  <2>3. Fitting("returns", client[c], "closed", answer[c], recorded[c])
    BY <1>1, <2>2, StageFacts DEF Fitting, StageOK, Undialled, Leaving, InSlot, Stages
  <2> QED BY <1>1, <2>1, <2>3, KeepsSlot
<1>4. CASE TunnelOver(c)
  <2>1. Moved(c, "returns", "closed", "closed", answer[c], recorded[c])
    BY <1>1, <1>4, StageFacts DEF Moved, TunnelOver, Step
  <2>2. handler[c] = "tunnels" BY <1>4 DEF TunnelOver, Step
  <2>3. Fitting("returns", "closed", "closed", answer[c], recorded[c])
    BY <1>1, <2>2, StageFacts DEF Fitting, StageOK, Undialled, Leaving, InSlot, Stages
  <2> QED BY <1>1, <2>1, <2>3, KeepsSlot
<1>5. CASE CloseClient(c)
  <2>1. Moved(c, "frees", "closed", target[c], answer[c], recorded[c])
    BY <1>1, <1>5, StageFacts DEF Moved, CloseClient, Step
  <2>2. handler[c] = "returns" BY <1>5 DEF CloseClient, Step
  <2>3. Fitting("frees", "closed", target[c], answer[c], recorded[c])
    BY <1>1, <2>2, StageFacts DEF Fitting, StageOK, Undialled, Leaving, InSlot, Stages
  <2> QED BY <1>1, <2>1, <2>3, KeepsSlot
<1> QED BY <1>2, <1>3, <1>4, <1>5

\* The steps of Serve, up to the slot.
LEMMA SocksAccepts ==
  ASSUME SocksInv, AcceptFails \/ \E c \in Conns : Connect(c) \/ Accept(c)
  PROVE  SocksInv'
<1>1. CASE AcceptFails
  <2>1. \A c \in Conns : handler[c] # "held"
    BY <1>1 DEF AcceptFails, SocksInv, SlotsCounted
  <2> QED BY <1>1, <2>1 DEF AcceptFails, SocksInv, SocksTypeOK, Staged, SlotsCounted, Holding
<1>2. ASSUME NEW c \in Conns, Connect(c) PROVE SocksInv'
  BY <1>2 DEF Connect, SocksInv, SocksTypeOK, Staged, StageOK, SlotsCounted, Holding
<1>3. ASSUME NEW c \in Conns, Accept(c) PROVE SocksInv'
  <2>1. handler[c] = "none" /\ handler' = [handler EXCEPT ![c] = "held"]
        /\ client' = [client EXCEPT ![c] = "open"] /\ acceptor' = "waits"
        /\ acceptor = "accepts" /\ UNCHANGED <<slots, target, answer, recorded>>
    BY <1>3 DEF Accept, SocksInv, Staged, StageOK
  <2>2. SocksTypeOK' BY <2>1 DEF SocksInv, SocksTypeOK, Stages
  <2>3. Staged'
    BY <2>1 DEF SocksInv, SocksTypeOK, Staged, StageOK, Undialled, Leaving
  <2>4. Holding' = Holding BY <2>1 DEF SocksInv, SocksTypeOK, Holding, InSlot
  <2>5. SlotsCounted' BY <2>1, <2>4 DEF SocksInv, SocksTypeOK, SlotsCounted
  <2> QED BY <2>2, <2>3, <2>5 DEF SocksInv
<1> QED BY <1>1, <1>2, <1>3

LEMMA SocksAdmits ==
  ASSUME SocksInv, NEW c \in Conns, Admit(c)
  PROVE  SocksInv'
<1>1. /\ handler[c] = "held" /\ handler' = [handler EXCEPT ![c] = "greets"]
      /\ slots < Cap /\ slots' = slots + 1 /\ acceptor' = "accepts"
      /\ UNCHANGED <<client, target, answer, recorded>>
  BY DEF Admit
<1>2. SocksTypeOK' BY <1>1, SocksAssumption DEF SocksInv, SocksTypeOK, Stages
<1>3. Staged'
  BY <1>1 DEF SocksInv, SocksTypeOK, Staged, StageOK, Undialled, Leaving
<1>4. c \notin Holding /\ Holding' = Holding \cup {c}
  BY <1>1 DEF SocksInv, SocksTypeOK, Holding, InSlot, Stages
<1>5. Cardinality(Holding') = Cardinality(Holding) + 1
  BY <1>4, HoldingFinite, FS_AddElement
<1>6. \A d \in Conns : handler'[d] # "held"
  BY <1>1 DEF SocksInv, SocksTypeOK, SlotsCounted
<1>7. SlotsCounted' BY <1>1, <1>5, <1>6 DEF SocksInv, SlotsCounted
<1> QED BY <1>2, <1>3, <1>7 DEF SocksInv

LEMMA SocksFrees ==
  ASSUME SocksInv, NEW c \in Conns, Free(c)
  PROVE  SocksInv'
<1>1. /\ handler[c] = "frees" /\ handler' = [handler EXCEPT ![c] = "ended"]
      /\ slots' = slots - 1
      /\ UNCHANGED <<acceptor, client, target, answer, recorded>>
  BY DEF Free, Step
<1>2. c \in Holding /\ Holding' = Holding \ {c}
  BY <1>1 DEF SocksInv, SocksTypeOK, Holding, InSlot, Stages
<1>3. /\ Cardinality(Holding') = Cardinality(Holding) - 1
      /\ IsFiniteSet(Holding') /\ Cardinality(Holding') \in Nat
  <2>1. IsFiniteSet(Holding \ {c}) /\ Cardinality(Holding \ {c}) = Cardinality(Holding) - 1
    BY <1>2, HoldingFinite, FS_RemoveElement
  <2> QED BY <1>2, <2>1, FS_CardinalityType
<1>4. slots' \in 0..Cap
  <2>1. slots' = Cardinality(Holding') BY <1>1, <1>3 DEF SocksInv, SlotsCounted
  <2> QED BY <1>1, <1>3, <2>1, SocksAssumption DEF SocksInv, SocksTypeOK
<1>5. SocksTypeOK' BY <1>1, <1>4 DEF SocksInv, SocksTypeOK, Stages
<1>6. Staged'
  BY <1>1 DEF SocksInv, SocksTypeOK, Staged, StageOK, Undialled, Leaving
<1>7. SlotsCounted' BY <1>1, <1>3 DEF SocksInv, SocksTypeOK, SlotsCounted
<1> QED BY <1>5, <1>6, <1>7 DEF SocksInv

LEMMA SocksInvStep == SocksInv /\ [SocksNext]_socksVars => SocksInv'
<1> SUFFICES ASSUME SocksInv, [SocksNext]_socksVars PROVE SocksInv' OBVIOUS
<1>1. ASSUME NEW c \in Conns, Handshake(c) PROVE SocksInv'
  <2>1. {"asks", "finds", "readies", "lost"} \subseteq Undialled \cap InSlot
    BY DEF Undialled, InSlot, Stages
  <2> QED BY <1>1, <2>1, SocksHandshakes, SocksRefusals DEF Handshake, RequestFails, NotConnect
<1>2. ASSUME NEW c \in Conns, Relaying(c) \/ HangEnds(c) PROVE SocksInv'
  <2>1. {"asks", "finds", "readies", "lost"} \subseteq Undialled \cap InSlot
    BY DEF Undialled, InSlot, Stages
  <2>2. CASE \/ Found(c) \/ Ready(c, "readies") \/ Ready(c, "lost")
             \/ LookupHangs(c) \/ DialHangs(c)
    BY <2>2, SocksHandshakes
  <2>3. CASE NoneFound(c) \/ NotReady(c, "readies") \/ NotReady(c, "lost")
    BY <2>1, <2>3, SocksRefusals DEF NoneFound, NotReady
  <2>4. CASE \E from \in {"dials", "silent"} : Dialled(c, from) \/ DialFails(c, from)
    BY <2>4, SocksDials
  <2>5. CASE Answered(c) \/ AnswerFails(c)
    BY <2>5, SocksAnswers
  <2> QED BY <1>2, <2>2, <2>3, <2>4, <2>5 DEF Relaying, HangEnds
<1>3. ASSUME NEW c \in Conns, TunnelOver(c) \/ Ending(c) PROVE SocksInv'
  BY <1>3, SocksAnswers, SocksFrees DEF Ending
<1>4. CASE UNCHANGED socksVars
  BY <1>4 DEF socksVars, SocksInv, SocksTypeOK, Staged, SlotsCounted, Holding
<1> QED BY <1>1, <1>2, <1>3, <1>4, SocksAccepts, SocksAdmits DEF SocksNext

LEMMA SocksInvariant == SocksSpec => []SocksInv
BY SocksInvInit, SocksInvStep, PTL DEF SocksSpec

\* OpenBounded: as many connections are open as there are slots, and one.
THEOREM ConnectionsBounded == SocksSpec => []OpenBounded
<1>1. SocksInv => OpenBounded
  <2> SUFFICES ASSUME SocksInv PROVE OpenBounded OBVIOUS
  <2> DEFINE O == {c \in Conns : client[c] = "open"}
  <2>1. PICK h : O \subseteq Holding \cup {h}
    <3>1. \A c \in O : c \in Holding \/ handler[c] = "held"
      BY DEF SocksInv, SocksTypeOK, Staged, StageOK, Holding, InSlot
    <3>2. CASE \E c \in Conns : handler[c] = "held"
      BY <3>1, <3>2 DEF SocksInv, SlotsCounted
    <3>3. CASE ~\E c \in Conns : handler[c] = "held"
      BY <3>1, <3>3
    <3> QED BY <3>2, <3>3
  <2>2. /\ IsFiniteSet(Holding \cup {h}) /\ Cardinality(Holding \cup {h}) \in Nat
        /\ Cardinality(Holding \cup {h}) <= Cardinality(Holding) + 1
    <3>1. IsFiniteSet(Holding \cup {h})
          /\ Cardinality(Holding \cup {h}) \in {Cardinality(Holding), Cardinality(Holding) + 1}
      BY HoldingFinite, FS_AddElement
    <3> QED BY <3>1, HoldingFinite
  <2>3. Cardinality(O) \in Nat /\ Cardinality(O) <= Cardinality(Holding \cup {h})
    BY <2>1, <2>2, FS_Subset, FS_CardinalityType
  <2>4. Cardinality(Holding) <= Cap
    BY SocksAssumption DEF SocksInv, SocksTypeOK, SlotsCounted
  <2>5. Cardinality(O) <= Cap + 1
    BY <2>2, <2>3, <2>4, HoldingFinite, SocksAssumption
  <2> QED BY <2>5 DEF OpenBounded
<1> QED BY <1>1, SocksInvariant, PTL

\* HandlerAccounts: no way out of handleConn leaks a connection, and reply and
\* record agree.
THEOREM HandlersAccount == SocksSpec => []HandlerAccounts
<1>1. SocksInv => HandlerAccounts
  BY DEF SocksInv, Staged, StageOK, Leaving, HandlerAccounts
<1> QED BY <1>1, SocksInvariant, PTL

-----------------------------------------------------------------------------
(* The three side by side, as the instances for TLC start them: one at its   *)
(* beginning, the others at their end.                                       *)

ServersInv == TunnelInv /\ StreamsInv /\ SocksInv

LEMMA TunnelEndTyped == TunnelReturned => TunnelInv
<1> SUFFICES ASSUME TunnelReturned PROVE TunnelInv OBVIOUS
<1>1. TypeOK
  <2>1. TRUE \in BOOLEAN /\ FALSE \in BOOLEAN BY Zenon
  <2>2. expired \in BOOLEAN BY <2>1, Zenon DEF TunnelReturned
  <2>3. open \in [Sides -> BOOLEAN] /\ gone \in [Sides -> BOOLEAN] BY <2>1 DEF TunnelReturned
  <2> QED BY <2>2, <2>3 DEF TunnelReturned, TypeOK, None
<1>2. AccountInv BY DEF TunnelReturned, AccountInv, None
<1>3. CopyInv BY OtherSide DEF TunnelReturned, CopyInv, None
<1>4. ReturnInv BY DEF TunnelReturned, ReturnInv, Ended
<1> QED BY <1>1, <1>2, <1>3, <1>4 DEF TunnelInv

LEMMA StreamsEndTyped == StreamsOver => StreamsInv
<1> SUFFICES ASSUME StreamsOver PROVE StreamsInv OBVIOUS
<1>1. StreamsTypeOK
  BY StreamsAssumption DEF StreamsOver, StreamsTypeOK, Snaps, Phases
<1>2. SubscribersOpen BY DEF StreamsOver, SubscribersOpen
<1>3. ToldToEnd BY DEF StreamsOver, ToldToEnd
<1>4. OnlyLateCutOff BY DEF StreamsOver, OnlyLateCutOff, Active
<1> QED BY <1>1, <1>2, <1>3, <1>4 DEF StreamsInv

LEMMA SocksEndTyped == SocksOver => SocksInv
<1> SUFFICES ASSUME SocksOver PROVE SocksInv OBVIOUS
<1>1. SocksTypeOK BY SocksAssumption DEF SocksOver, SocksTypeOK, Stages
<1>2. Staged BY DEF SocksOver, Staged, StageOK, Undialled, Leaving
<1>3. Holding = {} BY DEF SocksOver, Holding, InSlot
<1>4. SlotsCounted BY <1>3, FS_EmptySet DEF SocksOver, SlotsCounted
<1> QED BY <1>1, <1>2, <1>4 DEF SocksInv

LEMMA ServersInvInit == ServersInit => ServersInv
BY TunnelInvInit, StreamsInvInit, SocksInvInit, TunnelEndTyped, StreamsEndTyped, SocksEndTyped
DEF ServersInit, ServersInv

LEMMA ServersInvStep ==
  ServersInv /\ [ServersNext]_<<vars, streamVars, socksVars>> => ServersInv'
<1> SUFFICES ASSUME ServersInv, [ServersNext]_<<vars, streamVars, socksVars>>
             PROVE  ServersInv'
  OBVIOUS
<1>1. [Next]_vars /\ [StreamsNext]_streamVars /\ [SocksNext]_socksVars
  BY DEF ServersNext
<1>2. TunnelInv' BY <1>1, TunnelInvStep DEF ServersInv
<1>3. StreamsInv' BY <1>1, StreamsInvStep DEF ServersInv
<1>4. SocksInv' BY <1>1, SocksInvStep DEF ServersInv
<1> QED BY <1>2, <1>3, <1>4 DEF ServersInv

\* Whatever the tunnel, the streams and the connections do, every part of
\* their state keeps its type: counts and versions stay natural numbers, the
\* slots taken never pass the cap, nobody is in a stage that the code lacks.
THEOREM ServersTyped == ServersSpec => []TypesOK
<1>1. ServersInv => TypesOK
  BY DEF ServersInv, TunnelInv, StreamsInv, SocksInv, TypesOK
<1> QED BY <1>1, ServersInvInit, ServersInvStep, PTL DEF ServersSpec
=============================================================================
