----------------------------- MODULE Socks5Server -----------------------------
(***************************************************************************)
(* socks5.Server: one goroutine accepts connections and waits for a free    *)
(* slot of sem before it gives the connection it holds to a handler of its  *)
(* own.  A handler reads a greeting and a request under one deadline, finds *)
(* a relay, dials the target through it, answers and tunnels.               *)
(*                                                                         *)
(* Abstractions: which relay matches is the business of RelayFilter and     *)
(* RelaySelection, how bytes are copied that of Tunnel, of which its        *)
(* promises are used: it ends, with both connections closed.  Once the      *)
(* relay has taken the connection the dialer waits for its words without a  *)
(* deadline (golang.org/x/net/proxy gets no context from Dial), and so does *)
(* resolveDoT for a DNS answer: such a handler is called hung.              *)
(***************************************************************************)
EXTENDS Integers, FiniteSets

CONSTANTS
  Conns,  \* connections clients make
  Cap     \* maxConcurrentConns, capacity of sem

ASSUME SocksAssumption == IsFiniteSet(Conns) /\ Cap \in Nat \ {0}

VARIABLES
  acceptor,  \* Serve: accepts, waits with a connection for a slot, or over
  slots,     \* len(sem)
  handler,   \* of each connection, see Stages
  client,    \* connection to the client: none, queued by the kernel, open, closed
  target,    \* connection to the target: none, open, closed
  answer,    \* the reply that was written
  recorded   \* what was recorded against the relay

socksVars == <<acceptor, slots, handler, client, target, answer, recorded>>

Stages == {"none", "held", "greets", "asks", "finds", "readies", "lost",
           "dials", "silent", "answers", "tunnels", "returns", "frees", "ended"}

SocksTypeOK ==
  /\ acceptor \in {"accepts", "waits", "over"}
  /\ slots \in 0..Cap
  /\ handler \in [Conns -> Stages]
  /\ client \in [Conns -> {"none", "queued", "open", "closed"}]
  /\ target \in [Conns -> {"none", "open", "closed"}]
  /\ answer \in [Conns -> {"none", "success", "generalFail", "notAllowed", "hostUnreach"}]
  /\ recorded \in [Conns -> {"none", "request", "error"}]

SocksInit ==
  /\ acceptor = "accepts" /\ slots = 0
  /\ handler = [c \in Conns |-> "none"]
  /\ client = [c \in Conns |-> "none"] /\ target = [c \in Conns |-> "none"]
  /\ answer = [c \in Conns |-> "none"] /\ recorded = [c \in Conns |-> "none"]

-----------------------------------------------------------------------------
(* Serve.                                                                  *)

Connect(c) ==
  /\ client[c] = "none"
  /\ client' = [client EXCEPT ![c] = "queued"]
  /\ UNCHANGED <<acceptor, slots, handler, target, answer, recorded>>

Accept(c) ==
  /\ acceptor = "accepts" /\ client[c] = "queued"
  /\ acceptor' = "waits"
  /\ client' = [client EXCEPT ![c] = "open"]
  /\ handler' = [handler EXCEPT ![c] = "held"]
  /\ UNCHANGED <<slots, target, answer, recorded>>

\* Any error but a timeout ends Serve: a closed listener, or no descriptor left.
AcceptFails ==
  /\ acceptor = "accepts"
  /\ acceptor' = "over"
  /\ UNCHANGED <<slots, handler, client, target, answer, recorded>>

\* Mutant: a connection does not wait for a slot.
MutAdmit(c) ==
  /\ handler[c] = "held"
  /\ slots' = slots + 1
  /\ acceptor' = "accepts"
  /\ handler' = [handler EXCEPT ![c] = "greets"]
  /\ UNCHANGED <<client, target, answer, recorded>>

\* s.sem <- struct{}{}, and the goroutine.
Admit(c) ==
  /\ handler[c] = "held" /\ slots < Cap
  /\ slots' = slots + 1
  /\ acceptor' = "accepts"
  /\ handler' = [handler EXCEPT ![c] = "greets"]
  /\ UNCHANGED <<client, target, answer, recorded>>

-----------------------------------------------------------------------------
(* handleConn.                                                             *)

Step(c, from, to) == handler[c] = from /\ handler' = [handler EXCEPT ![c] = to]

Quiet == UNCHANGED <<acceptor, slots, client, target, answer, recorded>>

\* The reply is written, or the client or its deadline is gone.
Reply(c, rep) == \E a \in {rep, "none"} : answer' = [answer EXCEPT ![c] = a]

Refuse(c, from, rep) ==
  /\ Step(c, from, "returns")
  /\ Reply(c, rep)
  /\ UNCHANGED <<acceptor, slots, client, target, recorded>>

\* A method is agreed, and a username read; one that is not a filter is taken
\* as no filter.
Greeted(c) == Step(c, "greets", "asks") /\ Quiet

\* Mutant: the deadline is set after the greeting.
MutGreetingFails(c) == FALSE /\ Step(c, "greets", "returns") /\ Quiet

\* Bad version, no acceptable method, the client leaves, or the deadline.
GreetingFails(c) == Step(c, "greets", "returns") /\ Quiet

\* CONNECT: the deadline is lifted.
Asked(c) == Step(c, "asks", "finds") /\ Quiet

RequestFails(c) == Refuse(c, "asks", "generalFail")

NotConnect(c) == Refuse(c, "asks", "notAllowed")

\* resolveMullvad, with its fallback to relays that are offline.
Found(c) == Step(c, "finds", "readies") /\ Quiet

NoneFound(c) == Refuse(c, "finds", "generalFail")

\* SOCKS5DialerFromAddr.
Ready(c, from) == Step(c, from, "dials") /\ Quiet

NotReady(c, from) == Refuse(c, from, "generalFail")

\* A DNS server that is not asked over HTTPS does not answer.
LookupHangs(c) == Step(c, "readies", "lost") /\ Quiet

Dialled(c, from) ==
  /\ Step(c, from, "answers")
  /\ target' = [target EXCEPT ![c] = "open"]
  /\ UNCHANGED <<acceptor, slots, client, answer, recorded>>

\* Recorded against the relay, also when it is the target that refuses.
DialFails(c, from) ==
  /\ Step(c, from, "returns")
  /\ Reply(c, "hostUnreach")
  /\ recorded' = [recorded EXCEPT ![c] = "error"]
  /\ UNCHANGED <<acceptor, slots, client, target>>

\* The relay takes the connection and says nothing.
DialHangs(c) == Step(c, "dials", "silent") /\ Quiet

\* The peer that said nothing says something, or goes.
HangEnds(c) ==
  \/ Ready(c, "lost") \/ NotReady(c, "lost")
  \/ Dialled(c, "silent") \/ DialFails(c, "silent")

Answered(c) ==
  /\ Step(c, "answers", "tunnels")
  /\ answer' = [answer EXCEPT ![c] = "success"]
  /\ recorded' = [recorded EXCEPT ![c] = "request"]
  /\ UNCHANGED <<acceptor, slots, client, target>>

\* Mutant: the early return forgets the target.
MutAnswerFails(c) == Step(c, "answers", "returns") /\ Quiet

\* The reply cannot be written.
AnswerFails(c) ==
  /\ Step(c, "answers", "returns")
  /\ target' = [target EXCEPT ![c] = "closed"]
  /\ UNCHANGED <<acceptor, slots, client, answer, recorded>>

TunnelOver(c) ==
  /\ Step(c, "tunnels", "returns")
  /\ target' = [target EXCEPT ![c] = "closed"]
  /\ client' = [client EXCEPT ![c] = "closed"]
  /\ UNCHANGED <<acceptor, slots, answer, recorded>>

\* The deferred Close.
CloseClient(c) ==
  /\ Step(c, "returns", "frees")
  /\ client' = [client EXCEPT ![c] = "closed"]
  /\ UNCHANGED <<acceptor, slots, target, answer, recorded>>

\* The deferred receive from sem, after handleConn.
Free(c) ==
  /\ Step(c, "frees", "ended")
  /\ slots' = slots - 1
  /\ UNCHANGED <<acceptor, client, target, answer, recorded>>

-----------------------------------------------------------------------------
Handshake(c) ==
  Greeted(c) \/ GreetingFails(c) \/ Asked(c) \/ RequestFails(c) \/ NotConnect(c)

Relaying(c) ==
  \/ Found(c) \/ NoneFound(c)
  \/ Ready(c, "readies") \/ NotReady(c, "readies") \/ LookupHangs(c)
  \/ Dialled(c, "dials") \/ DialFails(c, "dials") \/ DialHangs(c)
  \/ Answered(c) \/ AnswerFails(c)

Ending(c) == CloseClient(c) \/ Free(c)

SocksNext ==
  \/ AcceptFails
  \/ \E c \in Conns :
       \/ Connect(c) \/ Accept(c) \/ Admit(c)
       \/ Handshake(c) \/ Relaying(c) \/ HangEnds(c) \/ TunnelOver(c) \/ Ending(c)

\* Goroutines run, a handshake comes to its deadline, and what has a deadline
\* or a context ends.  Clients need not connect or say anything, a peer that
\* hangs need not come back, and the ends of a tunnel may talk for ever.
SocksFairness ==
  /\ WF_socksVars(\E c \in Conns : Accept(c) \/ Admit(c))
  /\ \A c \in Conns :
       WF_socksVars(GreetingFails(c) \/ RequestFails(c) \/ Relaying(c) \/ Ending(c))

SocksSpec == SocksInit /\ [][SocksNext]_socksVars /\ SocksFairness

-----------------------------------------------------------------------------
(* Properties.                                                             *)

\* However many clients come, the server holds no more connections open than it
\* has slots, and the one that waits for a slot.
OpenBounded == Cardinality({c \in Conns : client[c] = "open"}) <= Cap + 1

\* A handler leaks nothing on any way out of handleConn, and what it has told
\* the client and the stats agree: a request is recorded for just those who
\* were told of success, an error for those whose dial failed, and nothing
\* when no relay was dialled or the client had left.
HandlerAccounts ==
  \A c \in Conns :
    handler[c] \in {"frees", "ended"} =>
      /\ client[c] = "closed" /\ target[c] # "open"
      /\ answer[c] = "success" <=> recorded[c] = "request"
      /\ answer[c] = "hostUnreach" => recorded[c] = "error"
      /\ answer[c] \in {"generalFail", "notAllowed"} => recorded[c] = "none"

Lasting == {c \in Conns : handler[c] \in {"lost", "silent", "tunnels"}}

\* A connection that was made gets a handler, unless Serve has ended or every
\* slot is held by a tunnel or by a handler that hangs: a client that says
\* nothing, or a relay that does not answer the connection, keeps a slot no
\* longer than its deadline.
WaitingServed ==
  \A c \in Conns :
    client[c] = "queued" ~>
      \/ handler[c] \notin {"none", "held"}
      \/ acceptor = "over" \/ Cardinality(Lasting) = Cap
=============================================================================
