------------------------------- MODULE Tunnel --------------------------------
(***************************************************************************)
(* util.Tunnel: two goroutines copy bytes between a client connection and a *)
(* target connection, while a loop reports the bytes to the stats store     *)
(* every 100ms and pushes back the read deadlines as long as bytes flow.    *)
(*                                                                         *)
(* The counts sent and received are written by the copiers and read by the *)
(* loop with no synchronisation.  The loop loads each count twice in a tick *)
(* (once for the difference it reports, once for the new base), with a call *)
(* to the store between the loads, so the two loads may see different      *)
(* values.                                                                 *)
(*                                                                         *)
(* A direction is named by the connection its bytes are read from; the     *)
(* copier of "client" writes to "target".  A peer sends at most Bytes bytes *)
(* and then may close its side.  RecordBytes is an input of StatsStore and *)
(* may drop what it is given: here reported is what it is given.           *)
(***************************************************************************)
EXTENDS Integers

CONSTANT Bytes  \* bound: bytes each peer sends

ASSUME TunnelAssumption == Bytes \in Nat

Sides == {"client", "target"}
Other(d) == IF d = "client" THEN "target" ELSE "client"

VARIABLES
  open,      \* the connection to each side has not been closed by Tunnel
  gone,      \* environment: the peer closed its side (EOF or reset)
  expired,   \* the read deadlines have passed
  copier,    \* goroutine reading from a side: reading, writing, closing, ended
  held,      \* bytes in its buffer
  count,     \* sent, received: bytes read
  written,   \* history: bytes written to the other side
  loop,      \* the reporting loop: wait, report, returned
  base,      \* lastSent, lastRecv
  reported   \* history: bytes given to RecordBytes

peers == <<open, gone, expired>>
copy == <<copier, held, count, written>>
report == <<loop, base, reported>>
vars == <<peers, copy, report>>

TypeOK ==
  /\ open \in [Sides -> BOOLEAN] /\ gone \in [Sides -> BOOLEAN]
  /\ expired \in BOOLEAN
  /\ copier \in [Sides -> {"reading", "writing", "closing", "ended"}]
  /\ held \in [Sides -> Nat] /\ count \in [Sides -> Nat]
  /\ written \in [Sides -> Nat]
  /\ loop \in {"wait", "report", "returned"}
  /\ base \in [Sides -> Nat] /\ reported \in [Sides -> Nat]

None == [d \in Sides |-> 0]

Init ==
  /\ open = [d \in Sides |-> TRUE] /\ gone = [d \in Sides |-> FALSE]
  /\ expired = FALSE
  /\ copier = [d \in Sides |-> "reading"]
  /\ held = None /\ count = None /\ written = None
  /\ loop = "wait" /\ base = None /\ reported = None

-----------------------------------------------------------------------------
(* The copiers: io.CopyBuffer over a CountingReader, then Close.           *)

\* A read returns n bytes, counted before they are written anywhere.
Read(d) ==
  /\ copier[d] = "reading"
  /\ open[d] /\ ~gone[d] /\ ~expired
  /\ \E n \in 1..(Bytes - count[d]) :
       /\ count' = [count EXCEPT ![d] = @ + n]
       /\ held' = [held EXCEPT ![d] = n]
  /\ copier' = [copier EXCEPT ![d] = "writing"]
  /\ UNCHANGED <<written, peers, report>>

\* A read fails: EOF or reset, a connection the other copier closed, deadline.
ReadFails(d) ==
  /\ copier[d] = "reading"
  /\ gone[d] \/ ~open[d] \/ expired
  /\ copier' = [copier EXCEPT ![d] = "closing"]
  /\ UNCHANGED <<held, count, written, peers, report>>

Write(d) ==
  /\ copier[d] = "writing"
  /\ open[Other(d)] /\ ~gone[Other(d)]
  /\ written' = [written EXCEPT ![d] = @ + held[d]]
  /\ held' = [held EXCEPT ![d] = 0]
  /\ copier' = [copier EXCEPT ![d] = "reading"]
  /\ UNCHANGED <<count, peers, report>>

\* The write fails; what the buffer held is lost.
WriteFails(d) ==
  /\ copier[d] = "writing"
  /\ ~open[Other(d)] \/ gone[Other(d)]
  /\ held' = [held EXCEPT ![d] = 0]
  /\ copier' = [copier EXCEPT ![d] = "closing"]
  /\ UNCHANGED <<count, written, peers, report>>

\* Mutant: the copier closes the side it read from.
MutCloseOther(d) ==
  /\ copier[d] = "closing"
  /\ copier' = [copier EXCEPT ![d] = "ended"]
  /\ open' = [open EXCEPT ![d] = FALSE]
  /\ UNCHANGED <<held, count, written, gone, expired, report>>

\* targetConn.Close() of the first goroutine, clientConn.Close() of the second.
CloseOther(d) ==
  /\ copier[d] = "closing"
  /\ copier' = [copier EXCEPT ![d] = "ended"]
  /\ open' = [open EXCEPT ![Other(d)] = FALSE]
  /\ UNCHANGED <<held, count, written, gone, expired, report>>

-----------------------------------------------------------------------------
(* The reporting loop.                                                     *)

Fresh == \E d \in Sides : count[d] # base[d]
\* Mutant: the first copier to end ends the tunnel.
MutEnded == \E d \in Sides : copier[d] = "ended"
Ended == \A d \in Sides : copier[d] = "ended"
\* Mutant: the difference is taken the wrong way round.
MutDelta == [d \in Sides |-> base[d] - count[d]]
Delta == [d \in Sides |-> count[d] - base[d]]
Reported == [d \in Sides |-> reported[d] + Delta[d]]

\* A tick with fresh bytes: the differences go to RecordBytes.
Report ==
  /\ loop = "wait" /\ Fresh
  /\ reported' = Reported
  /\ loop' = "report"
  /\ UNCHANGED <<base, peers, copy>>

\* Mutant: the base is not moved.
MutRebase ==
  /\ loop = "report"
  /\ expired' = FALSE
  /\ loop' = "wait"
  /\ UNCHANGED <<base, reported, open, gone, copy>>

\* The counts are loaded again, after the call, as the new base.
Rebase ==
  /\ loop = "report"
  /\ base' = count
  /\ expired' = FALSE
  /\ loop' = "wait"
  /\ UNCHANGED <<reported, open, gone, copy>>

\* done is closed: the last difference is reported and Tunnel returns.
Return ==
  /\ loop = "wait" /\ Ended
  /\ reported' = Reported
  /\ loop' = "returned"
  /\ UNCHANGED <<base, peers, copy>>

-----------------------------------------------------------------------------
(* The peers and the clock.                                                *)

PeerCloses(d) ==
  /\ ~gone[d]
  /\ gone' = [gone EXCEPT ![d] = TRUE]
  /\ UNCHANGED <<open, expired, copy, report>>

\* Mutant: no deadline is ever set.
MutExpire == UNCHANGED vars

\* tunnelIdleTimeout passes: thousands of ticks without a fresh byte, though one
\* may have come that no tick has seen, or that the loop is reporting just now.
Expire ==
  /\ ~expired
  /\ expired' = TRUE
  /\ UNCHANGED <<open, gone, copy, report>>

-----------------------------------------------------------------------------
Copier(d) == Read(d) \/ ReadFails(d) \/ Write(d) \/ WriteFails(d) \/ CloseOther(d)
Loop == Report \/ Rebase \/ Return

Next == Loop \/ Expire \/ \E d \in Sides : Copier(d) \/ PeerCloses(d)

Spec == Init /\ [][Next]_vars

\* Goroutines run, the clock advances, and a peer that stays connected takes
\* what is written to it.  A peer need not send or close anything.
Fairness ==
  /\ WF_vars(Loop) /\ WF_vars(Expire)
  /\ \A d \in Sides :
       /\ WF_vars(ReadFails(d)) /\ WF_vars(CloseOther(d))
       /\ WF_vars(Write(d) \/ WriteFails(d))

FairSpec == Spec /\ Fairness

-----------------------------------------------------------------------------
(* Properties.                                                             *)

\* No byte is reported twice and none that was not read, although the loop
\* loads counts that the copiers are changing.
NeverOverReported ==
  \A d \in Sides : reported[d] <= count[d]

\* Tearing the tunnel down loses no byte on its own account: what was read
\* from one peer has been written when its copier ends, unless the other peer
\* left.  Neither copier closes the connection the other one writes to.
NothingLostToLivePeer ==
  \A d \in Sides :
    copier[d] = "ended" /\ ~gone[Other(d)] => written[d] = count[d]

\* Tunnel returns with both connections closed: it leaks neither.
ReturnsClosed ==
  loop = "returned" => \A d \in Sides : ~open[d]

\* A tunnel whose peers fall silent or leave is torn down.
TunnelEnds == <>(loop = "returned")
=============================================================================
