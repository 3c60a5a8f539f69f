-------------------------------- MODULE Duplex --------------------------------
(***************************************************************************)
(* Two peers through one worker, when the sockets' buffers are bounded:    *)
(* the event loop (parasock/Parasock.cpp) between two PassthruFilters of   *)
(* unknown size, as in the tunnel of a CONNECT request, with socksendto    *)
(* and mypoll (parasock/NetUtils.cpp) turn by turn.  The bytes are         *)
(* counted, not told apart; what is output to a connection joins its last  *)
(* placeholder, so the deque is one number.                                *)
(*                                                                         *)
(* While socksendto waits for room the worker's thread does nothing else.  *)
(* FIONBIO is set from a variable that nothing assigns: each socket may or *)
(* may not block.                                                          *)
(*                                                                         *)
(* Capacity: what a socket buffers in one direction.  MaxRecv: BUFSIZE.    *)
(* Totals: how much the peers have to write.  Kinds: how they behave.      *)
(***************************************************************************)
EXTENDS Integers, Sequences

CONSTANTS Capacity, MaxRecv, Totals, Kinds

Conn == {"client", "server"}
Other(w) == IF w = "client" THEN "server" ELSE "client"

\* A peer reads and writes independently; reads only when it has written all;
\* never reads.
Behaviours == {"both", "writesFirst", "neverReads"}

ASSUME DuplexAssumption ==
  /\ Capacity \in Nat \ {0}
  /\ MaxRecv \in Nat \ {0}
  /\ Totals \subseteq [Conn -> Nat]
  /\ Kinds \subseteq [Conn -> Behaviours]

VARIABLES
  total, kind,  \* what each peer has to write, and how it behaves
  left,         \* what it has not written yet
  inbuf,        \* what it has written and the proxy has not received
  pending,      \* what the proxy has for it and has not handed to sendto
  outbuf,       \* what sendto has taken and it has not read
  got,          \* what it has read
  blocking,     \* whether its socket blocks
  readAZero,    \* whether its end of file has been received (its filter quits)
  stage, todo   \* where the loop is; the poll's events still to handle

peerVars == << left, inbuf, outbuf, got >>
dvars == << total, kind, left, inbuf, pending, outbuf, got, blocking,
            readAZero, stage, todo >>

\* "sending": socksendto polls for room; "sendto": a blocking sendto waits.
Stages == {"compute", "work", "sending", "sendto", "done", "timedOut", "asserted"}

Least(a, b) == IF a <= b THEN a ELSE b
None == [w \in Conn |-> 0]

Init ==
  /\ total \in Totals
  /\ kind \in Kinds
  /\ left = total
  /\ inbuf = None /\ pending = None /\ outbuf = None /\ got = None
  /\ blocking \in [Conn -> BOOLEAN]
  /\ readAZero = [w \in Conn |-> FALSE]
  /\ stage = "compute"
  /\ todo = << >>

-----------------------------------------------------------------------------
(* The peers.  One that has written all closes its sending side.           *)

MayWrite(w) == left[w] > 0 /\ inbuf[w] < Capacity
MayRead(w) == /\ outbuf[w] > 0
              /\ \/ kind[w] = "both"
                 \/ kind[w] = "writesFirst" /\ left[w] = 0

PeerWrites(w) ==
  /\ MayWrite(w)
  /\ left' = [left EXCEPT ![w] = @ - 1]
  /\ inbuf' = [inbuf EXCEPT ![w] = @ + 1]
  /\ UNCHANGED << total, kind, pending, outbuf, got, blocking, readAZero, stage, todo >>

PeerReads(w) ==
  /\ MayRead(w)
  /\ outbuf' = [outbuf EXCEPT ![w] = @ - 1]
  /\ got' = [got EXCEPT ![w] = @ + 1]
  /\ UNCHANGED << total, kind, left, inbuf, pending, blocking, readAZero, stage, todo >>

\* The peers do nothing more by themselves: a timeout is far longer than what
\* they take for a step.
Quiet == \A w \in Conn : ~MayWrite(w) /\ ~MayRead(w)

-----------------------------------------------------------------------------
(* The loop: what to poll for, and the poll.                               *)

\* Faulty variant of Readable: an end of file is not seen.
ReadableData(w) == inbuf[w] > 0

Readable(w) == inbuf[w] > 0 \/ left[w] = 0
Writable(w) == outbuf[w] < Capacity

Events == {"send", "recv"} \X Conn
Requested(e) == IF e[1] = "send" THEN pending[e[2]] > 0 ELSE ~readAZero[e[2]]
Ready(e) == Requested(e) /\ IF e[1] = "send" THEN Writable(e[2]) ELSE Readable(e[2])

\* What select finds ready, in the order it is handled.
IfReady(op, w) == IF Ready(<< op, w >>) THEN << << op, w >> >> ELSE << >>
Polled == IfReady("send", "client") \o IfReady("send", "server")
          \o IfReady("recv", "client") \o IfReady("recv", "server")

\* Both filters have quit, and everything is written.
Finish ==
  /\ stage = "compute"
  /\ \A e \in Events : ~Requested(e)
  /\ stage' = "done"
  /\ UNCHANGED << total, kind, peerVars, pending, blocking, readAZero, todo >>

PollReady ==
  /\ stage = "compute"
  /\ Polled # << >>
  /\ stage' = "work"
  /\ todo' = Polled
  /\ UNCHANGED << total, kind, peerVars, pending, blocking, readAZero >>

PollTimeout ==
  /\ stage = "compute"
  /\ \E e \in Events : Requested(e)
  /\ Polled = << >>
  /\ Quiet
  /\ stage' = "timedOut"
  /\ UNCHANGED << total, kind, peerVars, pending, blocking, readAZero, todo >>

-----------------------------------------------------------------------------
(* socksendto: poll for room, then sendto, until all is sent.              *)

AtEvent(op) == stage \in {"work", "sending", "sendto"} /\ Head(todo)[1] = op
To == Head(todo)[2]

NextEvent ==
  /\ todo' = Tail(todo)
  /\ stage' = IF Tail(todo) = << >> THEN "compute" ELSE "work"

\* Faulty variant of SendTo: a turn starts again at the front of the buffer.
SendToFromFront ==
  /\ AtEvent("send")
  /\ Writable(To)
  /\ LET n == Least(Capacity - outbuf[To], pending[To])
     IN  /\ outbuf' = [outbuf EXCEPT ![To] = @ + n]
         /\ IF n = pending[To]
              THEN NextEvent /\ pending' = [pending EXCEPT ![To] = 0]
              ELSE stage' = "sending" /\ UNCHANGED << todo, pending >>
  /\ UNCHANGED << total, kind, left, inbuf, got, blocking, readAZero >>

\* sendto takes what there is room for; one that blocks returns when it has taken
\* all.
SendTo ==
  /\ AtEvent("send")
  /\ Writable(To)
  /\ LET n == Least(Capacity - outbuf[To], pending[To])
     IN  /\ outbuf' = [outbuf EXCEPT ![To] = @ + n]
         /\ pending' = [pending EXCEPT ![To] = @ - n]
         /\ IF n = pending[To]
              THEN NextEvent
              ELSE /\ stage' = IF blocking[To] THEN "sendto" ELSE "sending"
                   /\ UNCHANGED todo
  /\ UNCHANGED << total, kind, left, inbuf, got, blocking, readAZero >>

\* The poll in socksendto times out: the count is short, and Assert(res == len).
SendTimeout ==
  /\ stage = "sending"
  /\ ~Writable(To)
  /\ Quiet
  /\ stage' = "asserted"
  /\ UNCHANGED << total, kind, peerVars, pending, blocking, readAZero, todo >>

-----------------------------------------------------------------------------

\* Faulty variant of Received: a connection with output pending is not read.
ReceivedWhenSent(w) == IF pending[w] > 0 THEN 0 ELSE Least(MaxRecv, inbuf[w])

\* What one recv returns.
Received(w) == Least(MaxRecv, inbuf[w])

\* Its bytes go through the filter to the other connection.  0 bytes: the end of
\* file, and the filter quits.
Recv ==
  /\ AtEvent("recv")
  /\ inbuf' = [inbuf EXCEPT ![To] = @ - Received(To)]
  /\ pending' = [pending EXCEPT ![Other(To)] = @ + Received(To)]
  /\ readAZero' = [readAZero EXCEPT ![To] = (Received(To) = 0)]
  /\ NextEvent
  /\ UNCHANGED << total, kind, left, outbuf, got, blocking >>

Proxy == Finish \/ PollReady \/ PollTimeout \/ SendTo \/ SendTimeout \/ Recv

Next ==
  \/ Proxy
  \/ \E w \in Conn : PeerWrites(w) \/ PeerReads(w)

Spec == Init /\ [][Next]_dvars

\* The worker's thread runs on, and so does each peer, as far as it writes and
\* reads at all.
FairSpec ==
  /\ Spec
  /\ WF_dvars(Proxy)
  /\ \A w \in Conn : WF_dvars(PeerWrites(w)) /\ WF_dvars(PeerReads(w))

-----------------------------------------------------------------------------

\* The values the variables range over.
TypeOK ==
  /\ total \in [Conn -> Nat]
  /\ left \in [Conn -> Nat] /\ pending \in [Conn -> Nat] /\ got \in [Conn -> Nat]
  /\ inbuf \in [Conn -> 0..Capacity] /\ outbuf \in [Conn -> 0..Capacity]
  /\ blocking \in [Conn -> BOOLEAN]
  /\ readAZero \in [Conn -> BOOLEAN]
  /\ stage \in Stages
  /\ todo \in Seq(Events)
  /\ stage \in {"work", "sending", "sendto"} => todo # << >>

\* However a send was cut into turns and a recv into pieces, every byte that a
\* peer has written is in exactly one place on its way to the other.
EveryByteIsSomewhere ==
  \A w \in Conn :
    total[w] = left[w] + inbuf[w] + pending[Other(w)] + outbuf[Other(w)] + got[Other(w)]

GaveUp == stage \in {"asserted", "timedOut"}

\* The two directions do not hold each other up (Parasock.cpp 135-137): the proxy
\* gives up only on a peer that never reads, and that has a full buffer.
NotHeldUp ==
  GaveUp => \E w \in Conn : kind[w] = "neverReads" /\ outbuf[w] = Capacity

\* As socksendto waits for room, that takes peers that are sent no more than fits
\* into their buffer as long as they only write.  Then nothing is given up but what
\* is for a peer that never reads, in whatever order the polls find the sockets.
OnlyAFullPeerStopsIt ==
  (\A w \in Conn : kind[w] = "writesFirst" => total[Other(w)] <= Capacity) => NotHeldUp

\* A connection works out if both of its peers read while they write, or one
\* does and what it writes fits in the other's buffer.
Fits == \E w \in Conn :
          /\ kind[Other(w)] = "both"
          /\ \/ kind[w] = "both"
             \/ kind[w] = "writesFirst" /\ total[Other(w)] <= Capacity

\* Such a connection is served to its end, whether the sockets block or not and
\* however much there is to send: nobody waits for ever, and nothing times out.
FittingPeersAreServed ==
  Fits ~> /\ stage = "done"
          /\ \A w \in Conn : got[w] = total[Other(w)]

=============================================================================
