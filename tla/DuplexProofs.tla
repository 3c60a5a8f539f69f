----------------------------- MODULE DuplexProofs -----------------------------
(***************************************************************************)
(* EveryByteIsSomewhere and OnlyAFullPeerStopsIt of Duplex for any         *)
(* capacity of the sockets, any size of a recv and any amount of data.     *)
(***************************************************************************)
EXTENDS Duplex, SequenceTheorems, TLAPS

IInv == TypeOK /\ EveryByteIsSomewhere

LEMMA Others == \A w \in Conn : Other(w) \in Conn /\ Other(w) # w /\ Other(Other(w)) = w
BY DEF Conn, Other

LEMMA Counts ==
  ASSUME TypeOK, NEW w \in Conn
  PROVE  /\ total[w] \in Nat /\ left[w] \in Nat /\ pending[w] \in Nat /\ got[w] \in Nat
         /\ inbuf[w] \in Nat /\ inbuf[w] <= Capacity
         /\ outbuf[w] \in Nat /\ outbuf[w] <= Capacity
BY DuplexAssumption DEF TypeOK

LEMMA CountsNext ==
  ASSUME TypeOK', NEW w \in Conn
  PROVE  /\ total'[w] \in Nat /\ left'[w] \in Nat /\ pending'[w] \in Nat
         /\ got'[w] \in Nat /\ inbuf'[w] \in Nat /\ outbuf'[w] \in Nat
BY DuplexAssumption DEF TypeOK

\* A step keeps the equation if it keeps each of the sums that it may change.
LEMMA SumsAreKept ==
  ASSUME IInv, TypeOK',
         \A w \in Conn : total'[w] = total[w],
         \A w \in Conn :
           \/ /\ left'[w] + inbuf'[w] = left[w] + inbuf[w]
              /\ pending'[Other(w)] = pending[Other(w)]
              /\ outbuf'[Other(w)] + got'[Other(w)] = outbuf[Other(w)] + got[Other(w)]
           \/ /\ left'[w] = left[w]
              /\ inbuf'[w] + pending'[Other(w)] = inbuf[w] + pending[Other(w)]
              /\ outbuf'[Other(w)] = outbuf[Other(w)] /\ got'[Other(w)] = got[Other(w)]
           \/ /\ left'[w] = left[w] /\ inbuf'[w] = inbuf[w]
              /\ pending'[Other(w)] + outbuf'[Other(w)] = pending[Other(w)] + outbuf[Other(w)]
              /\ got'[Other(w)] = got[Other(w)]
  PROVE  EveryByteIsSomewhere'
PROOF
<1> SUFFICES ASSUME NEW w \in Conn
             PROVE  total'[w] = left'[w] + inbuf'[w] + pending'[Other(w)]
                                + outbuf'[Other(w)] + got'[Other(w)]
  BY DEF EveryByteIsSomewhere
<1> DEFINE u == Other(w)
<1>1. u \in Conn
  BY Others
<1>2. total[w] = left[w] + inbuf[w] + pending[u] + outbuf[u] + got[u]
  BY DEF IInv, EveryByteIsSomewhere
<1>3. /\ left[w] \in Nat /\ inbuf[w] \in Nat /\ pending[u] \in Nat
      /\ outbuf[u] \in Nat /\ got[u] \in Nat
  BY <1>1, Counts DEF IInv
<1>4. /\ left'[w] \in Nat /\ inbuf'[w] \in Nat /\ pending'[u] \in Nat
      /\ outbuf'[u] \in Nat /\ got'[u] \in Nat
  BY <1>1, CountsNext
<1> HIDE DEF u
<1> QED
  BY <1>2, <1>3, <1>4 DEF u

LEMMA InitIInv == Init => IInv
PROOF
<1> SUFFICES ASSUME Init PROVE IInv
  OBVIOUS
<1>1. TypeOK
  BY DuplexAssumption DEF Init, TypeOK, None, Stages, Events
<1>2. EveryByteIsSomewhere
  <2>1. \A w \in Conn : total[w] \in Nat /\ Other(w) \in Conn
    BY Others, DuplexAssumption DEF Init
  <2> QED
    BY <2>1 DEF Init, EveryByteIsSomewhere, None
<1> QED
  BY <1>1, <1>2 DEF IInv

\* The event that is handled, and what is left behind it.
LEMMA EventsAreLeft ==
  ASSUME TypeOK, todo # << >>
  PROVE  Head(todo) \in Events /\ To \in Conn /\ Tail(todo) \in Seq(Events)
PROOF
<1>1. Head(todo) \in Events /\ Tail(todo) \in Seq(Events)
  BY HeadTailProperties DEF TypeOK
<1> QED
  BY <1>1 DEF To, Events

LEMMA PeersKeep ==
  ASSUME IInv, NEW w \in Conn, PeerWrites(w) \/ PeerReads(w)
  PROVE  IInv'
PROOF
<1> USE DuplexAssumption
<1>1. CASE PeerWrites(w)
  <2>1. /\ left' = [left EXCEPT ![w] = @ - 1] /\ left[w] > 0
        /\ inbuf' = [inbuf EXCEPT ![w] = @ + 1] /\ inbuf[w] < Capacity
        /\ UNCHANGED << total, kind, pending, outbuf, got, blocking, readAZero, stage, todo >>
    BY <1>1 DEF PeerWrites, MayWrite
  <2>2. left[w] - 1 \in Nat /\ inbuf[w] + 1 \in 0..Capacity
    BY <2>1, Counts DEF IInv
  <2>3. TypeOK'
    BY <2>1, <2>2 DEF IInv, TypeOK
  <2>4. ASSUME NEW v \in Conn
        PROVE  left'[v] + inbuf'[v] = left[v] + inbuf[v]
    BY <2>1, Counts DEF IInv, TypeOK
  <2>5. EveryByteIsSomewhere'
    BY <2>1, <2>3, <2>4, Others, SumsAreKept
  <2> QED
    BY <2>3, <2>5 DEF IInv
<1>2. CASE PeerReads(w)
  <2>1. /\ outbuf' = [outbuf EXCEPT ![w] = @ - 1] /\ outbuf[w] > 0
        /\ got' = [got EXCEPT ![w] = @ + 1]
        /\ UNCHANGED << total, kind, left, inbuf, pending, blocking, readAZero, stage, todo >>
    BY <1>2 DEF PeerReads, MayRead
  <2>2. outbuf[w] - 1 \in 0..Capacity /\ got[w] + 1 \in Nat
    BY <2>1, Counts DEF IInv
  <2>3. TypeOK'
    BY <2>1, <2>2 DEF IInv, TypeOK
  <2>4. ASSUME NEW v \in Conn
        PROVE  outbuf'[v] + got'[v] = outbuf[v] + got[v]
    BY <2>1, Counts DEF IInv, TypeOK
  <2>5. EveryByteIsSomewhere'
    BY <2>1, <2>3, <2>4, Others, SumsAreKept
  <2> QED
    BY <2>3, <2>5 DEF IInv
<1> QED
  BY <1>1, <1>2

LEMMA PollKeeps ==
  ASSUME IInv, Finish \/ PollReady \/ PollTimeout \/ SendTimeout
  PROVE  IInv'
PROOF
<1>1. Polled \in Seq(Events)
  <2>1. ASSUME NEW op \in {"send", "recv"}, NEW w \in Conn
        PROVE  IfReady(op, w) \in Seq(Events)
    <3>1. << op, w >> \in Events
      BY DEF Events
    <3> QED
      BY <3>1 DEF IfReady
  <2>2. /\ IfReady("send", "client") \in Seq(Events)
        /\ IfReady("send", "server") \in Seq(Events)
        /\ IfReady("recv", "client") \in Seq(Events)
        /\ IfReady("recv", "server") \in Seq(Events)
    BY <2>1 DEF Conn
  <2> QED
    BY <2>2, ConcatProperties DEF Polled
<1>2. TypeOK'
  BY <1>1 DEF IInv, TypeOK, Stages, Finish, PollReady, PollTimeout, SendTimeout, peerVars
<1>3. EveryByteIsSomewhere'
  BY DEF IInv, EveryByteIsSomewhere, Finish, PollReady, PollTimeout, SendTimeout, peerVars
<1> QED
  BY <1>2, <1>3 DEF IInv

\* A turn of socksendto: n bytes change their place.
LEMMA SendKeeps ==
  ASSUME IInv, SendTo
  PROVE  IInv'
PROOF
<1> USE DuplexAssumption
<1> DEFINE w == To
           n == Least(Capacity - outbuf[w], pending[w])
<1>1. todo # << >> /\ w \in Conn /\ Tail(todo) \in Seq(Events)
  BY EventsAreLeft DEF IInv, TypeOK, SendTo, AtEvent
<1>2. n \in Nat /\ n <= pending[w] /\ outbuf[w] + n <= Capacity
  BY <1>1 DEF IInv, TypeOK, Least
<1>3. /\ outbuf' = [outbuf EXCEPT ![w] = @ + n]
      /\ pending' = [pending EXCEPT ![w] = @ - n]
      /\ UNCHANGED << total, kind, left, inbuf, got, blocking, readAZero >>
  BY DEF SendTo
<1>4. /\ stage' \in Stages /\ todo' \in Seq(Events)
      /\ stage' \in {"work", "sending", "sendto"} => todo' # << >>
  BY <1>1 DEF IInv, TypeOK, SendTo, NextEvent, Stages
<1> HIDE DEF w, n
<1>5. outbuf[w] + n \in 0..Capacity /\ pending[w] - n \in Nat
  BY <1>1, <1>2, Counts DEF IInv
<1>6. TypeOK'
  BY <1>1, <1>3, <1>4, <1>5 DEF IInv, TypeOK
<1>7. ASSUME NEW v \in Conn
      PROVE  pending'[v] + outbuf'[v] = pending[v] + outbuf[v]
  BY <1>1, <1>2, <1>3, Counts DEF IInv, TypeOK
<1>8. EveryByteIsSomewhere'
  BY <1>3, <1>6, <1>7, Others, SumsAreKept
<1> QED
  BY <1>6, <1>8 DEF IInv

\* A recv: what it returns goes to the other connection.
LEMMA RecvKeeps ==
  ASSUME IInv, Recv
  PROVE  IInv'
PROOF
<1> USE DuplexAssumption
<1> DEFINE w == To
           n == Received(w)
<1>1. todo # << >> /\ w \in Conn /\ Tail(todo) \in Seq(Events)
  BY EventsAreLeft DEF IInv, TypeOK, Recv, AtEvent
<1>2. n \in Nat /\ n <= inbuf[w]
  BY <1>1 DEF IInv, TypeOK, Received, Least
<1>3. /\ inbuf' = [inbuf EXCEPT ![w] = @ - n]
      /\ pending' = [pending EXCEPT ![Other(w)] = @ + n]
      /\ readAZero' = [readAZero EXCEPT ![w] = (n = 0)]
      /\ UNCHANGED << total, kind, left, outbuf, got, blocking >>
  BY DEF Recv
<1>4. /\ stage' \in Stages /\ todo' \in Seq(Events)
      /\ stage' \in {"work", "sending", "sendto"} => todo' # << >>
  BY <1>1 DEF IInv, TypeOK, Recv, NextEvent, Stages
<1> HIDE DEF w, n
<1>5. TypeOK'
  <2>1. readAZero' \in [Conn -> BOOLEAN]
    BY <1>3 DEF IInv, TypeOK
  <2>2. /\ inbuf' \in [Conn -> 0..Capacity]
        /\ pending' \in [Conn -> Nat]
    <3>1. inbuf[w] - n \in 0..Capacity /\ Other(w) \in Conn /\ pending[Other(w)] + n \in Nat
      BY <1>1, <1>2, Others, Counts DEF IInv
    <3> QED
      BY <1>1, <1>3, <3>1 DEF IInv, TypeOK
  <2> QED
    BY <1>3, <1>4, <2>1, <2>2 DEF IInv, TypeOK
<1>6. ASSUME NEW v \in Conn
      PROVE  inbuf'[v] + pending'[Other(v)] = inbuf[v] + pending[Other(v)]
  <2>1. Other(v) \in Conn /\ Other(w) \in Conn /\ (Other(v) = Other(w) <=> v = w)
    BY <1>1, Others
  <2>2. /\ inbuf[v] \in Nat /\ inbuf[w] \in Nat
        /\ pending[Other(v)] \in Nat /\ pending[Other(w)] \in Nat
    BY <1>1, <2>1, Counts DEF IInv
  <2>3. /\ inbuf'[v] = IF v = w THEN inbuf[w] - n ELSE inbuf[v]
        /\ pending'[Other(v)] = IF v = w THEN pending[Other(w)] + n ELSE pending[Other(v)]
    BY <1>1, <1>3, <2>1 DEF IInv, TypeOK
  <2> QED
    BY <1>2, <2>2, <2>3
<1>7. EveryByteIsSomewhere'
  BY <1>3, <1>5, <1>6, Others, SumsAreKept
<1> QED
  BY <1>5, <1>7 DEF IInv

LEMMA NextIInv == IInv /\ [Next]_dvars => IInv'
PROOF
<1> SUFFICES ASSUME IInv, [Next]_dvars PROVE IInv'
  OBVIOUS
<1>1. CASE Proxy
  BY <1>1, PollKeeps, SendKeeps, RecvKeeps DEF Proxy
<1>2. CASE \E w \in Conn : PeerWrites(w) \/ PeerReads(w)
  BY <1>2, PeersKeep
<1>3. CASE UNCHANGED dvars
  BY <1>3 DEF dvars, IInv, TypeOK, EveryByteIsSomewhere
<1> QED
  BY <1>1, <1>2, <1>3 DEF Next

\* However socksendto and recv cut the data, with sockets that block or not, each
\* byte that a peer has written is in one place on its way to the other
\* (Parasock.cpp 420-640, NetUtils.cpp 57-110).
THEOREM NoByteIsLostOrDoubled == Spec => []EveryByteIsSomewhere
PROOF
<1>1. IInv => EveryByteIsSomewhere
  BY DEF IInv
<1> QED
  BY <1>1, InitIInv, NextIInv, PTL DEF Spec

-----------------------------------------------------------------------------
(* Why the proxy gives up.  A timeout means that the peers are at rest, and *)
(* that outlasts it: the proxy does not act any more, and the peers cannot. *)
(* A send that waits has something left to send.                            *)

Fitting == \A w \in Conn : kind[w] = "writesFirst" => total[Other(w)] <= Capacity

StopInv ==
  /\ kind \in [Conn -> Behaviours]
  /\ stage \in {"sending", "sendto"} => Head(todo)[1] = "send" /\ pending[To] > 0
  /\ GaveUp => Quiet
  /\ OnlyAFullPeerStopsIt

\* A connection without room, whose peer is at rest and for which there is more, has
\* a peer that never reads: it is sent more than fits.
LEMMA FullAndQuiet ==
  ASSUME IInv, kind \in [Conn -> Behaviours], Fitting, NEW w \in Conn,
         ~Writable(w), Quiet, pending[w] > 0
  PROVE  kind[w] = "neverReads" /\ outbuf[w] = Capacity
PROOF
<1> DEFINE u == Other(w)
<1>1. u \in Conn /\ Other(u) = w
  BY Others
<1>2. outbuf[w] = Capacity /\ outbuf[w] > 0
  BY Counts, DuplexAssumption DEF Writable, IInv
<1>3. ~MayRead(w)
  BY DEF Quiet
<1>4. kind[w] # "both"
  BY <1>2, <1>3 DEF MayRead
<1>5. total[u] = left[u] + inbuf[u] + pending[w] + outbuf[w] + got[w]
  BY <1>1 DEF IInv, EveryByteIsSomewhere
<1>6. /\ left[u] \in Nat /\ inbuf[u] \in Nat /\ pending[w] \in Nat
      /\ outbuf[w] \in Nat /\ got[w] \in Nat /\ total[u] \in Nat
  BY <1>1, Counts DEF IInv
<1>7. total[u] > Capacity
  BY <1>2, <1>5, <1>6, DuplexAssumption
<1>8. kind[w] # "writesFirst"
  BY <1>6, <1>7, DuplexAssumption DEF Fitting
<1> QED
  BY <1>2, <1>4, <1>8 DEF Behaviours

\* No event of an empty poll is ready.
LEMMA NothingReady ==
  ASSUME Polled = << >>, NEW e \in Events
  PROVE  ~Ready(e)
PROOF
<1>1. PICK op \in {"send", "recv"}, w \in Conn : e = << op, w >>
  BY DEF Events
<1>2. \A o \in {"send", "recv"}, v \in Conn : IfReady(o, v) \in Seq({<< o, v >>})
  <2> TAKE o \in {"send", "recv"}, v \in Conn
  <2> DEFINE e1 == << o, v >>
  <2>1. << >> \in Seq({e1}) /\ << e1 >> \in Seq({e1})
    <3> HIDE DEF e1
    <3> QED
      OBVIOUS
  <2> QED
    BY <2>1 DEF IfReady
<1>3. /\ IfReady("send", "client") = << >> /\ IfReady("send", "server") = << >>
      /\ IfReady("recv", "client") = << >> /\ IfReady("recv", "server") = << >>
  <2> DEFINE sc == IfReady("send", "client")
             ss == IfReady("send", "server")
             rc == IfReady("recv", "client")
             rs == IfReady("recv", "server")
  <2>1. sc \in Seq(Events) /\ ss \in Seq(Events) /\ rc \in Seq(Events) /\ rs \in Seq(Events)
    BY DEF IfReady, Events, Conn
  <2>2. sc \o ss \o rc \o rs = << >>
    BY DEF Polled
  <2> HIDE DEF sc, ss, rc, rs
  <2>3. Len(sc) + Len(ss) + Len(rc) + Len(rs) = 0
    BY <2>1, <2>2
  <2>4. Len(sc) = 0 /\ Len(ss) = 0 /\ Len(rc) = 0 /\ Len(rs) = 0
    BY <2>1, <2>3
  <2>5. sc = << >> /\ ss = << >> /\ rc = << >> /\ rs = << >>
    BY <2>1, <2>4, EmptySeq
  <2> QED
    BY <2>5 DEF sc, ss, rc, rs
<1>4. IfReady(op, w) = << >>
  BY <1>3 DEF Conn
<1> QED
  BY <1>1, <1>4 DEF IfReady

\* The loop's poll times out only if it waits for room: what a peer at rest has not
\* written, it cannot write for want of room, and then there is something to recv.
LEMMA PollStops ==
  ASSUME IInv, kind \in [Conn -> Behaviours], Fitting, PollTimeout
  PROVE  \E w \in Conn : kind[w] = "neverReads" /\ outbuf[w] = Capacity
PROOF
<1>1. PICK e \in Events : Requested(e)
  BY DEF PollTimeout
<1>2. ~Ready(e) /\ Quiet
  BY NothingReady DEF PollTimeout
<1>3. e[2] \in Conn /\ TypeOK
  BY DEF Events, IInv
<1>4. e[1] = "send"
  BY <1>1, <1>2, <1>3, Counts, DuplexAssumption DEF Ready, Readable, Quiet, MayWrite
<1>5. ~Writable(e[2]) /\ pending[e[2]] > 0
  BY <1>1, <1>2, <1>4 DEF Ready, Requested
<1> QED
  BY <1>2, <1>3, <1>5, FullAndQuiet

LEMMA InitStopInv == Init => StopInv
BY DuplexAssumption DEF Init, StopInv, GaveUp, OnlyAFullPeerStopsIt, NotHeldUp

\* What is left of a send when a turn of socksendto does not take all.
LEMMA SendWaits ==
  ASSUME IInv, SendTo
  PROVE  stage' \in {"sending", "sendto"} => Head(todo')[1] = "send" /\ pending'[To'] > 0
PROOF
<1> SUFFICES ASSUME stage' \in {"sending", "sendto"}
             PROVE  Head(todo')[1] = "send" /\ pending'[To'] > 0
  OBVIOUS
<1> DEFINE w == To
           n == Least(Capacity - outbuf[w], pending[w])
<1>1. todo # << >> /\ w \in Conn
  BY EventsAreLeft DEF IInv, TypeOK, SendTo, AtEvent
<1>2. n # pending[w] /\ todo' = todo
  BY DEF SendTo, NextEvent
<1>3. pending' = [pending EXCEPT ![w] = @ - n] /\ Head(todo)[1] = "send"
  BY DEF SendTo, AtEvent
<1>4. pending[w] \in Nat /\ outbuf[w] \in Nat /\ outbuf[w] <= Capacity /\ Capacity \in Nat
  BY <1>1, Counts, DuplexAssumption DEF IInv
<1>5. pending[w] - n > 0
  BY <1>2, <1>4 DEF Least
<1>6. pending'[w] = pending[w] - n
  BY <1>1, <1>3 DEF IInv, TypeOK
<1>7. To' = w
  BY <1>2 DEF To
<1> QED
  BY <1>2, <1>3, <1>5, <1>6, <1>7

LEMMA NextStopInv == IInv /\ StopInv /\ [Next]_dvars => StopInv'
PROOF
<1> SUFFICES ASSUME IInv, StopInv, [Next]_dvars PROVE StopInv'
  OBVIOUS
<1>1. CASE Finish \/ PollReady
  BY <1>1 DEF Finish, PollReady, StopInv, GaveUp, OnlyAFullPeerStopsIt, NotHeldUp
<1>2. CASE SendTo
  <2>1. kind' = kind /\ ~GaveUp'
    BY <1>2 DEF SendTo, AtEvent, NextEvent, GaveUp
  <2> QED
    BY <1>2, <2>1, SendWaits DEF StopInv, OnlyAFullPeerStopsIt, NotHeldUp
<1>3. CASE Recv
  <2>1. kind' = kind /\ ~GaveUp' /\ stage' \notin {"sending", "sendto"}
    BY <1>3 DEF Recv, AtEvent, NextEvent, GaveUp
  <2> QED
    BY <2>1 DEF StopInv, OnlyAFullPeerStopsIt, NotHeldUp
<1>4. CASE PollTimeout
  <2>1. /\ Quiet' /\ kind' = kind /\ outbuf' = outbuf /\ total' = total
        /\ stage' \notin {"sending", "sendto"}
    BY <1>4 DEF PollTimeout, Quiet, MayWrite, MayRead, peerVars
  <2>2. Fitting => \E w \in Conn : kind[w] = "neverReads" /\ outbuf[w] = Capacity
    BY <1>4, PollStops DEF StopInv
  <2> QED
    BY <2>1, <2>2 DEF StopInv, OnlyAFullPeerStopsIt, NotHeldUp, Fitting
<1>5. CASE SendTimeout
  <2>1. /\ Quiet' /\ kind' = kind /\ outbuf' = outbuf /\ total' = total
        /\ stage' \notin {"sending", "sendto"}
    BY <1>5 DEF SendTimeout, Quiet, MayWrite, MayRead, peerVars
  <2>2. todo # << >>
    BY <1>5 DEF SendTimeout, IInv, TypeOK
  <2>3. To \in Conn /\ pending[To] > 0
    BY <1>5, <2>2, EventsAreLeft DEF SendTimeout, IInv, StopInv
  <2>4. Fitting => kind[To] = "neverReads" /\ outbuf[To] = Capacity
    BY <1>5, <2>3, FullAndQuiet DEF SendTimeout, StopInv
  <2> QED
    BY <2>1, <2>3, <2>4 DEF StopInv, OnlyAFullPeerStopsIt, NotHeldUp, Fitting
<1>6. ASSUME NEW w \in Conn, PeerWrites(w) \/ PeerReads(w)
      PROVE  StopInv'
  <2>1. /\ ~Quiet /\ stage' = stage /\ kind' = kind /\ total' = total
        /\ todo' = todo /\ pending' = pending
    BY <1>6 DEF Quiet, PeerWrites, PeerReads
  <2> QED
    BY <2>1 DEF StopInv, GaveUp, OnlyAFullPeerStopsIt, NotHeldUp, To
<1>7. CASE UNCHANGED dvars
  BY <1>7 DEF dvars, StopInv, GaveUp, Quiet, MayWrite, MayRead, OnlyAFullPeerStopsIt,
              NotHeldUp, To
<1> QED
  BY <1>1, <1>2, <1>3, <1>4, <1>5, <1>6, <1>7 DEF Next, Proxy

\* Unless a peer that writes first is sent more than fits into its buffer, the
\* proxy's polls time out only on a peer that never reads and whose buffer is full
\* (NetUtils.cpp 57-110, Parasock.cpp 399-403), whatever the capacities and amounts.
THEOREM OnlyFullPeersStopIt == Spec => []OnlyAFullPeerStopsIt
PROOF
<1>1. StopInv => OnlyAFullPeerStopsIt
  BY DEF StopInv
<1> QED
  BY <1>1, InitIInv, NextIInv, InitStopInv, NextStopInv, PTL DEF Spec

=============================================================================
