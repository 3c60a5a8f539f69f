------------------------- MODULE HandleRequestProofs -------------------------
(***************************************************************************)
(* Proofs about a worker's life, for all requests, responses, peers and    *)
(* faults: no byte is lost between the calls of the event loop, and the    *)
(* server is sent the rewritten request, or what comes through the tunnel. *)
(* The steps of the loop are LoopProofs'; here are the phases of           *)
(* handleIncomingRequest, and what each of them leaves in the deque of the *)
(* server's SockBuf.                                                       *)
(***************************************************************************)
EXTENDS HandleRequest, LoopProofs

\* What the deque of the server's SockBuf may hold.
Sent == Alphabet \union {"r", "n", "request", "header", "transfer-encoding"}
Record == PlaceholderOf(Sent)

-----------------------------------------------------------------------------
(* A deque: known placeholders with a text and, behind them, holes.        *)

\* The text of the first n placeholders.
TextThrough(phs, n) == Seqs!FlattenSeq([i \in 1..n |-> phs[i].contents])

\* The last k placeholders are holes, what is before them has the text, and each
\* placeholder has its own ticket below the limit.
Queue(phs, text, k, limit) ==
  /\ phs \in Seq(Record)
  /\ k \in 0..Len(phs)
  /\ \A i \in 1..Len(phs) : phs[i].contentsKnown <=> i <= Len(phs) - k
  /\ \A i \in 1..Len(phs) : phs[i].id < limit
  /\ \A i, j \in 1..Len(phs) : phs[i].id = phs[j].id => i = j
  /\ TextThrough(phs, Len(phs) - k) = text

LEMMA RecordFields ==
  ASSUME NEW phs \in Seq(Record)
  PROVE  /\ Len(phs) \in Nat /\ DOMAIN phs = 1..Len(phs)
         /\ \A i \in 1..Len(phs) : /\ phs[i] \in Record
                                   /\ phs[i].id \in Nat
                                   /\ phs[i].contentsKnown \in BOOLEAN
                                   /\ phs[i].contents \in Seq(Sent)
PROOF
<1>1. Len(phs) \in Nat /\ DOMAIN phs = 1..Len(phs)
  BY LenProperties
<1>2. \A i \in 1..Len(phs) : phs[i] \in Record
  BY ElementOfSeq
<1> QED
  BY <1>1, <1>2 DEF Record, PlaceholderOf

\* A sequence that has a and then b.
LEMMA Followed ==
  ASSUME NEW T, NEW a \in Seq(T), NEW b \in Seq(T), NEW c \in Seq(T),
         Len(c) = Len(a) + Len(b),
         \A i \in 1..Len(a) : c[i] = a[i],
         \A i \in 1..Len(b) : c[Len(a) + i] = b[i]
  PROVE  c = a \o b
PROOF
<1>1. Len(a) \in Nat /\ Len(b) \in Nat
  BY LenProperties
<1>2. /\ a \o b \in Seq(T) /\ Len(a \o b) = Len(c)
      /\ \A i \in 1..(Len(a) + Len(b)) : (a \o b)[i] = IF i <= Len(a) THEN a[i] ELSE b[i - Len(a)]
  BY ConcatProperties
<1>3. ASSUME NEW i \in 1..Len(c) PROVE c[i] = (a \o b)[i]
  <2>1. CASE i <= Len(a)
    BY <1>1, <1>2, <2>1
  <2>2. CASE i > Len(a)
    <3>1. i - Len(a) \in 1..Len(b) /\ Len(a) + (i - Len(a)) = i
      BY <1>1, <2>2
    <3> QED
      BY <1>1, <1>2, <2>2, <3>1
  <2> QED
    BY <1>1, <2>1, <2>2
<1> QED
  BY <1>2, <1>3, SeqEqual

\* The contents of the first placeholders are a sequence of texts.
LEMMA ContentsAreTexts ==
  ASSUME NEW phs \in Seq(Record), NEW n \in 0..Len(phs)
  PROVE  [i \in 1..n |-> phs[i].contents] \in Seq(Seq(Sent))
PROOF
<1>1. n \in Nat /\ \A i \in 1..n : phs[i].contents \in Seq(Sent)
  BY RecordFields
<1> HIDE DEF Sent
<1> QED
  BY <1>1

LEMMA TextIsSent ==
  ASSUME NEW phs \in Seq(Record), NEW n \in 0..Len(phs)
  PROVE  TextThrough(phs, n) \in Seq(Sent)
PROOF
<1>1. [i \in 1..n |-> phs[i].contents] \in Seq(Seq(Sent))
  BY ContentsAreTexts
<1>2. << >> \in Seq(Seq(Sent))
  BY EmptySeq
<1> QED
  BY <1>1, <1>2, FlattenConcat DEF TextThrough

\* Nothing has no text, and the next placeholder's contents come to the text.
LEMMA TextOfNone ==
  ASSUME NEW phs
  PROVE  TextThrough(phs, 0) = << >>
PROOF
<1>1. [i \in 1..0 |-> phs[i].contents] = << >>
  OBVIOUS
<1>2. << >> \in Seq(Sent)
  BY EmptySeq
<1> QED
  BY <1>1, <1>2, FlattenShort DEF TextThrough

LEMMA TextGrows ==
  ASSUME NEW phs \in Seq(Record), NEW n \in Nat, n < Len(phs)
  PROVE  TextThrough(phs, n + 1) = TextThrough(phs, n) \o phs[n + 1].contents
PROOF
<1> DEFINE a == [i \in 1..n |-> phs[i].contents]
           b == << phs[n + 1].contents >>
           c == [i \in 1..(n + 1) |-> phs[i].contents]
<1>1. /\ a \in Seq(Seq(Sent)) /\ c \in Seq(Seq(Sent))
      /\ n + 1 \in 1..Len(phs)
  <2>1. n \in 0..Len(phs) /\ n + 1 \in 0..Len(phs) /\ n + 1 \in 1..Len(phs)
    BY RecordFields
  <2> QED
    BY <2>1, ContentsAreTexts
<1>2. phs[n + 1].contents \in Seq(Sent)
  BY <1>1, RecordFields
<1>3. Len(a) = n /\ Len(b) = 1 /\ Len(c) = n + 1
  OBVIOUS
<1>4. b \in Seq(Seq(Sent)) /\ b[1] = phs[n + 1].contents
  BY <1>2
<1>5. /\ \A i \in 1..n : a[i] = phs[i].contents
      /\ \A i \in 1..(n + 1) : c[i] = phs[i].contents
  OBVIOUS
<1>6. c = a \o b
  <2>1. /\ Len(c) = Len(a) + Len(b)
        /\ \A i \in 1..Len(a) : c[i] = a[i]
        /\ \A i \in 1..Len(b) : c[Len(a) + i] = b[i]
    BY <1>3, <1>4, <1>5
  <2> DEFINE T == Seq(Sent)
  <2>2. a \in Seq(T) /\ b \in Seq(T) /\ c \in Seq(T)
    BY <1>1, <1>4
  <2> HIDE DEF a, b, c, T
  <2> QED
    BY <2>1, <2>2, Followed
<1>7. Seqs!FlattenSeq(b) = phs[n + 1].contents
  BY <1>2, FlattenShort
<1>8. Seqs!FlattenSeq(c) = Seqs!FlattenSeq(a) \o Seqs!FlattenSeq(b)
  <2> HIDE DEF a, b, c, Sent
  <2> QED
    BY <1>1, <1>4, <1>6, FlattenConcat
<1> QED
  BY <1>7, <1>8 DEF TextThrough

\* The first placeholder's contents begin the text.
LEMMA TextFromFront ==
  ASSUME NEW phs \in Seq(Record), NEW n \in 1..Len(phs)
  PROVE  TextThrough(phs, n) = phs[1].contents \o TextThrough(Tail(phs), n - 1)
PROOF
<1> DEFINE a == << phs[1].contents >>
           b == [i \in 1..(n - 1) |-> Tail(phs)[i].contents]
           c == [i \in 1..n |-> phs[i].contents]
<1>1. /\ phs # << >> /\ 1 \in 1..Len(phs) /\ n \in Nat /\ n - 1 \in Nat
      /\ Tail(phs) \in Seq(Record) /\ Len(Tail(phs)) = Len(phs) - 1
      /\ \A i \in 1..(n - 1) : Tail(phs)[i] = phs[i + 1]
  <2>1. Len(phs) \in Nat /\ phs # << >>
    BY RecordFields
  <2> QED
    BY <2>1, HeadTailProperties
<1>2. phs[1].contents \in Seq(Sent)
  BY <1>1, RecordFields
<1>3. c \in Seq(Seq(Sent)) /\ b \in Seq(Seq(Sent))
  <2>1. n \in 0..Len(phs) /\ n - 1 \in 0..Len(Tail(phs))
    BY <1>1
  <2> QED
    BY <1>1, <2>1, ContentsAreTexts
<1>4. /\ a \in Seq(Seq(Sent)) /\ a[1] = phs[1].contents
      /\ Len(a) = 1 /\ Len(b) = n - 1 /\ Len(c) = n
  BY <1>1, <1>2
<1>5. /\ \A i \in 1..(n - 1) : b[i] = phs[i + 1].contents
      /\ \A i \in 1..n : c[i] = phs[i].contents
  BY <1>1
<1>6. c = a \o b
  <2>1. /\ Len(c) = Len(a) + Len(b)
        /\ \A i \in 1..Len(a) : c[i] = a[i]
        /\ \A i \in 1..Len(b) : c[Len(a) + i] = b[i]
    <3>1. \A i \in 1..(n - 1) : 1 + i \in 1..n /\ i + 1 = 1 + i
      BY <1>1
    <3> QED
      BY <1>1, <1>4, <1>5, <3>1
  <2> DEFINE T == Seq(Sent)
  <2>2. a \in Seq(T) /\ b \in Seq(T) /\ c \in Seq(T)
    BY <1>3, <1>4
  <2> HIDE DEF a, b, c, T
  <2> QED
    BY <2>1, <2>2, Followed
<1>7. Seqs!FlattenSeq(a) = phs[1].contents
  BY <1>2, FlattenShort
<1>8. Seqs!FlattenSeq(c) = Seqs!FlattenSeq(a) \o Seqs!FlattenSeq(b)
  <2> HIDE DEF a, b, c, Sent
  <2> QED
    BY <1>3, <1>4, <1>6, FlattenConcat
<1> QED
  BY <1>7, <1>8 DEF TextThrough

\* Deques that begin alike have the same text there.
LEMMA SameText ==
  ASSUME NEW phs, NEW other, NEW n,
         \A i \in 1..n : other[i].contents = phs[i].contents
  PROVE  TextThrough(other, n) = TextThrough(phs, n)
PROOF
<1>1. [i \in 1..n |-> other[i].contents] = [i \in 1..n |-> phs[i].contents]
  OBVIOUS
<1> QED
  BY <1>1 DEF TextThrough

-----------------------------------------------------------------------------
(* What is done to a deque.                                                *)

LEMMA QueueOfNone ==
  ASSUME NEW limit PROVE Queue(<< >>, << >>, 0, limit)
PROOF
<1>1. << >> \in Seq(Record) /\ Len(<< >>) = 0
  BY EmptySeq
<1> QED
  BY <1>1, TextOfNone DEF Queue

LEMMA QueueLater ==
  ASSUME NEW phs, NEW text, NEW k, NEW limit \in Nat, NEW later \in Nat, limit <= later,
         Queue(phs, text, k, limit)
  PROVE  Queue(phs, text, k, later)
PROOF
<1>1. \A i \in 1..Len(phs) : phs[i].id < later
  BY RecordFields DEF Queue
<1> QED
  BY <1>1 DEF Queue

\* outputPlaceholder: one hole more.
LEMMA QueueHole ==
  ASSUME NEW phs, NEW text, NEW k, NEW limit \in Nat, NEW ticket \in Nat, limit <= ticket,
         Queue(phs, text, k, limit)
  PROVE  Queue(OutputPlaceholder(phs, ticket), text, k + 1, ticket + 1)
PROOF
<1> DEFINE new == OutputPlaceholder(phs, ticket)
           n == Len(phs)
<1>1. /\ phs \in Seq(Record) /\ n \in Nat /\ k \in 0..n
      /\ \A i \in 1..n : phs[i].id \in Nat /\ phs[i].id < limit
      /\ \A i \in 1..n : phs[i].contentsKnown <=> i <= n - k
      /\ \A i, j \in 1..n : phs[i].id = phs[j].id => i = j
  BY RecordFields DEF Queue
<1>2. Hole(ticket) \in Record /\ Hole(ticket).id = ticket /\ ~Hole(ticket).contentsKnown
  BY EmptySeq DEF Hole, Record, PlaceholderOf
<1>3. /\ new \in Seq(Record) /\ Len(new) = n + 1
      /\ \A i \in 1..n : new[i] = phs[i]
      /\ new[n + 1] = Hole(ticket)
  BY <1>1, <1>2, AppendProperties DEF OutputPlaceholder
<1> HIDE DEF new, n
<1>4. TextThrough(new, (n + 1) - (k + 1)) = TextThrough(phs, n - k)
  <2>1. (n + 1) - (k + 1) = n - k /\ \A i \in 1..(n - k) : i \in 1..n
    BY <1>1
  <2>2. \A i \in 1..(n - k) : new[i].contents = phs[i].contents
    BY <1>3, <2>1
  <2> QED
    BY <2>1, <2>2, SameText
<1>5. TextThrough(phs, n - k) = text
  BY DEF Queue, n
<1>6. \A i \in 1..(n + 1) : \/ i \in 1..n /\ new[i] = phs[i]
                            \/ i = n + 1 /\ new[i] = Hole(ticket)
  BY <1>1, <1>3
<1>7. \A i \in 1..(n + 1) : new[i].id < ticket + 1
  BY <1>1, <1>2, <1>6
<1>8. \A i, j \in 1..(n + 1) : new[i].id = new[j].id => i = j
  BY <1>1, <1>2, <1>6, SMTT(60)
<1>9. \A i \in 1..(n + 1) : new[i].contentsKnown <=> i <= (n + 1) - (k + 1)
  BY <1>1, <1>2, <1>6
<1>10. k + 1 \in 0..(n + 1)
  BY <1>1
<1>11. Queue(new, text, k + 1, ticket + 1)
  BY <1>3, <1>4, <1>5, <1>7, <1>8, <1>9, <1>10 DEF Queue
<1> QED
  BY <1>11 DEF new

\* The front goes on the wire.
LEMMA QueueFront ==
  ASSUME NEW phs, NEW text, NEW k, NEW limit \in Nat, Queue(phs, text, k, limit),
         HasKnownWritesPending(phs)
  PROVE  /\ Head(phs).contents \in Seq(Sent)
         /\ \E rest \in Seq(Sent) : /\ text = Head(phs).contents \o rest
                                    /\ Queue(Tail(phs), rest, k, limit)
PROOF
<1> DEFINE new == Tail(phs)
           n == Len(phs)
           rest == TextThrough(new, n - k - 1)
<1>1. /\ phs \in Seq(Record) /\ n \in Nat /\ k \in 0..n /\ phs # << >> /\ phs[1].contentsKnown
      /\ \A i \in 1..n : phs[i].id \in Nat /\ phs[i].id < limit
      /\ \A i \in 1..n : phs[i].contentsKnown <=> i <= n - k
      /\ \A i, j \in 1..n : phs[i].id = phs[j].id => i = j
  BY RecordFields DEF Queue, HasKnownWritesPending
<1>2. n > 0 /\ Head(phs) = phs[1]
  BY <1>1, EmptySeq
<1>3. /\ new \in Seq(Record) /\ Len(new) = n - 1
      /\ \A i \in 1..(n - 1) : new[i] = phs[i + 1]
  BY <1>1, HeadTailProperties
<1> HIDE DEF new, n
<1>4. k \in 0..(n - 1) /\ n - k \in 1..n /\ n - k - 1 \in 0..(n - 1)
  BY <1>1, <1>2
<1>5. phs[1].contents \in Seq(Sent)
  BY <1>1, <1>2, RecordFields DEF n
<1>6. rest \in Seq(Sent)
  BY <1>3, <1>4, TextIsSent
<1>7. text = phs[1].contents \o rest
  <2>1. text = TextThrough(phs, n - k)
    BY DEF Queue, n
  <2>2. TextThrough(phs, n - k) = phs[1].contents \o TextThrough(Tail(phs), (n - k) - 1)
    BY <1>1, <1>4, TextFromFront DEF n
  <2> QED
    BY <2>1, <2>2 DEF new
<1>8. Queue(new, rest, k, limit)
  <2>1. \A i \in 1..(n - 1) : i + 1 \in 1..n
    BY <1>1
  <2>2. \A i \in 1..(n - 1) : new[i].contentsKnown <=> i <= (n - 1) - k
    <3> TAKE i \in 1..(n - 1)
    <3>1. new[i].contentsKnown <=> i + 1 <= n - k
      BY <1>1, <1>3, <2>1
    <3> QED
      BY <1>1, <1>4, <3>1
  <2>3. \A i \in 1..(n - 1) : new[i].id < limit
    BY <1>1, <1>3, <2>1
  <2>4. \A i, j \in 1..(n - 1) : new[i].id = new[j].id => i = j
    <3> TAKE i, j \in 1..(n - 1)
    <3>1. new[i].id = phs[i + 1].id /\ new[j].id = phs[j + 1].id
      BY <1>3
    <3>2. i + 1 \in 1..n /\ j + 1 \in 1..n
      BY <2>1
    <3>3. new[i].id = new[j].id => i + 1 = j + 1
      BY <1>1, <3>1, <3>2
    <3> QED
      BY <1>1, <3>3
  <2>5. TextThrough(new, (n - 1) - k) = rest
    <3>1. (n - 1) - k = n - k - 1
      BY <1>1
    <3> QED
      BY <3>1
  <2> HIDE DEF rest
  <2> QED
    BY <1>3, <1>4, <2>2, <2>3, <2>4, <2>5 DEF Queue
<1> QED
  BY <1>2, <1>5, <1>6, <1>7, <1>8 DEF new

\* There are holes, unless all placeholders are known; the first is the next hole.
LEMMA QueueHoles ==
  ASSUME NEW phs, NEW text, NEW k, NEW limit \in Nat, Queue(phs, text, k, limit)
  PROVE  /\ k \in Nat
         /\ Holes(phs) = {} <=> k = 0
         /\ k > 0 => /\ Len(phs) - k + 1 \in 1..Len(phs)
                     /\ NextHole(phs) = phs[Len(phs) - k + 1].id
                     /\ IndexOf(phs, NextHole(phs)) = Len(phs) - k + 1
PROOF
<1> DEFINE n == Len(phs)
           m == n - k + 1
<1>1. /\ n \in Nat /\ k \in 0..n /\ DOMAIN phs = 1..n
      /\ \A i \in 1..n : phs[i].contentsKnown <=> i <= n - k
      /\ \A i, j \in 1..n : phs[i].id = phs[j].id => i = j
  BY RecordFields DEF Queue
<1> HIDE DEF n
<1>2. ASSUME k > 0
      PROVE  /\ m \in 1..n /\ ~phs[m].contentsKnown
             /\ \A j \in 1..(m - 1) : phs[j].contentsKnown
             /\ \A i \in 1..n : /\ ~phs[i].contentsKnown
                                /\ \A j \in 1..(i - 1) : phs[j].contentsKnown
                                => i = m
  <2>1. m \in 1..n /\ ~phs[m].contentsKnown
    BY <1>1, <1>2
  <2>2. \A j \in 1..(m - 1) : phs[j].contentsKnown
    BY <1>1, <1>2
  <2>3. ASSUME NEW i \in 1..n, ~phs[i].contentsKnown,
               \A j \in 1..(i - 1) : phs[j].contentsKnown
        PROVE  i = m
    <3>1. i >= m
      BY <1>1, <2>3
    <3>2. ~(m <= i - 1)
      <4>1. m <= i - 1 => m \in 1..(i - 1)
        BY <1>1, <2>1
      <4> QED
        BY <2>1, <2>3, <4>1
    <3> QED
      BY <1>1, <3>1, <3>2
  <2> QED
    BY <2>1, <2>2, <2>3
<1> HIDE DEF m
<1>3. ASSUME k > 0 PROVE NextHole(phs) = phs[m].id
  BY <1>1, <1>2, <1>3 DEF NextHole
<1>4. ASSUME k > 0 PROVE IndexOf(phs, NextHole(phs)) = m
  BY <1>1, <1>2, <1>3, <1>4 DEF IndexOf
<1>5. Holes(phs) = {} <=> k = 0
  <2>1. k = 0 => \A i \in 1..n : phs[i].contentsKnown
    BY <1>1
  <2>2. k # 0 => \E i \in 1..n : ~phs[i].contentsKnown
    <3>1. k # 0 => k > 0
      BY <1>1
    <3> QED
      BY <1>2, <3>1
  <2>3. Holes(phs) = {} <=> \A i \in DOMAIN phs : phs[i].contentsKnown
    BY Zenon DEF Holes
  <2> QED
    BY <1>1, <2>1, <2>2, <2>3
<1> QED
  BY <1>1, <1>2, <1>3, <1>4, <1>5 DEF m, n

\* The first hole is filled: with a text, or with nothing, and then it goes.
LEMMA QueueFilled ==
  ASSUME NEW phs, NEW text, NEW k, NEW limit \in Nat, Queue(phs, text, k, limit),
         k > 0, NEW contents \in Seq(Sent)
  PROVE  Queue(FulfillAt(phs, Len(phs) - k + 1, contents), text \o contents, k - 1, limit)
PROOF
<1> DEFINE n == Len(phs)
           m == n - k + 1
           new == FulfillAt(phs, m, contents)
<1>1. /\ phs \in Seq(Record) /\ n \in Nat /\ k \in 0..n /\ DOMAIN phs = 1..n
      /\ \A i \in 1..n : /\ phs[i] \in Record /\ phs[i].id \in Nat /\ phs[i].id < limit
      /\ \A i \in 1..n : phs[i].contentsKnown <=> i <= n - k
      /\ \A i, j \in 1..n : phs[i].id = phs[j].id => i = j
      /\ TextThrough(phs, n - k) = text
  BY RecordFields DEF Queue
<1> HIDE DEF n
<1>2. m \in 1..n /\ m - 1 = n - k /\ m - 1 \in 0..n
  BY <1>1
<1>3. text \in Seq(Sent)
  BY <1>1, <1>2, TextIsSent DEF n
<1>4. CASE contents = << >>
  <2>1. new = [i \in 1..(n - 1) |-> IF i < m THEN phs[i] ELSE phs[i + 1]]
    BY <1>4, Zenon DEF FulfillAt, Erase, n
  <2> DEFINE at(i) == IF i < m THEN i ELSE i + 1
  <2> HIDE DEF m, new
  <2>2. \A i \in 1..(n - 1) : at(i) \in 1..n /\ new[i] = phs[at(i)]
    BY <1>1, <1>2, <2>1
  <2>3. n - 1 \in Nat
    BY <1>1, <1>2
  <2>4. new \in Seq(Record) /\ Len(new) = n - 1
    <3>1. \A i \in 1..(n - 1) : new[i] \in Record
      BY <1>1, <2>2
    <3> QED
      BY <2>1, <2>3, <3>1
  <2>5. \A i \in 1..(n - 1) : new[i].contentsKnown <=> i <= (n - 1) - (k - 1)
    <3> SUFFICES ASSUME NEW i \in 1..(n - 1)
                 PROVE  new[i].contentsKnown <=> i <= (n - 1) - (k - 1)
      OBVIOUS
    <3>1. new[i].contentsKnown <=> at(i) <= n - k
      BY <1>1, <2>2
    <3> QED
      BY <1>1, <1>2, <3>1
  <2>6. \A i \in 1..(n - 1) : new[i].id < limit
    BY <1>1, <2>2
  <2>7. \A i, j \in 1..(n - 1) : new[i].id = new[j].id => i = j
    <3> SUFFICES ASSUME NEW i \in 1..(n - 1), NEW j \in 1..(n - 1), new[i].id = new[j].id
                 PROVE  i = j
      OBVIOUS
    <3>1. at(i) \in 1..n /\ at(j) \in 1..n /\ phs[at(i)].id = phs[at(j)].id
      BY <2>2
    <3> HIDE DEF at
    <3>2. at(i) = at(j)
      BY <1>1, <3>1
    <3> QED
      BY <1>1, <1>2, <3>2 DEF at
  <2>8. TextThrough(new, (n - 1) - (k - 1)) = text
    <3>1. (n - 1) - (k - 1) = n - k
      BY <1>1
    <3>2. \A i \in 1..(n - k) : new[i].contents = phs[i].contents
      <4> SUFFICES ASSUME NEW i \in 1..(n - k) PROVE new[i] = phs[i]
        OBVIOUS
      <4>1. i \in 1..(n - 1) /\ at(i) = i
        BY <1>1, <1>2
      <4> QED
        BY <2>2, <4>1
    <3>3. TextThrough(new, n - k) = TextThrough(phs, n - k)
      BY <3>2, SameText
    <3> QED
      BY <1>1, <3>1, <3>3
  <2>9. text \o contents = text
    BY <1>3, <1>4, ConcatEmptySeq
  <2>10. k - 1 \in 0..(n - 1)
    BY <1>1
  <2>11. Queue(new, text, k - 1, limit)
    BY <2>4, <2>5, <2>6, <2>7, <2>8, <2>10 DEF Queue
  <2> QED
    BY <2>9, <2>11 DEF m, new, n
<1>5. CASE contents # << >>
  <2> DEFINE full == [phs[m] EXCEPT !.contentsKnown = TRUE, !.contents = contents]
  <2>1. new = [phs EXCEPT ![m] = full]
    BY <1>5 DEF FulfillAt
  <2>2. /\ full \in Record /\ full.id = phs[m].id /\ full.contentsKnown
        /\ full.contents = contents
    <3>1. phs[m] \in Record
      BY <1>1, <1>2
    <3> HIDE DEF m
    <3> QED
      BY <3>1 DEF Record, PlaceholderOf
  <2> HIDE DEF m, new, full
  <2>3. /\ new \in Seq(Record) /\ Len(new) = n
        /\ new[m] = full
        /\ \A i \in 1..n : i # m => new[i] = phs[i]
    BY <1>1, <1>2, <2>1, <2>2 DEF n
  <2>4. \A i \in 1..n : new[i].contentsKnown <=> i <= n - (k - 1)
    <3> SUFFICES ASSUME NEW i \in 1..n
                 PROVE  new[i].contentsKnown <=> i <= n - (k - 1)
      OBVIOUS
    <3>1. CASE i = m
      BY <1>1, <1>2, <2>2, <2>3, <3>1
    <3>2. CASE i # m
      <4>1. new[i].contentsKnown <=> i <= n - k
        BY <1>1, <2>3, <3>2
      <4> QED
        BY <1>1, <1>2, <3>2, <4>1
    <3> QED
      BY <3>1, <3>2
  <2>5. \A i \in 1..n : new[i].id = phs[i].id
    BY <2>2, <2>3
  <2>6. TextThrough(new, n - (k - 1)) = text \o contents
    <3>1. n - (k - 1) = (m - 1) + 1 /\ m - 1 \in Nat /\ m - 1 < n /\ (m - 1) + 1 = m
      BY <1>1, <1>2
    <3>2. TextThrough(new, (m - 1) + 1) = TextThrough(new, m - 1) \o new[(m - 1) + 1].contents
      <4> DEFINE j == m - 1
      <4> HIDE DEF j
      <4>1. j \in Nat /\ j < Len(new)
        BY <2>3, <3>1 DEF j
      <4>2. TextThrough(new, j + 1) = TextThrough(new, j) \o new[j + 1].contents
        BY <2>3, <4>1, TextGrows
      <4> QED
        BY <4>2 DEF j
    <3>3. TextThrough(new, m - 1) = TextThrough(phs, m - 1)
      <4>1. \A i \in 1..(m - 1) : i \in 1..n /\ i # m
        BY <1>1, <1>2
      <4>2. \A i \in 1..(m - 1) : new[i].contents = phs[i].contents
        BY <2>3, <4>1
      <4> QED
        BY <4>2, SameText
    <3>4. TextThrough(phs, m - 1) = text
      BY <1>1, <1>2
    <3> QED
      BY <2>2, <2>3, <3>1, <3>2, <3>3, <3>4
  <2>7. k - 1 \in 0..n
    BY <1>1
  <2>8. Queue(new, text \o contents, k - 1, limit)
    <3>1. \A i \in 1..n : new[i].id < limit
      BY <1>1, <2>5
    <3>2. \A i, j \in 1..n : new[i].id = new[j].id => i = j
      BY <1>1, <2>5
    <3>3. Len(new) = n /\ k - 1 \in 0..Len(new)
      BY <2>3, <2>7
    <3> QED
      BY <2>3, <2>4, <2>6, <3>1, <3>2, <3>3 DEF Queue
  <2> QED
    BY <2>8 DEF m, new, n
<1> QED
  BY <1>4, <1>5

\* outputString on a deque without holes.
LEMMA QueueString ==
  ASSUME NEW phs, NEW text, NEW limit \in Nat, Queue(phs, text, 0, limit),
         NEW ticket \in Nat, limit <= ticket, NEW sendMe \in Seq(Sent)
  PROVE  Queue(OutputString(phs, ticket, sendMe), text \o sendMe, 0, ticket + 1)
PROOF
<1> DEFINE n == Len(phs)
<1>1. /\ phs \in Seq(Record) /\ n \in Nat /\ DOMAIN phs = 1..n
      /\ \A i \in 1..n : /\ phs[i] \in Record /\ phs[i].id \in Nat /\ phs[i].id < limit
                         /\ phs[i].contents \in Seq(Sent)
      /\ \A i \in 1..n : phs[i].contentsKnown
      /\ \A i, j \in 1..n : phs[i].id = phs[j].id => i = j
      /\ TextThrough(phs, n) = text
  <2>1. n \in Nat /\ n - 0 = n /\ \A i \in 1..n : i <= n - 0
    BY RecordFields DEF Queue
  <2> QED
    BY <2>1, RecordFields DEF Queue
<1>2. CASE LastIsKnown(phs)
  <2> DEFINE back == [phs[n] EXCEPT !.contents = phs[n].contents \o sendMe]
             new == [phs EXCEPT ![n] = back]
  <2>1. OutputString(phs, ticket, sendMe) = new
    BY <1>2 DEF OutputString
  <2>2. n \in 1..n /\ n - 1 \in Nat
    <3>1. n # 0
      BY <1>1, <1>2, EmptySeq DEF LastIsKnown
    <3> HIDE DEF n
    <3> QED
      BY <1>1, <3>1
  <2>3. /\ back \in Record /\ back.id = phs[n].id /\ back.contentsKnown
        /\ back.contents = phs[n].contents \o sendMe
    <3>1. phs[n] \in Record /\ phs[n].contentsKnown
      BY <1>1, <2>2
    <3>2. phs[n].contents \o sendMe \in Seq(Sent)
      BY <1>1, <2>2, ConcatProperties
    <3> HIDE DEF n
    <3> QED
      BY <3>1, <3>2 DEF Record, PlaceholderOf
  <2> HIDE DEF back
  <2>4. /\ new \in Seq(Record) /\ Len(new) = n
        /\ new[n] = back
        /\ \A i \in 1..n : i # n => new[i] = phs[i]
    BY <1>1, <2>2, <2>3
  <2> HIDE DEF new
  <2>5. \A i \in 1..n : new[i].id = phs[i].id /\ new[i].contentsKnown
    <3> SUFFICES ASSUME NEW i \in 1..n PROVE new[i].id = phs[i].id /\ new[i].contentsKnown
      OBVIOUS
    <3>1. CASE i = n
      BY <2>3, <2>4, <3>1
    <3>2. CASE i # n
      <4>1. new[i] = phs[i]
        BY <2>4, <3>2
      <4> QED
        BY <1>1, <4>1
    <3> QED
      BY <3>1, <3>2
  <2>6. TextThrough(new, n) = text \o sendMe
    <3> DEFINE j == n - 1
    <3> HIDE DEF n
    <3>0. j + 1 = n /\ j \in Nat /\ j < n /\ \A i \in 1..j : i \in 1..n /\ i # n
      BY <1>1, <2>2
    <3> HIDE DEF j
    <3>1. TextThrough(new, j + 1) = TextThrough(new, j) \o new[j + 1].contents
      <4>1. new \in Seq(Record) /\ j \in Nat /\ j < Len(new)
        BY <2>4, <3>0
      <4> QED
        BY <4>1, TextGrows
    <3>2. TextThrough(phs, j + 1) = TextThrough(phs, j) \o phs[j + 1].contents
      <4>1. phs \in Seq(Record) /\ j \in Nat /\ j < Len(phs)
        <5>1. j < n /\ n = Len(phs)
          BY <3>0 DEF n
        <5>2. phs \in Seq(Record)
          BY <1>1
        <5>3. j \in Nat
          BY <3>0
        <5> QED
          BY <5>1, <5>2, <5>3
      <4> QED
        BY <4>1, TextGrows
    <3>3. TextThrough(new, j) = TextThrough(phs, j)
      BY <2>4, <3>0, SameText
    <3>4. TextThrough(phs, j) \in Seq(Sent)
      <4>1. j \in 0..Len(phs)
        BY <3>0 DEF n
      <4> QED
        BY <1>1, <4>1, TextIsSent
    <3>5. phs[n].contents \in Seq(Sent)
      BY <1>1, <2>2
    <3>6. TextThrough(phs, j) \o (phs[n].contents \o sendMe)
            = (TextThrough(phs, j) \o phs[n].contents) \o sendMe
      <4> DEFINE a == TextThrough(phs, j)
                 b == phs[n].contents
      <4>1. a \in Seq(Sent) /\ b \in Seq(Sent)
        BY <3>4, <3>5
      <4> HIDE DEF a, b
      <4>2. a \o b \o sendMe = a \o (b \o sendMe)
        BY <4>1, Regrouped
      <4> QED
        BY <4>2 DEF a, b
    <3> QED
      BY <1>1, <2>3, <2>4, <3>0, <3>1, <3>2, <3>3, <3>6
  <2>7. \A i \in 1..n : new[i].id < ticket + 1
    BY <1>1, <2>5
  <2>8. Queue(new, text \o sendMe, 0, ticket + 1)
    <3>1. n - 0 = n /\ 0 \in 0..n /\ \A i \in 1..n : i <= n - 0
      BY <1>1
    <3> HIDE DEF n
    <3> QED
      BY <1>1, <2>4, <2>5, <2>6, <2>7, <3>1 DEF Queue
  <2> QED
    BY <2>1, <2>8
<1>3. CASE ~LastIsKnown(phs)
  <2> DEFINE new == OutputPlaceholder(phs, ticket)
  <2>1. OutputString(phs, ticket, sendMe) = FulfillAt(new, n + 1, sendMe)
    BY <1>3 DEF OutputString
  <2>2. Queue(new, text, 0 + 1, ticket + 1)
    BY QueueHole
  <2>3. Len(new) = n + 1
    BY <1>1 DEF OutputPlaceholder
  <2> HIDE DEF new
  <2>4. Queue(FulfillAt(new, Len(new) - 1 + 1, sendMe), text \o sendMe, 1 - 1, ticket + 1)
    <3>1. ticket + 1 \in Nat /\ Queue(new, text, 1, ticket + 1) /\ 1 > 0
      BY <2>2
    <3> QED
      BY <3>1, QueueFilled
  <2>5. Len(new) - 1 + 1 = n + 1 /\ 1 - 1 = 0
    BY <1>1, <2>3
  <2> QED
    BY <2>1, <2>4, <2>5
<1> QED
  BY <1>2, <1>3

\* The next hole is filled.
LEMMA QueueFulfilled ==
  ASSUME NEW phs, NEW text, NEW k, NEW limit \in Nat, Queue(phs, text, k, limit),
         k > 0, NEW contents \in Seq(Sent)
  PROVE  Queue(FulfilledNext(phs, contents), text \o contents, k - 1, limit)
PROOF
<1>1. IndexOf(phs, NextHole(phs)) = Len(phs) - k + 1
  BY QueueHoles
<1>2. FulfilledNext(phs, contents) = FulfillAt(phs, Len(phs) - k + 1, contents)
  BY <1>1 DEF FulfilledNext, FulfillPlaceholder
<1> QED
  BY <1>2, QueueFilled

\* Fulfilling makes a deque of a deque, whatever it is that is fulfilled.
LEMMA FulfilledIsTyped ==
  ASSUME NEW phs \in Seq(Record), NEW contents \in Seq(Sent)
  PROVE  FulfilledNext(phs, contents) \in Seq(Record)
PROOF
<1>1. PICK m : m = IndexOf(phs, NextHole(phs))
  OBVIOUS
<1>2. FulfilledNext(phs, contents) = FulfillAt(phs, m, contents)
  BY <1>1 DEF FulfilledNext, FulfillPlaceholder
<1>3. /\ Len(phs) \in Nat /\ DOMAIN phs = 1..Len(phs)
      /\ \A i \in 1..Len(phs) : phs[i] \in Record
  BY RecordFields
<1>4. CASE contents = << >>
  <2>1. FulfillAt(phs, m, contents)
          = [i \in 1..(Len(phs) - 1) |-> IF i < m THEN phs[i] ELSE phs[i + 1]]
    BY <1>4 DEF FulfillAt, Erase
  <2>2. \A i \in 1..(Len(phs) - 1) : i \in 1..Len(phs) /\ i + 1 \in 1..Len(phs)
    BY <1>3
  <2>3. \A i \in 1..(Len(phs) - 1) : (IF i < m THEN phs[i] ELSE phs[i + 1]) \in Record
    BY <1>3, <2>2
  <2>4. CASE Len(phs) = 0
    <3>1. 1..(Len(phs) - 1) = 1..0
      BY <2>4
    <3> QED
      BY <1>2, <2>1, <2>3, <3>1
  <2>5. CASE Len(phs) # 0
    <3>1. Len(phs) - 1 \in Nat
      BY <1>3, <2>5
    <3> QED
      BY <1>2, <2>1, <2>3, <3>1
  <2> QED
    BY <2>4, <2>5
<1>5. CASE contents # << >>
  <2> DEFINE full == [phs[m] EXCEPT !.contentsKnown = TRUE, !.contents = contents]
             new == [phs EXCEPT ![m] = full]
  <2>1. FulfillAt(phs, m, contents) = new
    BY <1>5 DEF FulfillAt
  <2>2. m \in 1..Len(phs) => full \in Record
    BY <1>3 DEF Record, PlaceholderOf
  <2> HIDE DEF full
  <2>3. DOMAIN new = 1..Len(phs) /\ \A i \in 1..Len(phs) : new[i] \in Record
    BY <1>3, <2>2
  <2>4. new = [i \in 1..Len(phs) |-> new[i]]
    BY <2>3
  <2> HIDE DEF new
  <2> QED
    BY <1>2, <1>3, <2>1, <2>3, <2>4
<1> QED
  BY <1>4, <1>5

\* FulfilledInTurn goes from one placeholder to the next.
LEMMA FulfilledGoesOn ==
  ASSUME NEW phs \in Seq(Record), NEW contents \in Seq(Seq(Sent))
  PROVE  \E f : /\ FulfilledInTurn(phs, contents) = f[Len(contents)]
                /\ f[0] = phs
                /\ \A j \in 1..Len(contents) : f[j] = FulfilledNext(f[j - 1], contents[j])
PROOF
<1> DEFINE n == Len(contents)
           T == Seq(Record)
           step == [x \in T \X (1..n) |-> FulfilledNext(x[1], contents[x[2]])]
           Next1(v, j) == CHOOSE y \in { FulfilledNext(u, contents[j]) : u \in {v} } : TRUE
           Goes(f) == f = [j \in 0..n |-> IF j = 0 THEN phs ELSE Next1(f[j - 1], j)]
<1>1. n \in Nat /\ \A j \in 1..n : contents[j] \in Seq(Sent)
  BY LenProperties, ElementOfSeq
<1>2. \A v, j : Next1(v, j) = FulfilledNext(v, contents[j])
  OBVIOUS
<1>3. step \in [T \X (1..n) -> T]
  <2>1. ASSUME NEW x \in T \X (1..n) PROVE FulfilledNext(x[1], contents[x[2]]) \in T
    <3>1. x[1] \in T /\ contents[x[2]] \in Seq(Sent)
      BY <1>1
    <3> QED
      BY <3>1, FulfilledIsTyped
  <2> HIDE DEF T, n
  <2> QED
    BY <2>1
<1> HIDE DEF Next1, n
<1>4. PICK r \in [0..n -> T] : GoesOnBy(r, phs, step, n)
  <2> HIDE DEF step, T
  <2>1. phs \in T
    BY DEF T
  <2> QED
    BY <1>1, <1>3, <2>1, Recursion
<1> HIDE DEF T
<1>5. ASSUME NEW j \in 0..n
      PROVE  r[j] = IF j = 0 THEN phs ELSE Next1(r[j - 1], j)
  <2>1. CASE j = 0
    BY <1>4, <2>1 DEF GoesOnBy
  <2>2. CASE j # 0
    <3>1. j \in 1..n /\ j - 1 \in 0..n
      BY <1>1, <2>2
    <3>2. r[j] = step[<< r[j - 1], j >>]
      <4> HIDE DEF step
      <4> QED
        BY <1>4, <3>1 DEF GoesOnBy
    <3>3. r[j - 1] \in T
      BY <3>1
    <3>4. step[<< r[j - 1], j >>] = FulfilledNext(r[j - 1], contents[j])
      BY <3>1, <3>3
    <3> HIDE DEF step
    <3> QED
      BY <1>2, <2>2, <3>2, <3>4
  <2> QED
    BY <2>1, <2>2
<1> HIDE DEF step
<1>6. Goes(r)
  <2> DEFINE g == [j \in 0..n |-> IF j = 0 THEN phs ELSE Next1(r[j - 1], j)]
  <2>1. r = g
    BY <1>5
  <2> QED
    BY <2>1
<1> DEFINE f == CHOOSE h : Goes(h)
<1>7. Goes(f)
  <2> HIDE DEF Goes
  <2> QED
    BY <1>6
<1>8. FulfilledInTurn(phs, contents) = f[n]
  BY Zenon DEF FulfilledInTurn, Once, Next1, n
<1> HIDE DEF f
<1>9. \A j \in 0..n : f[j] = IF j = 0 THEN phs ELSE Next1(f[j - 1], j)
  BY <1>7
<1>10. f[0] = phs /\ \A j \in 1..n : f[j] = FulfilledNext(f[j - 1], contents[j])
  <2>1. \A j \in 1..n : j \in 0..n /\ j # 0
    BY <1>1
  <2>2. 0 \in 0..n
    BY <1>1
  <2> QED
    BY <1>2, <1>9, <2>1, <2>2
<1> QED
  BY <1>8, <1>10 DEF n

\* Texts are put together in any order.
LEMMA JoinedTwice ==
  ASSUME NEW a \in Seq(Sent), NEW b \in Seq(Sent), NEW c \in Seq(Sent)
  PROVE  /\ a \o b \in Seq(Sent) /\ b \o c \in Seq(Sent)
         /\ a \o b \o c = a \o (b \o c)
PROOF
<1> DEFINE S == Sent
<1> HIDE DEF S
<1>1. a \in Seq(S) /\ b \in Seq(S) /\ c \in Seq(S)
  BY DEF S
<1>2. a \o b \in Seq(S) /\ b \o c \in Seq(S)
  BY <1>1, ConcatProperties
<1>3. a \o b \o c = a \o (b \o c)
  BY <1>1, Regrouped
<1> QED
  BY <1>2, <1>3 DEF S

\* Several holes are filled in their order.
LEMMA QueueInTurn ==
  ASSUME NEW phs, NEW text, NEW k, NEW limit \in Nat, Queue(phs, text, k, limit),
         NEW contents \in Seq(Seq(Sent)), Len(contents) <= k
  PROVE  Queue(FulfilledInTurn(phs, contents), text \o Seqs!FlattenSeq(contents),
               k - Len(contents), limit)
PROOF
<1> DEFINE n == Len(contents)
           front(j) == SubSeq(contents, 1, j)
<1>1. /\ phs \in Seq(Record) /\ k \in Nat /\ n \in Nat
      /\ \A j \in 1..n : contents[j] \in Seq(Sent)
  BY LenProperties, ElementOfSeq, QueueHoles DEF Queue
<1>2. PICK f : /\ FulfilledInTurn(phs, contents) = f[n]
               /\ f[0] = phs
               /\ \A j \in 1..n : f[j] = FulfilledNext(f[j - 1], contents[j])
  BY <1>1, FulfilledGoesOn
<1>3. text \in Seq(Sent)
  <2>1. text = TextThrough(phs, Len(phs) - k) /\ Len(phs) - k \in 0..Len(phs)
    BY <1>1, RecordFields DEF Queue
  <2> QED
    BY <1>1, <2>1, TextIsSent
<1> DEFINE Filled(j) == Queue(f[j], text \o Seqs!FlattenSeq(front(j)), k - j, limit)
           P == { j \in Nat : j <= n => Filled(j) }
<1>4. 0 \in P
  <2>1. front(0) = << >>
    BY SubSeqEmpty
  <2>2. Seqs!FlattenSeq(front(0)) = << >>
    BY <1>3, <2>1, FlattenShort
  <2>3. text \o << >> = text
    BY <1>3, ConcatEmptySeq
  <2>4. k - 0 = k
    BY <1>1
  <2>5. Filled(0)
    BY <1>2, <2>2, <2>3, <2>4
  <2> HIDE DEF Filled
  <2> QED
    BY <2>5
<1>5. ASSUME NEW j \in Nat, j \in P PROVE j + 1 \in P
  <2> SUFFICES ASSUME j + 1 <= n PROVE Filled(j + 1)
    OBVIOUS
  <2>1. j + 1 \in 1..n /\ j <= n /\ (j + 1) - 1 = j /\ k - j > 0 /\ (k - j) - 1 = k - (j + 1)
    BY <1>1
  <2>2. Filled(j)
    BY <1>5, <2>1
  <2> DEFINE a == text \o Seqs!FlattenSeq(front(j))
             b == contents[j + 1]
  <2>3. b \in Seq(Sent)
    BY <1>1, <2>1
  <2>4. f[j + 1] = FulfilledNext(f[j], b)
    BY <1>2, <2>1
  <2>5. Queue(FulfilledNext(f[j], b), a \o b, (k - j) - 1, limit)
    <3> DEFINE q == f[j]
               m == k - j
    <3>1. Queue(q, a, m, limit) /\ m > 0
      BY <2>1, <2>2
    <3> HIDE DEF q, a, b, m
    <3>2. Queue(FulfilledNext(q, b), a \o b, m - 1, limit)
      BY <2>3, <3>1, QueueFulfilled
    <3> QED
      BY <3>2 DEF q, m
  <2>6. /\ front(j + 1) = front(j) \o << b >> /\ front(j) \in Seq(Seq(Sent))
    <3> DEFINE S == Seq(Sent)
    <3>1. contents \in Seq(S) /\ j + 1 \in 1..Len(contents) /\ j \in 0..Len(contents)
      BY <1>1, <2>1
    <3> HIDE DEF S
    <3>2. front(j) \in Seq(S) /\ front(j + 1) \in Seq(S)
          /\ Len(front(j)) = j /\ Len(front(j + 1)) = j + 1
          /\ (\A i \in 1..j : front(j)[i] = contents[i])
          /\ \A i \in 1..(j + 1) : front(j + 1)[i] = contents[i]
      <4>1. \A i \in 1..Len(contents) : contents[i] \in S
        BY <3>1, ElementOfSeq
      <4> QED
        BY <3>1, <4>1, SubSeqProperties
    <3>3. << b >> \in Seq(S) /\ Len(<< b >>) = 1 /\ << b >>[1] = b
      BY <2>3 DEF S
    <3>4. front(j + 1) = front(j) \o << b >>
      <4> DEFINE x == front(j)
                 y == << b >>
                 z == front(j + 1)
      <4>1. /\ x \in Seq(S) /\ y \in Seq(S) /\ z \in Seq(S)
            /\ Len(z) = Len(x) + Len(y)
            /\ \A i \in 1..Len(x) : z[i] = x[i]
            /\ \A i \in 1..Len(y) : z[Len(x) + i] = y[i]
        <5>1. \A i \in 1..1 : i = 1
          OBVIOUS
        <5>2. \A i \in 1..j : i \in 1..(j + 1)
          OBVIOUS
        <5>3. z[j + 1] = b
          BY <3>2, <2>1
        <5> HIDE DEF x, y, z, b
        <5> QED
          BY <3>2, <3>3, <5>1, <5>2, <5>3 DEF x, y, z
      <4> HIDE DEF x, y, z
      <4>2. z = x \o y
        BY <4>1, Followed
      <4> QED
        BY <4>2 DEF x, y, z
    <3> QED
      BY <3>2, <3>4 DEF S
  <2>7. text \o Seqs!FlattenSeq(front(j + 1)) = a \o b
    <3>1. << b >> \in Seq(Seq(Sent))
      BY <2>3
    <3> DEFINE x == front(j)
               y == << b >>
    <3> HIDE DEF x, y
    <3>2. x \in Seq(Seq(Sent)) /\ y \in Seq(Seq(Sent))
      BY <2>6, <3>1 DEF x, y
    <3>3. /\ Seqs!FlattenSeq(x \o y) = Seqs!FlattenSeq(x) \o Seqs!FlattenSeq(y)
          /\ Seqs!FlattenSeq(x) \in Seq(Sent)
      <4> HIDE DEF Sent
      <4> QED
        BY <3>2, FlattenConcat
    <3>4. Seqs!FlattenSeq(y) = b
      BY <2>3, FlattenShort DEF y
    <3> DEFINE p == Seqs!FlattenSeq(x)
    <3>6. p \in Seq(Sent)
      BY <3>3
    <3> HIDE DEF p, b
    <3>5. text \o p \o b = text \o (p \o b)
      <4>1. text \in Seq(Sent) /\ p \in Seq(Sent) /\ b \in Seq(Sent)
        BY <1>3, <2>3, <3>6
      <4> QED
        BY <4>1, JoinedTwice, SMTT(60)
    <3> QED
      BY <2>6, <3>3, <3>4, <3>5 DEF x, y, p
  <2> HIDE DEF front, a, b
  <2> QED
    BY <2>1, <2>4, <2>5, <2>7
<1>6. n \in P
  <2> HIDE DEF P
  <2> QED
    BY <1>1, <1>4, <1>5, SetInduction
<1>7. front(n) = contents
  BY SubSeqFull
<1>8. Filled(n)
  BY <1>1, <1>6
<1> HIDE DEF front
<1> QED
  BY <1>2, <1>7, <1>8

\* There is no hole for one content more than there are holes.
LEMMA QueueMisses ==
  ASSUME NEW phs, NEW text, NEW k, NEW limit \in Nat, Queue(phs, text, k, limit),
         NEW contents \in Seq(Seq(Sent)), ~OneIsMissing(phs, contents)
  PROVE  Len(contents) <= k
PROOF
<1> SUFFICES ASSUME ~(Len(contents) <= k) PROVE FALSE
  OBVIOUS
<1>1. k \in Nat /\ Len(contents) \in Nat /\ DOMAIN contents = 1..Len(contents)
  BY LenProperties, QueueHoles
<1>2. k + 1 \in DOMAIN contents /\ (k + 1) - 1 = k /\ k \in 0..Len(contents) /\ k - k = 0
  BY <1>1
<1> DEFINE front == SubSeq(contents, 1, k)
<1>3. front \in Seq(Seq(Sent)) /\ Len(front) = k
  <2> DEFINE S == Seq(Sent)
  <2> HIDE DEF S
  <2>1. contents \in Seq(S)
    BY DEF S
  <2>2. \A i \in 1..Len(contents) : contents[i] \in S
    BY <2>1, ElementOfSeq
  <2>3. SubSeq(contents, 1, k) \in Seq(S) /\ Len(SubSeq(contents, 1, k)) = k
    BY <1>1, <1>2, <2>1, <2>2, SubSeqProperties
  <2> QED
    BY <2>3 DEF S
<1> HIDE DEF front
<1>4. Queue(FulfilledInTurn(phs, front), text \o Seqs!FlattenSeq(front), k - Len(front), limit)
  <2>1. Len(front) <= k
    BY <1>1, <1>3
  <2> QED
    BY <1>3, <2>1, QueueInTurn
<1>5. Holes(FulfilledInTurn(phs, front)) = {}
  <2> DEFINE q == FulfilledInTurn(phs, front)
             t == text \o Seqs!FlattenSeq(front)
  <2>1. Queue(q, t, 0, limit)
    BY <1>2, <1>3, <1>4
  <2> HIDE DEF q, t
  <2>2. Holes(q) = {}
    BY <2>1, QueueHoles
  <2> QED
    BY <2>2 DEF q
<1> QED
  BY <1>2, <1>5, Zenon DEF OneIsMissing, front

-----------------------------------------------------------------------------
(* The outputs of a filter to the server.                                  *)

\* A place in the stream, or a string.
Plain == { Place } \union { String(t) : t \in Seq(Sent) }

LEMMA OutputIsTyped ==
  ASSUME NEW phs \in Seq(Record), NEW id \in Nat, NEW o \in Plain
  PROVE  Output(phs, id, o) \in Seq(Record)
PROOF
<1>1. /\ Len(phs) \in Nat /\ DOMAIN phs = 1..Len(phs)
      /\ \A i \in 1..Len(phs) : phs[i] \in Record
  BY RecordFields
<1>2. Hole(id) \in Record
  BY EmptySeq DEF Hole, Record, PlaceholderOf
<1>3. /\ OutputPlaceholder(phs, id) \in Seq(Record)
      /\ Len(OutputPlaceholder(phs, id)) = Len(phs) + 1
      /\ OutputPlaceholder(phs, id)[Len(phs) + 1] = Hole(id)
      /\ \A i \in 1..Len(phs) : OutputPlaceholder(phs, id)[i] = phs[i]
  BY <1>1, <1>2, AppendProperties DEF OutputPlaceholder
<1>4. CASE o = Place
  BY <1>3, <1>4 DEF Output, Place
<1>5. ASSUME NEW t \in Seq(Sent), o = String(t) PROVE Output(phs, id, o) \in Seq(Record)
  <2>1. Output(phs, id, o) = OutputString(phs, id, t)
    BY <1>5 DEF Output, String
  <2>2. CASE LastIsKnown(phs)
    <3> DEFINE n == Len(phs)
               back == [phs[n] EXCEPT !.contents = phs[n].contents \o t]
    <3>1. OutputString(phs, id, t) = [phs EXCEPT ![n] = back]
      BY <2>2 DEF OutputString
    <3>2. n \in 1..n
      <4>1. n # 0
        BY <2>2, EmptySeq DEF LastIsKnown
      <4> HIDE DEF n
      <4> QED
        BY <1>1, <4>1 DEF n
    <3>3. back \in Record
      <4>1. phs[n] \in Record
        BY <1>1, <3>2
      <4>2. phs[n].contents \in Seq(Sent)
        BY <4>1 DEF Record, PlaceholderOf
      <4>3. phs[n].contents \o t \in Seq(Sent)
        BY <1>5, <4>2, ConcatProperties
      <4> HIDE DEF n
      <4> QED
        BY <4>1, <4>3 DEF Record, PlaceholderOf
    <3> HIDE DEF back
    <3> QED
      BY <2>1, <3>1, <3>2, <3>3
  <2>3. CASE ~LastIsKnown(phs)
    <3> DEFINE new == OutputPlaceholder(phs, id)
               m == Len(phs) + 1
    <3>1. OutputString(phs, id, t) = FulfillAt(new, m, t)
      BY <2>3 DEF OutputString
    <3> HIDE DEF new, m
    <3>2. new \in Seq(Record) /\ Len(new) = m /\ m \in Nat /\ m \in 1..m
          /\ \A i \in 1..m : new[i] \in Record
      BY <1>1, <1>2, <1>3, RecordFields DEF new, m
    <3>3. CASE t = << >>
      <4>1. FulfillAt(new, m, t)
              = [i \in 1..(m - 1) |-> IF i < m THEN new[i] ELSE new[i + 1]]
        BY <3>2, <3>3 DEF FulfillAt, Erase
      <4>2. m - 1 \in Nat /\ \A i \in 1..(m - 1) : i \in 1..m /\ i < m
        BY <1>1, <3>2 DEF m
      <4>3. \A i \in 1..(m - 1) : (IF i < m THEN new[i] ELSE new[i + 1]) \in Record
        BY <3>2, <4>2
      <4> QED
        BY <2>1, <3>1, <4>1, <4>2, <4>3
    <3>4. CASE t # << >>
      <4> DEFINE full == [new[m] EXCEPT !.contentsKnown = TRUE, !.contents = t]
      <4>1. FulfillAt(new, m, t) = [new EXCEPT ![m] = full]
        BY <3>4 DEF FulfillAt
      <4>2. full \in Record
        BY <1>5, <3>2 DEF Record, PlaceholderOf
      <4> HIDE DEF full
      <4> QED
        BY <2>1, <3>1, <3>2, <4>1, <4>2
    <3> QED
      BY <3>3, <3>4
  <2> QED
    BY <2>2, <2>3
<1> QED
  BY <1>4, <1>5 DEF Plain

\* FilterOutputs goes from one output to the next.
LEMMA OutputsGoOn ==
  ASSUME NEW out \in Conn, placeholders[out] \in Seq(Record), nextTicket \in Nat,
         NEW outputs \in Seq(Plain), FilterOutputs(out, outputs)
  PROVE  /\ nextTicket' = nextTicket + Len(outputs)
         /\ \E f : /\ placeholders' = [placeholders EXCEPT ![out] = f[Len(outputs)]]
                   /\ f[0] = placeholders[out]
                   /\ \A j \in 1..Len(outputs) :
                        f[j] = Output(f[j - 1], nextTicket + j - 1, outputs[j])
PROOF
<1> DEFINE n == Len(outputs)
           T == Seq(Record)
           step == [x \in T \X (1..n) |->
                      Output(x[1], nextTicket + x[2] - 1, outputs[x[2]])]
           Next1(v, j) ==
             CHOOSE y \in { Output(u, nextTicket + j - 1, outputs[j]) : u \in {v} } : TRUE
           Goes(f) == f = [j \in 0..n |-> IF j = 0 THEN placeholders[out]
                                                   ELSE Next1(f[j - 1], j)]
<1>1. n \in Nat /\ \A j \in 1..n : outputs[j] \in Plain
  BY LenProperties, ElementOfSeq
<1>2. \A v, j : Next1(v, j) = Output(v, nextTicket + j - 1, outputs[j])
  OBVIOUS
<1>3. step \in [T \X (1..n) -> T]
  <2>1. ASSUME NEW x \in T \X (1..n)
        PROVE  Output(x[1], nextTicket + x[2] - 1, outputs[x[2]]) \in T
    <3>1. x[1] \in T /\ outputs[x[2]] \in Plain /\ nextTicket + x[2] - 1 \in Nat
      BY <1>1
    <3> QED
      BY <3>1, OutputIsTyped
  <2> HIDE DEF T, n
  <2> QED
    BY <2>1
<1> HIDE DEF Next1, n
<1> DEFINE start == placeholders[out]
<1>4. PICK r \in [0..n -> T] : GoesOnBy(r, start, step, n)
  <2> HIDE DEF step, T
  <2>1. start \in T
    BY DEF T
  <2> HIDE DEF start
  <2> QED
    BY <1>1, <1>3, <2>1, Recursion
<1> HIDE DEF T
<1>5. ASSUME NEW j \in 0..n
      PROVE  r[j] = IF j = 0 THEN placeholders[out] ELSE Next1(r[j - 1], j)
  <2>1. CASE j = 0
    BY <1>4, <2>1 DEF GoesOnBy
  <2>2. CASE j # 0
    <3>1. j \in 1..n /\ j - 1 \in 0..n
      BY <1>1, <2>2
    <3>2. r[j] = step[<< r[j - 1], j >>]
      <4> HIDE DEF step
      <4> QED
        BY <1>4, <3>1 DEF GoesOnBy
    <3>3. r[j - 1] \in T
      BY <3>1
    <3>4. step[<< r[j - 1], j >>] = Output(r[j - 1], nextTicket + j - 1, outputs[j])
      BY <3>1, <3>3
    <3> HIDE DEF step
    <3> QED
      BY <1>2, <2>2, <3>2, <3>4
  <2> QED
    BY <2>1, <2>2
<1> HIDE DEF step
<1>6. Goes(r)
  <2> DEFINE g == [j \in 0..n |-> IF j = 0 THEN placeholders[out] ELSE Next1(r[j - 1], j)]
  <2>1. r = g
    BY <1>5
  <2> QED
    BY <2>1
<1> DEFINE f == CHOOSE h : Goes(h)
<1>7. Goes(f)
  <2> HIDE DEF Goes
  <2> QED
    BY <1>6
<1>8. placeholders' = [placeholders EXCEPT ![out] = f[n]]
  BY Zenon DEF FilterOutputs, Once, Next1, n
<1>9. nextTicket' = nextTicket + n
  BY DEF FilterOutputs, n
<1> HIDE DEF f
<1>10. \A j \in 0..n : f[j] = IF j = 0 THEN placeholders[out] ELSE Next1(f[j - 1], j)
  BY <1>7
<1>11. f[0] = placeholders[out]
       /\ \A j \in 1..n : f[j] = Output(f[j - 1], nextTicket + j - 1, outputs[j])
  <2>1. \A j \in 1..n : j \in 0..n /\ j # 0
    BY <1>1
  <2>2. 0 \in 0..n
    BY <1>1
  <2> QED
    BY <1>2, <1>10, <2>1, <2>2
<1> QED
  BY <1>8, <1>9, <1>11 DEF n

\* Whatever is output to one side, the other's deque is untouched.
LEMMA OtherDeque ==
  ASSUME NEW out, NEW S, NEW outputs \in Seq(S), FilterOutputs(out, outputs),
         nextTicket \in Nat
  PROVE  /\ nextTicket' \in Nat /\ nextTicket <= nextTicket'
         /\ DOMAIN placeholders' = DOMAIN placeholders
         /\ \A v \in DOMAIN placeholders : v # out => placeholders'[v] = placeholders[v]
PROOF
<1>1. Len(outputs) \in Nat
  BY LenProperties
<1>2. nextTicket' = nextTicket + Len(outputs)
  BY DEF FilterOutputs
<1>3. \E p : placeholders' = [placeholders EXCEPT ![out] = p]
  BY DEF FilterOutputs
<1> QED
  BY <1>1, <1>2, <1>3

\* What a filter of the client's direction outputs: nothing, one place, the three
\* places of a header, or a string.
LEMMA QueueOutputs ==
  ASSUME NEW out \in Conn, DOMAIN placeholders = Conn, nextTicket \in Nat, NEW text, NEW k,
         Queue(placeholders[out], text, k, nextTicket),
         NEW outputs, FilterOutputs(out, outputs)
  PROVE  /\ outputs = << >> => Queue(placeholders'[out], text, k, nextTicket')
         /\ outputs = << Place >> => Queue(placeholders'[out], text, k + 1, nextTicket')
         /\ outputs = << Place, Place, Place >> =>
              Queue(placeholders'[out], text, k + 3, nextTicket')
         /\ \A t \in Seq(Sent) : outputs = << String(t) >> /\ k = 0 =>
              Queue(placeholders'[out], text \o t, 0, nextTicket')
PROOF
<1>0. placeholders[out] \in Seq(Record) /\ k \in Nat
  BY QueueHoles DEF Queue
<1>1. ASSUME outputs \in Seq(Plain)
      PROVE  /\ nextTicket' = nextTicket + Len(outputs)
             /\ \E f : /\ placeholders'[out] = f[Len(outputs)]
                       /\ f[0] = placeholders[out]
                       /\ \A j \in 1..Len(outputs) :
                            f[j] = Output(f[j - 1], nextTicket + j - 1, outputs[j])
  <2>1. /\ nextTicket' = nextTicket + Len(outputs)
        /\ \E f : /\ placeholders' = [placeholders EXCEPT ![out] = f[Len(outputs)]]
                  /\ f[0] = placeholders[out]
                  /\ \A j \in 1..Len(outputs) :
                       f[j] = Output(f[j - 1], nextTicket + j - 1, outputs[j])
    BY <1>0, <1>1, OutputsGoOn
  <2>2. \A x : [placeholders EXCEPT ![out] = x][out] = x
    OBVIOUS
  <2> QED
    BY <2>1, <2>2
<1>2. \A phs, id : Output(phs, id, Place) = OutputPlaceholder(phs, id)
  BY DEF Output, Place
<1>3. \A phs, id, t : Output(phs, id, String(t)) = OutputString(phs, id, t)
  BY DEF Output, String
<1>4. Place \in Plain /\ \A t \in Seq(Sent) : String(t) \in Plain
  BY DEF Plain
<1> HIDE DEF Plain
<1>9. /\ << >> # << Place >> /\ << >> # << Place, Place, Place >>
      /\ << Place >> # << Place, Place, Place >>
      /\ \A t : << String(t) >> # << >> /\ << String(t) >> # << Place >>
                /\ << String(t) >> # << Place, Place, Place >>
  <2>1. \A t : String(t) # Place
    BY DEF String, Place
  <2> HIDE DEF Place, String
  <2> QED
    BY <2>1
<1>5. CASE outputs = << >>
  <2>1. outputs \in Seq(Plain) /\ Len(outputs) = 0
    BY <1>5, EmptySeq
  <2>2. nextTicket' = nextTicket /\ placeholders'[out] = placeholders[out]
    BY <1>1, <2>1
  <2> QED
    BY <1>5, <2>2
<1>6. CASE outputs = << Place >>
  <2>1. outputs \in Seq(Plain) /\ Len(outputs) = 1 /\ outputs[1] = Place /\ 1 \in 1..1
        /\ 1 - 1 = 0
    BY <1>4, <1>6
  <2>2. /\ nextTicket' = nextTicket + 1
        /\ placeholders'[out] = Output(placeholders[out], nextTicket + 1 - 1, Place)
    BY <1>1, <2>1
  <2>3. placeholders'[out] = OutputPlaceholder(placeholders[out], nextTicket)
    <3>1. nextTicket + 1 - 1 = nextTicket
      OBVIOUS
    <3> QED
      BY <1>2, <2>2, <3>1
  <2>4. Queue(placeholders'[out], text, k + 1, nextTicket')
    <3> DEFINE q == placeholders[out]
    <3> HIDE DEF q
    <3>1. Queue(OutputPlaceholder(q, nextTicket), text, k + 1, nextTicket + 1)
      BY QueueHole DEF q
    <3> QED
      BY <2>2, <2>3, <3>1 DEF q
  <2> QED
    BY <1>6, <1>9, <2>4
<1>7. CASE outputs = << Place, Place, Place >>
  <2>1. /\ outputs \in Seq(Plain) /\ Len(outputs) = 3
        /\ \A j \in 1..3 : outputs[j] = Place
    BY <1>4, <1>7
  <2>2. PICK f : /\ placeholders'[out] = f[3]
                 /\ f[0] = placeholders[out]
                 /\ \A j \in 1..3 : f[j] = Output(f[j - 1], nextTicket + j - 1, outputs[j])
    BY <1>1, <2>1
  <2>3. nextTicket' = nextTicket + 3
    BY <1>1, <2>1
  <2>4. /\ f[1] = OutputPlaceholder(f[0], nextTicket)
        /\ f[2] = OutputPlaceholder(f[1], nextTicket + 1)
        /\ f[3] = OutputPlaceholder(f[2], nextTicket + 2)
    <3>1. /\ 1 \in 1..3 /\ 2 \in 1..3 /\ 3 \in 1..3 /\ 1 - 1 = 0 /\ 2 - 1 = 1 /\ 3 - 1 = 2
          /\ nextTicket + 1 - 1 = nextTicket
          /\ nextTicket + 2 - 1 = nextTicket + 1
          /\ nextTicket + 3 - 1 = nextTicket + 2
      OBVIOUS
    <3>2. /\ f[1] = Output(f[0], nextTicket, Place)
          /\ f[2] = Output(f[1], nextTicket + 1, Place)
          /\ f[3] = Output(f[2], nextTicket + 2, Place)
      BY <2>1, <2>2, <3>1
    <3> QED
      BY <1>2, <3>2
  <2>5. Queue(f[1], text, k + 1, nextTicket + 1)
    <3>1. Queue(f[0], text, k, nextTicket)
      BY <2>2
    <3> QED
      BY <2>4, <3>1, QueueHole
  <2>6. Queue(f[2], text, k + 2, nextTicket + 2)
    <3>1. Queue(f[2], text, (k + 1) + 1, (nextTicket + 1) + 1)
      <4> DEFINE l == nextTicket + 1
                 m == k + 1
      <4>1. Queue(f[1], text, m, l) /\ l \in Nat /\ f[2] = OutputPlaceholder(f[1], l)
        BY <2>4, <2>5
      <4> HIDE DEF l, m
      <4>2. Queue(f[2], text, m + 1, l + 1)
        BY <4>1, QueueHole
      <4> QED
        BY <4>2 DEF l, m
    <3>2. (k + 1) + 1 = k + 2 /\ (nextTicket + 1) + 1 = nextTicket + 2
      BY <1>0
    <3> QED
      BY <3>1, <3>2
  <2>7. Queue(f[3], text, k + 3, nextTicket + 3)
    <3>1. Queue(f[3], text, (k + 2) + 1, (nextTicket + 2) + 1)
      <4> DEFINE l == nextTicket + 2
                 m == k + 2
      <4>1. Queue(f[2], text, m, l) /\ l \in Nat /\ f[3] = OutputPlaceholder(f[2], l)
        BY <2>4, <2>6
      <4> HIDE DEF l, m
      <4>2. Queue(f[3], text, m + 1, l + 1)
        BY <4>1, QueueHole
      <4> QED
        BY <4>2 DEF l, m
    <3>2. (k + 2) + 1 = k + 3 /\ (nextTicket + 2) + 1 = nextTicket + 3
      BY <1>0
    <3> QED
      BY <3>1, <3>2
  <2> QED
    BY <1>7, <1>9, <2>2, <2>3, <2>7
<1>8. ASSUME NEW t \in Seq(Sent), outputs = << String(t) >>, k = 0
      PROVE  Queue(placeholders'[out], text \o t, 0, nextTicket')
  <2>1. outputs \in Seq(Plain) /\ Len(outputs) = 1 /\ outputs[1] = String(t) /\ 1 \in 1..1
        /\ 1 - 1 = 0
    BY <1>4, <1>8
  <2>2. /\ nextTicket' = nextTicket + 1
        /\ placeholders'[out] = Output(placeholders[out], nextTicket + 1 - 1, String(t))
    BY <1>1, <2>1
  <2>3. placeholders'[out] = OutputString(placeholders[out], nextTicket, t)
    <3>1. nextTicket + 1 - 1 = nextTicket
      OBVIOUS
    <3> QED
      BY <1>3, <2>2, <3>1
  <2> DEFINE q == placeholders[out]
  <2> HIDE DEF q
  <2>4. Queue(OutputString(q, nextTicket, t), text \o t, 0, nextTicket + 1)
    BY <1>8, QueueString DEF q
  <2> QED
    BY <2>2, <2>3, <2>4 DEF q
<1> QED
  BY <1>5, <1>6, <1>7, <1>8, <1>9

\* What the placeholders of a request and of a header are fulfilled with.
LEMMA OneContent ==
  ASSUME NEW a \in Seq(Sent)
  PROVE  << a >> \in Seq(Seq(Sent)) /\ Seqs!FlattenSeq(<< a >>) = a
PROOF
<1>1. Seqs!FlattenSeq(<< a >>) = a
  BY FlattenShort
<1>2. << a >> \in Seq(Seq(Sent))
  <2> DEFINE T == Seq(Sent)
  <2>1. a \in T
    OBVIOUS
  <2> HIDE DEF T
  <2>2. << a >> \in Seq(T)
    BY <2>1
  <2> QED
    BY <2>2 DEF T
<1> QED
  BY <1>1, <1>2

LEMMA OneMoreContent ==
  ASSUME NEW before \in Seq(Seq(Sent)), NEW a \in Seq(Sent), NEW cs,
         cs \in Seq(Seq(Sent)), Len(cs) = Len(before) + 1, cs[Len(cs)] = a,
         \A i \in 1..Len(before) : cs[i] = before[i]
  PROVE  Seqs!FlattenSeq(cs) = Seqs!FlattenSeq(before) \o a
PROOF
<1> DEFINE T == Seq(Sent)
           last == << a >>
<1>1. last \in Seq(T) /\ Seqs!FlattenSeq(last) = a
  BY OneContent
<1>2. cs = before \o last
  <2>1. Len(last) = 1 /\ last[1] = a /\ \A i \in 1..1 : i = 1
    OBVIOUS
  <2>2. Len(before) \in Nat
    BY LenProperties
  <2>3. cs \in Seq(T) /\ before \in Seq(T) /\ last \in Seq(T)
    BY <1>1
  <2> HIDE DEF T, last
  <2>4. /\ Len(cs) = Len(before) + Len(last)
        /\ \A i \in 1..Len(last) : cs[Len(before) + i] = last[i]
    BY <2>1, <2>2
  <2> QED
    BY <2>3, <2>4, Followed
<1>3. Seqs!FlattenSeq(before \o last) = Seqs!FlattenSeq(before) \o Seqs!FlattenSeq(last)
  <2> HIDE DEF last
  <2> QED
    BY <1>1, FlattenConcat
<1> QED
  BY <1>1, <1>2, <1>3

LEMMA ThreeContents ==
  ASSUME NEW a \in Seq(Sent), NEW b \in Seq(Sent), NEW c \in Seq(Sent)
  PROVE  /\ << a, b, c >> \in Seq(Seq(Sent))
         /\ Seqs!FlattenSeq(<< a, b, c >>) = a \o b \o c
PROOF
<1> DEFINE T == Seq(Sent)
<1>1. << a, b >> \in Seq(T) /\ << a, b, c >> \in Seq(T)
  <2>1. a \in T /\ b \in T /\ c \in T
    OBVIOUS
  <2> HIDE DEF T
  <2> QED
    BY <2>1
<1>2. << a >> \in Seq(T) /\ Seqs!FlattenSeq(<< a >>) = a
  BY OneContent
<1>3. Seqs!FlattenSeq(<< a, b >>) = a \o b
  <2>1. PICK before, cs : before = << a >> /\ cs = << a, b >>
    OBVIOUS
  <2>2. /\ Len(before) = 1 /\ Len(cs) = 2 /\ cs[2] = b
        /\ \A i \in 1..1 : cs[i] = before[i]
    BY <2>1
  <2>3. /\ before \in Seq(Seq(Sent)) /\ cs \in Seq(Seq(Sent))
        /\ Len(cs) = Len(before) + 1 /\ cs[Len(cs)] = b
        /\ \A i \in 1..Len(before) : cs[i] = before[i]
    BY <1>1, <1>2, <2>1, <2>2
  <2>4. Seqs!FlattenSeq(cs) = Seqs!FlattenSeq(before) \o b
    BY <2>3, OneMoreContent
  <2> QED
    BY <1>2, <2>1, <2>4
<1>4. Seqs!FlattenSeq(<< a, b, c >>) = a \o b \o c
  <2>1. PICK before, cs : before = << a, b >> /\ cs = << a, b, c >>
    OBVIOUS
  <2>2. /\ Len(before) = 2 /\ Len(cs) = 3 /\ cs[3] = c
        /\ \A i \in 1..2 : cs[i] = before[i]
    BY <2>1
  <2>3. /\ before \in Seq(Seq(Sent)) /\ cs \in Seq(Seq(Sent))
        /\ Len(cs) = Len(before) + 1 /\ cs[Len(cs)] = c
        /\ \A i \in 1..Len(before) : cs[i] = before[i]
    BY <1>1, <2>1, <2>2
  <2>4. Seqs!FlattenSeq(cs) = Seqs!FlattenSeq(before) \o c
    BY <2>3, OneMoreContent
  <2> QED
    BY <1>3, <2>1, <2>4
<1> QED
  BY <1>1, <1>4

LEMMA FourContents ==
  ASSUME NEW a \in Seq(Sent)
  PROVE  /\ << a, a, a, a >> \in Seq(Seq(Sent))
         /\ Seqs!FlattenSeq(<< a, a, a, a >>) = a \o a \o a \o a
PROOF
<1> DEFINE T == Seq(Sent)
<1>1. << a, a, a, a >> \in Seq(T)
  <2>1. a \in T
    OBVIOUS
  <2> HIDE DEF T
  <2> QED
    BY <2>1
<1>2. << a, a, a >> \in Seq(T) /\ Seqs!FlattenSeq(<< a, a, a >>) = a \o a \o a
  BY ThreeContents
<1>3. PICK before, cs : before = << a, a, a >> /\ cs = << a, a, a, a >>
  OBVIOUS
<1>4. /\ Len(before) = 3 /\ Len(cs) = 4 /\ cs[4] = a
      /\ \A i \in 1..3 : cs[i] = before[i]
  BY <1>3
<1>5. /\ before \in Seq(Seq(Sent)) /\ cs \in Seq(Seq(Sent))
      /\ Len(cs) = Len(before) + 1 /\ cs[Len(cs)] = a
      /\ \A i \in 1..Len(before) : cs[i] = before[i]
  BY <1>1, <1>2, <1>3, <1>4
<1>6. Seqs!FlattenSeq(cs) = Seqs!FlattenSeq(before) \o a
  BY <1>5, OneMoreContent
<1> QED
  BY <1>1, <1>2, <1>3, <1>6

-----------------------------------------------------------------------------
(* What the server is to be sent.                                          *)

\* The head of what the server is to be sent when c has been taken from the client,
\* or what is to go through the tunnel.
Due(c, s) == IF IsIn(c, {"CONNECT"}) THEN Tunnelled(s) ELSE RequestHead(s)

\* Whatever comes behind c: said is the beginning of what the server is to be sent.
Told(said, c) == \A u \in Seq(Alphabet) : Seqs!IsPrefix(said, Due(c, c \o u))

LEMMA ToldIsEnough ==
  ASSUME LoopInv, Told(bytesWrittenSoFar["server"], consumed["client"])
  PROVE  ServerGetsTheRequest
PROOF
<1> DEFINE c == consumed["client"]
           a == uncommittedBytes["client"]
           b == unfilteredBytes["client"]
<1>1. "client" \in Conn
  BY DEF Conn
<1>2. c \in Seq(Alphabet) /\ a \in Seq(Alphabet) /\ b \in Seq(Alphabet)
  BY <1>1 DEF LoopInv, StreamInv, Typed
<1>3. bytesReadSoFar["client"] = c \o a \o b
  BY <1>1 DEF LoopInv, StreamInv, NoByteLost
<1>4. Told(bytesWrittenSoFar["server"], c)
  OBVIOUS
<1>5. /\ IsConnect => Due(c, bytesReadSoFar["client"]) = ToServer(bytesReadSoFar["client"])
      /\ ~IsConnect => Due(c, bytesReadSoFar["client"]) = RequestHead(bytesReadSoFar["client"])
  BY DEF ToServer, Due, IsConnect
<1> HIDE DEF a, b, c
<1>6. a \o b \in Seq(Alphabet) /\ c \o a \o b = c \o (a \o b)
  BY <1>2, ConcatProperties, Regrouped
<1>7. Seqs!IsPrefix(bytesWrittenSoFar["server"], Due(c, c \o (a \o b)))
  BY <1>4, <1>6 DEF Told
<1>8. Seqs!IsPrefix(bytesWrittenSoFar["server"], Due(c, bytesReadSoFar["client"]))
  BY <1>3, <1>6, <1>7
<1>9. Texts!IsPrefix(bytesWrittenSoFar["server"], Due(c, bytesReadSoFar["client"]))
  BY <1>8 DEF Texts!IsPrefix, Seqs!IsPrefix
<1> QED
  BY <1>5, <1>9 DEF ServerGetsTheRequest

\* A line behind blank lines, byte by byte.
LEMMA LineShape ==
  ASSUME NEW S, NEW l \in Seq(S), OneLine(l)
  PROVE  /\ Len(l) \in Nat
         /\ \E k \in Nat :
              /\ 2 * k + 2 < Len(l)
              /\ \A i \in 1..k : l[2 * i - 1] = "r" /\ l[2 * i] = "n"
              /\ \A p \in (2 * k + 1)..(Len(l) - 1) :
                   l[p] = "r" /\ l[p + 1] = "n" <=> p = Len(l) - 1
PROOF
<1>1. Len(l) \in Nat /\ \A i \in 1..Len(l) : l[i] \in S
  BY LenProperties, ElementOfSeq
<1>2. PICK k \in 0..Len(l) :
        /\ \A i \in 1..k : SubSeq(l, 2 * i - 1, 2 * i) = CRLF
        /\ DelimiterAt(From(l, 2 * k + 1)) = {Len(From(l, 2 * k + 1)) - 1}
        /\ Len(From(l, 2 * k + 1)) > 2
  BY DEF OneLine
<1> DEFINE line == From(l, 2 * k + 1)
           n == Len(line)
<1>3. k \in Nat /\ 2 * k + 1 \in Nat /\ 2 * k + 1 >= 1
  BY <1>1
<1>4. 2 * k + 1 <= Len(l)
  <2>1. SUFFICES ASSUME 2 * k + 1 > Len(l) PROVE FALSE
    BY <1>1, <1>3
  <2>2. line = << >>
    BY <1>1, <1>3, <2>1, SubSeqEmpty DEF From
  <2>3. Len(<< >>) = 0
    OBVIOUS
  <2> QED
    BY <1>2, <2>2, <2>3
<1>5. \A i \in (2 * k + 1)..Len(l) : l[i] \in S
  BY <1>1, <1>3
<1>6. /\ line \in Seq(S)
      /\ n = Len(l) - (2 * k + 1) + 1
      /\ \A i \in 1..(Len(l) - (2 * k + 1) + 1) : line[i] = l[(2 * k + 1) + i - 1]
  <2> DEFINE m == 2 * k + 1
  <2>1. m \in Int /\ Len(l) \in Int /\ m <= Len(l) /\ \A i \in m..Len(l) : l[i] \in S
    BY <1>1, <1>3, <1>4, <1>5
  <2> HIDE DEF m
  <2>2. /\ SubSeq(l, m, Len(l)) \in Seq(S)
        /\ Len(SubSeq(l, m, Len(l))) = Len(l) - m + 1
        /\ \A i \in 1..(Len(l) - m + 1) : SubSeq(l, m, Len(l))[i] = l[m + i - 1]
    BY <2>1, SubSeqProperties
  <2> QED
    BY <2>2 DEF From, m
<1>7. DelimiterAt(line) = { p \in 1..(n - 1) : line[p] = "r" /\ line[p + 1] = "n" }
  BY <1>6, DelimiterPlaces
<1>8. DelimiterAt(line) = {n - 1} /\ n > 2
  BY <1>2
<1> HIDE DEF line, n
<1>9. n = Len(l) - 2 * k /\ n \in Nat
  BY <1>1, <1>3, <1>4, <1>6
<1>10. 2 * k + 2 < Len(l)
  BY <1>1, <1>3, <1>8, <1>9
<1>11. ASSUME NEW p \in (2 * k + 1)..(Len(l) - 1)
       PROVE  l[p] = "r" /\ l[p + 1] = "n" <=> p = Len(l) - 1
  <2> DEFINE j == p - 2 * k
  <2>1. /\ j \in 1..(n - 1) /\ j + 1 \in 1..n
        /\ (2 * k + 1) + j - 1 = p /\ (2 * k + 1) + (j + 1) - 1 = p + 1
        /\ Len(l) - (2 * k + 1) + 1 = n
        /\ j = n - 1 <=> p = Len(l) - 1
    BY <1>1, <1>3, <1>9
  <2> HIDE DEF j
  <2>2. line[j] = l[p] /\ line[j + 1] = l[p + 1]
    <3>1. j \in 1..(Len(l) - (2 * k + 1) + 1) /\ j + 1 \in 1..(Len(l) - (2 * k + 1) + 1)
      BY <1>9, <2>1
    <3> QED
      BY <1>6, <2>1, <3>1
  <2>3. line[j] = "r" /\ line[j + 1] = "n" <=> j \in DelimiterAt(line)
    BY <1>7, <2>1
  <2>4. j \in DelimiterAt(line) <=> j = n - 1
    BY <1>8
  <2> QED
    BY <2>1, <2>2, <2>3, <2>4
<1>12. ASSUME NEW i \in 1..k
       PROVE  l[2 * i - 1] = "r" /\ l[2 * i] = "n"
  <2>1. 2 * i - 1 \in 1..(Len(l) - 1) /\ (2 * i - 1) + 1 = 2 * i
    BY <1>1, <1>3, <1>10
  <2>2. SubSeq(l, 2 * i - 1, (2 * i - 1) + 1) = CRLF
    BY <1>2, <2>1
  <2>3. 2 * i - 1 \in DelimiterAt(l)
    BY <2>1, <2>2 DEF DelimiterAt
  <2>4. DelimiterAt(l) = { p \in 1..(Len(l) - 1) : l[p] = "r" /\ l[p + 1] = "n" }
    BY DelimiterPlaces
  <2> QED
    BY <2>1, <2>3, <2>4
<1> QED
  BY <1>1, <1>3, <1>10, <1>11, <1>12

\* A request or response line and the header behind it, whole.
WholeHeader(c) ==
  \E l \in Seq(Alphabet), h \in Seq(Alphabet) :
    c = l \o h /\ OneLine(l) /\ AtLineEnd(h) /\ BlankAt(h) = {Len(h) - 1}

\* The first blank line behind the line ends the header.
LEMMA HeaderEnds ==
  ASSUME NEW c \in Seq(Alphabet), WholeHeader(c), NEW u \in Seq(Alphabet)
  PROVE  ThroughHeader(c \o u) = Len(c)
PROOF
<1>1. PICK l \in Seq(Alphabet), h \in Seq(Alphabet) :
        c = l \o h /\ OneLine(l) /\ BlankAt(h) = {Len(h) - 1}
  BY DEF WholeHeader
<1> DEFINE L == Len(l)
           H == Len(h)
           s == c \o u
           N == Len(s)
           D == DelimiterAt(s)
           DH == DelimiterAt(h)
<1>2. L \in Nat /\ H \in Nat /\ Len(u) \in Nat
  BY LenProperties
<1>3. Len(c) = L + H /\ \A i \in 1..(L + H) : c[i] = IF i <= L THEN l[i] ELSE h[i - L]
  BY <1>1, ConcatProperties
<1>4. /\ s \in Seq(Alphabet) /\ N = L + H + Len(u)
      /\ \A i \in 1..(L + H) : s[i] = c[i]
  <2>1. /\ s \in Seq(Alphabet) /\ N = Len(c) + Len(u)
        /\ \A i \in 1..(Len(c) + Len(u)) : s[i] = IF i <= Len(c) THEN c[i] ELSE u[i - Len(c)]
    BY ConcatProperties
  <2>2. Len(c) = L + H /\ L + H \in Nat
    BY <1>2, <1>3
  <2> HIDE DEF s, N, L, H
  <2>3. ASSUME NEW i \in 1..(L + H) PROVE s[i] = c[i]
    <3>1. i \in 1..(Len(c) + Len(u)) /\ i <= Len(c)
      BY <1>2, <2>2
    <3> QED
      BY <2>1, <3>1
  <2>4. N = L + H + Len(u)
    BY <2>1, <2>2
  <2> QED
    BY <2>1, <2>3, <2>4
<1>5. D = { p \in 1..(N - 1) : s[p] = "r" /\ s[p + 1] = "n" }
  BY <1>4, DelimiterPlaces
<1>6. DH = { p \in 1..(H - 1) : h[p] = "r" /\ h[p + 1] = "n" }
  BY DelimiterPlaces
<1>7. PICK k \in Nat :
        /\ 2 * k + 2 < L
        /\ \A i \in 1..k : l[2 * i - 1] = "r" /\ l[2 * i] = "n"
        /\ \A p \in (2 * k + 1)..(L - 1) : l[p] = "r" /\ l[p + 1] = "n" <=> p = L - 1
  BY <1>1, LineShape
<1>8. H - 1 \in DH /\ \A p \in DH : (p = 1 \/ p - 2 \in DH) <=> p = H - 1
  BY <1>1 DEF BlankAt
<1>9. 2 * k \in Nat /\ L - 1 \in Nat /\ L - 2 \in Nat /\ L \in 1..N
  BY <1>2, <1>4, <1>7
<1> HIDE DEF L, H, s, N, D, DH
<1>10. /\ \A i \in 1..L : s[i] = l[i]
       /\ \A i \in 1..H : s[L + i] = h[i]
  <2>1. ASSUME NEW i \in 1..L PROVE s[i] = l[i]
    <3>1. i \in 1..(L + H) /\ i <= L
      BY <1>2
    <3> QED
      BY <1>3, <1>4, <3>1
  <2>2. ASSUME NEW i \in 1..H PROVE s[L + i] = h[i]
    <3>1. L + i \in 1..(L + H) /\ ~(L + i <= L) /\ (L + i) - L = i
      BY <1>2
    <3> QED
      BY <1>3, <1>4, <3>1
  <2> QED
    BY <2>1, <2>2
<1>11. s[L] = "n" /\ L \notin D
  <2>1. L - 1 \in (2 * k + 1)..(L - 1) /\ (L - 1) + 1 = L /\ L \in 1..L
    BY <1>2, <1>7, <1>9
  <2>2. s[L] = "n"
    BY <1>7, <1>10, <2>1
  <2> QED
    BY <1>5, <2>2
\* The delimiters of the blank lines, and the line's.
<1>12. ASSUME NEW i \in 1..k
       PROVE  2 * i - 1 \in D /\ 2 * i \notin D
  <2>1. /\ 2 * i - 1 \in 1..L /\ 2 * i \in 1..L /\ 2 * i - 1 \in 1..(N - 1)
        /\ (2 * i - 1) + 1 = 2 * i
    BY <1>2, <1>4, <1>7, <1>9
  <2>2. s[2 * i - 1] = "r" /\ s[2 * i] = "n"
    BY <1>7, <1>10, <2>1
  <2> QED
    BY <1>5, <2>1, <2>2
<1>13. ASSUME NEW p \in (2 * k + 1)..(L - 1)
       PROVE  p \in D <=> p = L - 1
  <2>1. p \in 1..L /\ p + 1 \in 1..L /\ p \in 1..(N - 1)
    BY <1>2, <1>4, <1>9
  <2>2. s[p] = l[p] /\ s[p + 1] = l[p + 1]
    BY <1>10, <2>1
  <2> QED
    BY <1>5, <1>7, <2>1, <2>2
<1>14. \A p \in 1..(2 * k) : (\E i \in 1..k : p = 2 * i - 1) \/ (\E i \in 1..k : p = 2 * i)
  <2>1. SUFFICES ASSUME NEW p \in 1..(2 * k)
                 PROVE  (\E i \in 1..k : p = 2 * i - 1) \/ (\E i \in 1..k : p = 2 * i)
    OBVIOUS
  <2>2. PICK q \in Nat : p = 2 * q \/ p = 2 * q + 1
    <3>1. p \in Nat
      OBVIOUS
    <3>2. p \div 2 \in Nat /\ (p = 2 * (p \div 2) \/ p = 2 * (p \div 2) + 1)
      BY <3>1
    <3> QED
      BY <3>2
  <2>3. CASE p = 2 * q
    <3>1. q \in 1..k
      BY <2>1, <2>3
    <3> QED
      BY <2>3, <3>1
  <2>4. CASE p = 2 * q + 1
    <3>1. q + 1 \in 1..k /\ p = 2 * (q + 1) - 1
      BY <2>1, <2>4
    <3> QED
      BY <3>1
  <2> QED
    BY <2>2, <2>3, <2>4
<1>15. L - 1 \in LineEnds(s)
  <2>1. L - 1 \in D
    BY <1>7, <1>9, <1>13
  <2>2. L - 1 # 1
    BY <1>2, <1>7
  <2>3. L - 3 \notin D
    <3>1. CASE L - 3 = 0
      BY <1>5, <3>1
    <3>2. CASE L - 3 = 2 * k /\ L - 3 # 0
      <4>1. k \in 1..k
        BY <1>2, <3>2
      <4> QED
        BY <1>12, <3>2, <4>1
    <3>3. CASE L - 3 # 2 * k
      <4>1. L - 3 \in (2 * k + 1)..(L - 1) /\ L - 3 # L - 1
        BY <1>2, <1>7, <1>9, <3>3
      <4> QED
        BY <1>13, <4>1
    <3> QED
      BY <3>1, <3>2, <3>3
  <2>4. (L - 1) - 2 = L - 3
    BY <1>2
  <2> QED
    BY <2>1, <2>2, <2>3, <2>4 DEF LineEnds, D
<1>16. ASSUME NEW q \in LineEnds(s)
       PROVE  q >= L - 1
  <2>1. q \in D /\ q # 1 /\ q - 2 \notin D
    BY DEF LineEnds, D
  <2>2. q \in 1..(N - 1) /\ q \in Nat
    BY <1>2, <1>4, <1>5, <2>1
  <2>3. SUFFICES ASSUME q < L - 1 PROVE FALSE
    BY <1>9, <2>2
  <2>4. q \notin (2 * k + 1)..(L - 1)
    BY <1>9, <1>13, <2>1, <2>2, <2>3
  <2>5. q \in 1..(2 * k)
    BY <1>9, <2>2, <2>3, <2>4
  <2>6. PICK i \in 1..k : q = 2 * i - 1
    BY <1>12, <1>14, <2>1, <2>5
  <2>7. i # 1
    BY <2>1, <2>6
  <2>8. i - 1 \in 1..k /\ 2 * (i - 1) - 1 = q - 2
    BY <2>6, <2>7
  <2> QED
    BY <1>12, <2>1, <2>8
\* The header's delimiters.
<1>17. ASSUME NEW p \in 1..(H - 1)
       PROVE  L + p \in D <=> p \in DH
  <2>1. p \in 1..H /\ p + 1 \in 1..H /\ L + p \in 1..(N - 1) /\ (L + p) + 1 = L + (p + 1)
    BY <1>2, <1>4
  <2>2. s[L + p] = h[p] /\ s[(L + p) + 1] = h[p + 1]
    BY <1>10, <2>1
  <2> QED
    BY <1>5, <1>6, <2>1, <2>2
<1>18. H - 1 \in 1..(H - 1) /\ H >= 2
  BY <1>2, <1>6, <1>8
<1> DEFINE last == L + (H - 1)
<1>19. last \in BlankLines(s)
  <2>1. last \in D
    BY <1>8, <1>17, <1>18
  <2>2. last - 2 \in D
    <3>1. CASE H - 1 = 1
      <4>1. last - 2 = L - 1
        BY <1>2, <3>1
      <4> QED
        BY <1>15, <4>1 DEF LineEnds, D
    <3>2. CASE H - 1 # 1
      <4>1. (H - 1) - 2 \in DH
        BY <1>8, <3>2
      <4>2. (H - 1) - 2 \in 1..(H - 1) /\ last - 2 = L + ((H - 1) - 2)
        BY <1>2, <1>6, <4>1
      <4> QED
        BY <1>17, <4>1, <4>2
    <3> QED
      BY <3>1, <3>2
  <2>3. L - 1 < last
    BY <1>2, <1>18
  <2> QED
    BY <1>15, <2>1, <2>2, <2>3 DEF BlankLines, D
<1>20. ASSUME NEW p \in BlankLines(s)
       PROVE  last <= p
  <2>1. p \in D /\ p - 2 \in D /\ \E q \in LineEnds(s) : q < p
    BY DEF BlankLines, D
  <2>2. PICK q \in LineEnds(s) : q < p
    BY <2>1
  <2>3. p \in 1..(N - 1) /\ p \in Nat /\ q \in Nat
    <3>1. q \in D
      BY DEF LineEnds, D
    <3> QED
      BY <1>2, <1>4, <1>5, <2>1, <3>1
  <2>4. p > L
    <3>1. p # L
      BY <1>11, <2>1
    <3> QED
      BY <1>2, <1>16, <2>2, <2>3, <3>1
  <2>5. SUFFICES ASSUME p < last PROVE FALSE
    BY <1>2, <2>3
  <2> DEFINE j == p - L
  <2>6. j \in 1..(H - 1) /\ p = L + j /\ j # H - 1
    BY <1>2, <2>3, <2>4, <2>5
  <2> HIDE DEF j
  <2>7. j \in DH
    BY <1>17, <2>1, <2>6
  <2>8. j # 1 /\ j - 2 \notin DH
    BY <1>8, <2>6, <2>7
  <2>9. CASE j = 2
    <3>1. p - 2 = L
      BY <1>2, <2>6, <2>9
    <3> QED
      BY <1>11, <2>1, <3>1
  <2>10. CASE j # 2
    <3>1. j - 2 \in 1..(H - 1) /\ p - 2 = L + (j - 2)
      BY <1>2, <2>6, <2>8, <2>10
    <3> QED
      BY <1>17, <2>1, <2>8, <3>1
  <2> QED
    BY <2>9, <2>10
<1> DEFINE chosen == CHOOSE p \in BlankLines(s) : \A q \in BlankLines(s) : p <= q
<1>21. chosen \in BlankLines(s) /\ \A q \in BlankLines(s) : chosen <= q
  BY <1>19, <1>20
<1>22. chosen \in Nat
  <2>1. chosen \in D
    BY <1>21 DEF BlankLines, D
  <2> QED
    BY <1>2, <1>4, <1>5, <2>1
<1> HIDE DEF chosen
<1>23. chosen = last
  BY <1>2, <1>18, <1>19, <1>20, <1>21, <1>22
<1>24. ThroughHeader(s) = 1 + chosen
  BY <1>19 DEF ThroughHeader, chosen
<1>25. ThroughHeader(s) = L + H
  BY <1>2, <1>18, <1>23, <1>24
<1> QED
  BY <1>3, <1>25 DEF s

LEMMA ThroughIsInside ==
  ASSUME NEW s \in Seq(Alphabet)
  PROVE  ThroughHeader(s) \in 0..Len(s)
PROOF
<1>1. Len(s) \in Nat
  BY LenProperties
<1>2. CASE BlankLines(s) = {}
  BY <1>1, <1>2 DEF ThroughHeader
<1>3. CASE BlankLines(s) # {}
  <2>1. BlankLines(s) \subseteq 1..(Len(s) - 1)
    BY DEF BlankLines, DelimiterAt
  <2>2. BlankLines(s) \subseteq Nat
    BY <1>1, <2>1
  <2>3. \E p \in BlankLines(s) : \A q \in BlankLines(s) : p <= q
    BY <1>3, <2>2, Minimum
  <2> DEFINE chosen == CHOOSE p \in BlankLines(s) : \A q \in BlankLines(s) : p <= q
  <2>4. chosen \in BlankLines(s)
    BY <2>3
  <2>5. ThroughHeader(s) = 1 + chosen
    BY <1>3 DEF ThroughHeader
  <2> HIDE DEF chosen
  <2> QED
    BY <1>1, <2>1, <2>4, <2>5
<1> QED
  BY <1>2, <1>3

\* The texts that the proxy writes itself.
ChunkingOf(c) == IF IsChunked(c) THEN ChunkedText ELSE << >>

LEMMA TextsAreSent ==
  /\ RequestText \in Seq(Sent) /\ HeaderText \in Seq(Sent) /\ CRLF \in Seq(Sent)
  /\ \A c : ChunkingOf(c) \in Seq(Sent)
  /\ << >> \in Seq(Sent) /\ Seq(Alphabet) \subseteq Seq(Sent)
PROOF
<1>1. {"request", "header", "transfer-encoding", "r", "n"} \subseteq Sent
  BY DEF Sent
<1>2. << >> \in Seq(Sent)
  BY EmptySeq
<1>3. Seq(Alphabet) \subseteq Seq(Sent)
  <2>1. Alphabet \subseteq Sent
    BY DEF Sent
  <2> QED
    BY <2>1, SeqMonotonic
<1> HIDE DEF Sent
<1>4. /\ RequestText \in Seq(Sent) /\ HeaderText \in Seq(Sent) /\ CRLF \in Seq(Sent)
      /\ ChunkedText \in Seq(Sent)
  BY <1>1 DEF RequestText, HeaderText, CRLF, ChunkedText
<1> QED
  BY <1>2, <1>3, <1>4 DEF ChunkingOf

\* The request and the header as the server gets them.
Rewritten(c) == RequestText \o (HeaderText \o ChunkingOf(c) \o CRLF)

LEMMA RewrittenIsSent ==
  ASSUME NEW c
  PROVE  /\ HeaderText \o ChunkingOf(c) \o CRLF \in Seq(Sent)
         /\ Rewritten(c) \in Seq(Sent)
         /\ Rewritten(c) = RequestText \o HeaderText \o ChunkingOf(c) \o CRLF
PROOF
<1> DEFINE a == RequestText
           b == HeaderText
           d == ChunkingOf(c)
           e == CRLF
<1>1. a \in Seq(Sent) /\ b \in Seq(Sent) /\ d \in Seq(Sent) /\ e \in Seq(Sent)
  BY TextsAreSent
<1> HIDE DEF a, b, d, e
<1>2. b \o d \in Seq(Sent) /\ b \o d \o e \in Seq(Sent) /\ a \o b \in Seq(Sent)
  BY <1>1, ConcatProperties
<1>3. a \o (b \o d \o e) \in Seq(Sent)
  BY <1>1, <1>2, ConcatProperties
<1>4. a \o (b \o d \o e) = a \o (b \o d) \o e
  <2> DEFINE f == b \o d
  <2>1. f \in Seq(Sent)
    BY <1>2
  <2> HIDE DEF f
  <2>2. a \in Seq(Sent) /\ e \in Seq(Sent)
    BY <1>1
  <2>3. a \o f \o e = a \o (f \o e)
    BY <2>1, <2>2, Regrouped
  <2> QED
    BY <2>3 DEF f
<1>5. a \o (b \o d) = a \o b \o d
  BY <1>1, Regrouped
<1> QED
  BY <1>2, <1>3, <1>4, <1>5 DEF Rewritten, a, b, d, e

LEMMA DueIsSent ==
  ASSUME NEW c, NEW s \in Seq(Alphabet)
  PROVE  /\ Due(c, s) \in Seq(Sent)
         /\ IsIn(c, {"CONNECT"}) => Due(c, s) = From(s, ThroughHeader(s) + 1)
         /\ ~IsIn(c, {"CONNECT"}) =>
              Due(c, s) = Rewritten(SubSeq(s, 1, ThroughHeader(s)))
PROOF
<1>1. CASE IsIn(c, {"CONNECT"})
  <2>1. From(s, ThroughHeader(s) + 1) \in Seq(Alphabet)
    BY ThroughIsInside, Split
  <2> QED
    BY <1>1, <2>1, TextsAreSent DEF Due, Tunnelled
<1>2. CASE ~IsIn(c, {"CONNECT"})
  <2> DEFINE h == SubSeq(s, 1, ThroughHeader(s))
  <2>1. Due(c, s) = RequestText \o HeaderText \o ChunkingOf(h) \o CRLF
    BY <1>2 DEF Due, RequestHead, ChunkingOf
  <2> HIDE DEF h
  <2>2. Due(c, s) = Rewritten(h) /\ Rewritten(h) \in Seq(Sent)
    BY <2>1, RewrittenIsSent
  <2> QED
    BY <1>2, <2>2 DEF h
<1> QED
  BY <1>1, <1>2

\* What the server is to be sent begins with text, whatever comes behind c.
Plan(c, text) ==
  \A u \in Seq(Alphabet) : \E v \in Seq(Sent) : Due(c, c \o u) = text \o v

\* Two sequences joined are one and then the other.
LEMMA FrontAndRest ==
  ASSUME NEW S, NEW a \in Seq(S), NEW b \in Seq(S)
  PROVE  /\ a \o b \in Seq(S) /\ Len(a \o b) = Len(a) + Len(b)
         /\ Len(a) \in Nat /\ Len(b) \in Nat
         /\ SubSeq(a \o b, 1, Len(a)) = a
         /\ From(a \o b, Len(a) + 1) = b
PROOF
<1> DEFINE m == Len(a)
           n == Len(b)
           s == a \o b
<1>1. m \in Nat /\ n \in Nat
  BY LenProperties
<1>2. /\ s \in Seq(S) /\ Len(s) = m + n
      /\ \A i \in 1..(m + n) : s[i] = IF i <= m THEN a[i] ELSE b[i - m]
  BY ConcatProperties
<1> HIDE DEF m, n, s
<1>3. SubSeq(s, 1, m) = a
  <2>1. 0 + m <= Len(s) /\ \A i \in 1..m : s[0 + i] = a[i]
    BY <1>1, <1>2
  <2>2. SubSeq(s, 0 + 1, 0 + m) = a
    BY <1>2, <2>1, Piece DEF m
  <2>3. 0 + 1 = 1 /\ 0 + m = m
    BY <1>1
  <2> QED
    BY <2>2, <2>3
<1>4. SubSeq(s, m + 1, Len(s)) = b
  <2>1. \A i \in 1..n : s[m + i] = b[i]
    <3> SUFFICES ASSUME NEW i \in 1..n PROVE s[m + i] = b[i]
      OBVIOUS
    <3>1. m + i \in 1..(m + n) /\ ~(m + i <= m) /\ (m + i) - m = i
      BY <1>1
    <3> QED
      BY <1>2, <3>1
  <2>2. m + n <= Len(s)
    BY <1>1, <1>2
  <2>3. SubSeq(s, m + 1, m + n) = b
    BY <1>1, <1>2, <2>1, <2>2, Piece DEF n
  <2> QED
    BY <1>2, <2>3
<1> QED
  BY <1>1, <1>2, <1>3, <1>4 DEF From, m, n, s

LEMMA PrefixOfJoined ==
  ASSUME NEW S, NEW a \in Seq(S), NEW b \in Seq(S)
  PROVE  Seqs!IsPrefix(a, a \o b)
PROOF
<1>1. Len(a) \in Nat /\ Len(b) \in Nat /\ Len(a \o b) = Len(a) + Len(b)
  BY FrontAndRest
<1>2. SubSeq(a \o b, 1, Len(a)) = a
  BY FrontAndRest
<1>3. SubSeq(a, 1, Len(a)) = a
  BY SubSeqFull
<1> QED
  BY <1>1, <1>2, <1>3 DEF Seqs!IsPrefix

LEMMA PlanTells ==
  ASSUME NEW c, NEW a \in Seq(Sent), NEW b \in Seq(Sent), Plan(c, a \o b)
  PROVE  Told(a, c)
PROOF
<1>1. SUFFICES ASSUME NEW u \in Seq(Alphabet) PROVE Seqs!IsPrefix(a, Due(c, c \o u))
  BY DEF Told
<1>2. PICK v \in Seq(Sent) : Due(c, c \o u) = a \o b \o v
  BY DEF Plan
<1>3. b \o v \in Seq(Sent) /\ a \o b \o v = a \o (b \o v)
  BY ConcatProperties, Regrouped
<1>4. Seqs!IsPrefix(a, a \o (b \o v))
  BY <1>3, PrefixOfJoined
<1> QED
  BY <1>2, <1>3, <1>4

\* Nothing yet; the request line of another request than CONNECT; that and its
\* header, once it is whole; of a CONNECT what is behind its header.
LEMMA Plans ==
  ASSUME NEW c \in Seq(Alphabet)
  PROVE  /\ Plan(c, << >>)
         /\ ~IsIn(c, {"CONNECT"}) => Plan(c, RequestText)
         /\ ~IsIn(c, {"CONNECT"}) /\ WholeHeader(c) => Plan(c, Rewritten(c))
         /\ \A h, t \in Seq(Alphabet) :
              IsIn(c, {"CONNECT"}) /\ c = h \o t /\ WholeHeader(h) => Plan(c, t)
PROOF
<1>1. \A u \in Seq(Alphabet) : c \o u \in Seq(Alphabet)
  BY ConcatProperties
<1>2. Plan(c, << >>)
  <2>1. ASSUME NEW u \in Seq(Alphabet)
        PROVE  \E v \in Seq(Sent) : Due(c, c \o u) = << >> \o v
    <3>1. Due(c, c \o u) \in Seq(Sent)
      BY <1>1, DueIsSent
    <3>2. Due(c, c \o u) = << >> \o Due(c, c \o u)
      BY <3>1, ConcatEmptySeq
    <3> QED
      BY <3>1, <3>2
  <2> QED
    BY <2>1 DEF Plan
<1>3. ASSUME ~IsIn(c, {"CONNECT"})
      PROVE  Plan(c, RequestText)
  <2>1. ASSUME NEW u \in Seq(Alphabet)
        PROVE  \E v \in Seq(Sent) : Due(c, c \o u) = RequestText \o v
    <3> DEFINE h == SubSeq(c \o u, 1, ThroughHeader(c \o u))
    <3>1. Due(c, c \o u) = Rewritten(h)
      BY <1>1, <1>3, DueIsSent
    <3> HIDE DEF h
    <3>2. HeaderText \o ChunkingOf(h) \o CRLF \in Seq(Sent)
      BY RewrittenIsSent
    <3> QED
      BY <3>1, <3>2 DEF Rewritten
  <2> QED
    BY <2>1 DEF Plan
<1>4. ASSUME ~IsIn(c, {"CONNECT"}), WholeHeader(c)
      PROVE  Plan(c, Rewritten(c))
  <2>1. ASSUME NEW u \in Seq(Alphabet)
        PROVE  \E v \in Seq(Sent) : Due(c, c \o u) = Rewritten(c) \o v
    <3>1. SubSeq(c \o u, 1, ThroughHeader(c \o u)) = c
      BY <1>4, HeaderEnds, FrontAndRest
    <3>2. Due(c, c \o u) = Rewritten(c)
      BY <1>1, <1>4, <3>1, DueIsSent
    <3>3. Rewritten(c) = Rewritten(c) \o << >>
      BY RewrittenIsSent, ConcatEmptySeq
    <3> QED
      BY <3>2, <3>3, TextsAreSent
  <2> QED
    BY <2>1 DEF Plan
<1>5. ASSUME NEW h \in Seq(Alphabet), NEW t \in Seq(Alphabet),
             IsIn(c, {"CONNECT"}), c = h \o t, WholeHeader(h)
      PROVE  Plan(c, t)
  <2>1. ASSUME NEW u \in Seq(Alphabet)
        PROVE  \E v \in Seq(Sent) : Due(c, c \o u) = t \o v
    <3>1. t \o u \in Seq(Alphabet) /\ c \o u = h \o (t \o u)
      BY <1>5, ConcatProperties, Regrouped
    <3>2. ThroughHeader(h \o (t \o u)) = Len(h)
      BY <1>5, <3>1, HeaderEnds
    <3>3. From(h \o (t \o u), Len(h) + 1) = t \o u
      <4> DEFINE rest == t \o u
      <4>1. rest \in Seq(Alphabet)
        BY <3>1
      <4> HIDE DEF rest
      <4>2. From(h \o rest, Len(h) + 1) = rest
        BY <4>1, FrontAndRest
      <4> QED
        BY <4>2 DEF rest
    <3>4. Due(c, c \o u) = From(c \o u, ThroughHeader(c \o u) + 1)
      BY <1>1, <1>5, DueIsSent
    <3>5. Due(c, c \o u) = t \o u
      BY <3>1, <3>2, <3>3, <3>4
    <3> QED
      BY <3>5, TextsAreSent
  <2> QED
    BY <2>1 DEF Plan
<1> QED
  BY <1>2, <1>3, <1>4, <1>5

-----------------------------------------------------------------------------
(* What the server has been sent and what is in its deque, together.       *)

\* The text is said, or waits in the deque; behind it there are k holes.
Story(said, phs, limit, text, k) ==
  \E rest \in Seq(Sent) : /\ said \in Seq(Sent) /\ said \o rest = text
                          /\ Queue(phs, rest, k, limit)

LEMMA StoryTells ==
  ASSUME NEW c, NEW said, NEW phs, NEW limit, NEW text, NEW k,
         Story(said, phs, limit, text, k), Plan(c, text)
  PROVE  Told(said, c)
BY PlanTells DEF Story

\* The front of the deque goes on the wire.
LEMMA StorySends ==
  ASSUME NEW said, NEW phs, NEW limit \in Nat, NEW text, NEW k,
         Story(said, phs, limit, text, k), HasKnownWritesPending(phs)
  PROVE  Story(said \o Head(phs).contents, Tail(phs), limit, text, k)
PROOF
<1>1. PICK rest \in Seq(Sent) : /\ said \in Seq(Sent) /\ said \o rest = text
                                /\ Queue(phs, rest, k, limit)
  BY DEF Story
<1> DEFINE front == Head(phs).contents
<1>2. front \in Seq(Sent)
      /\ \E left \in Seq(Sent) : rest = front \o left /\ Queue(Tail(phs), left, k, limit)
  BY <1>1, QueueFront
<1> HIDE DEF front
<1>3. PICK left \in Seq(Sent) : rest = front \o left /\ Queue(Tail(phs), left, k, limit)
  BY <1>2
<1>4. said \o front \in Seq(Sent) /\ said \o front \o left = said \o (front \o left)
  <2>1. said \in Seq(Sent) /\ front \in Seq(Sent) /\ left \in Seq(Sent)
    BY <1>1, <1>2, <1>3
  <2> QED
    BY <2>1, JoinedTwice, SMTT(60)
<1>5. said \o front \o left = text
  BY <1>1, <1>3, <1>4
<1>6. Story(said \o front, Tail(phs), limit, text, k)
  BY <1>3, <1>4, <1>5 DEF Story
<1> QED
  BY <1>6 DEF front

\* The next holes are filled.
LEMMA StoryFulfilled ==
  ASSUME NEW said, NEW phs, NEW limit \in Nat, NEW text, NEW k,
         Story(said, phs, limit, text, k),
         NEW contents \in Seq(Seq(Sent)), ~OneIsMissing(phs, contents),
         NEW more \in Seq(Sent), more = Seqs!FlattenSeq(contents)
  PROVE  /\ Len(contents) <= k /\ k \in Nat
         /\ Story(said, FulfilledInTurn(phs, contents), limit, text \o more,
                  k - Len(contents))
PROOF
<1>1. PICK rest \in Seq(Sent) : /\ said \in Seq(Sent) /\ said \o rest = text
                                /\ Queue(phs, rest, k, limit)
  BY DEF Story
<1>2. Len(contents) <= k /\ k \in Nat
  BY <1>1, QueueMisses, QueueHoles
<1>3. Queue(FulfilledInTurn(phs, contents), rest \o more, k - Len(contents), limit)
  BY <1>1, <1>2, QueueInTurn
<1>4. rest \o more \in Seq(Sent) /\ said \o rest \o more = said \o (rest \o more)
  <2>1. said \in Seq(Sent)
    BY <1>1
  <2> QED
    BY <2>1, JoinedTwice, SMTT(60)
<1>5. said \o (rest \o more) = text \o more
  BY <1>1, <1>4
<1> QED
  BY <1>1, <1>2, <1>3, <1>4, <1>5 DEF Story

\* A filter outputs to the deque.
LEMMA StoryOutputs ==
  ASSUME NEW out \in Conn, DOMAIN placeholders = Conn, nextTicket \in Nat,
         NEW said, NEW text, NEW k,
         Story(said, placeholders[out], nextTicket, text, k),
         NEW outputs, FilterOutputs(out, outputs)
  PROVE  /\ outputs = << >> => Story(said, placeholders'[out], nextTicket', text, k)
         /\ outputs = << Place >> => Story(said, placeholders'[out], nextTicket', text, k + 1)
         /\ outputs = << Place, Place, Place >> =>
              Story(said, placeholders'[out], nextTicket', text, k + 3)
         /\ \A t \in Seq(Sent) : outputs = << String(t) >> /\ k = 0 =>
              Story(said, placeholders'[out], nextTicket', text \o t, 0)
PROOF
<1>1. PICK rest \in Seq(Sent) : /\ said \in Seq(Sent) /\ said \o rest = text
                                /\ Queue(placeholders[out], rest, k, nextTicket)
  BY DEF Story
<1>2. /\ outputs = << >> => Queue(placeholders'[out], rest, k, nextTicket')
      /\ outputs = << Place >> => Queue(placeholders'[out], rest, k + 1, nextTicket')
      /\ outputs = << Place, Place, Place >> =>
           Queue(placeholders'[out], rest, k + 3, nextTicket')
      /\ \A t \in Seq(Sent) : outputs = << String(t) >> /\ k = 0 =>
           Queue(placeholders'[out], rest \o t, 0, nextTicket')
  BY <1>1, QueueOutputs
<1>3. ASSUME NEW t \in Seq(Sent), outputs = << String(t) >>, k = 0
      PROVE  Story(said, placeholders'[out], nextTicket', text \o t, 0)
  <2>1. rest \o t \in Seq(Sent) /\ said \o rest \o t = said \o (rest \o t)
    <3>1. said \in Seq(Sent)
      BY <1>1
    <3> QED
      BY <3>1, JoinedTwice, SMTT(60)
  <2>2. said \o (rest \o t) = text \o t
    BY <1>1, <2>1
  <2>3. Queue(placeholders'[out], rest \o t, 0, nextTicket')
    BY <1>2, <1>3
  <2> QED
    BY <1>1, <2>1, <2>2, <2>3 DEF Story
<1>4. /\ outputs = << >> => Story(said, placeholders'[out], nextTicket', text, k)
      /\ outputs = << Place >> => Story(said, placeholders'[out], nextTicket', text, k + 1)
      /\ outputs = << Place, Place, Place >> =>
           Story(said, placeholders'[out], nextTicket', text, k + 3)
  BY <1>1, <1>2 DEF Story
<1> QED
  BY <1>3, <1>4

\* Tickets are given out, to others.
LEMMA StoryLater ==
  ASSUME NEW said, NEW phs, NEW limit \in Nat, NEW later \in Nat, limit <= later,
         NEW text, NEW k, Story(said, phs, limit, text, k)
  PROVE  Story(said, phs, later, text, k)
BY QueueLater DEF Story

\* The beginning.
LEMMA StoryOfNone ==
  ASSUME NEW limit PROVE Story(<< >>, << >>, limit, << >>, 0)
PROOF
<1>1. << >> \in Seq(Sent) /\ << >> \o << >> = << >>
  BY TextsAreSent, ConcatEmptySeq
<1> QED
  BY <1>1, QueueOfNone DEF Story

-----------------------------------------------------------------------------
(* What a step of the loop does to the client's direction and to what goes *)
(* to the server.                                                          *)

ClientAsIs ==
  /\ consumed'["client"] = consumed["client"]
  /\ filter'["client"] = filter["client"]
  /\ instruction'["client"] = instruction["client"]
  /\ readSoFar'["client"] = readSoFar["client"]
  /\ Waits("client")' <=> Waits("client")

DequeAsIs ==
  /\ placeholders'["server"] = placeholders["server"]
  /\ nextTicket \in Nat /\ nextTicket' \in Nat /\ nextTicket <= nextTicket'

SaidAsIs == bytesWrittenSoFar'["server"] = bytesWrittenSoFar["server"]

FrontIsSaid ==
  /\ HasKnownWritesPending(placeholders["server"])
  /\ bytesWrittenSoFar'["server"]
       = bytesWrittenSoFar["server"] \o Head(placeholders["server"]).contents

\* The loop ends, by an exception or an assertion.
Ends == HasEnded' /\ consumed'["client"] = consumed["client"] /\ (SaidAsIs \/ FrontIsSaid)

Quiet == ClientAsIs /\ DequeAsIs /\ SaidAsIs

SaysFront ==
  /\ ClientAsIs /\ FrontIsSaid
  /\ placeholders'["server"] = Tail(placeholders["server"]) /\ nextTicket' = nextTicket

\* The client's filter gives its first instruction.
Begins ==
  /\ Waits("client") /\ ~Waits("client")'
  /\ consumed'["client"] = consumed["client"]
  /\ filter'["client"] = filter["client"]
  /\ instruction'["client"] = FirstInstruction(filter["client"])
  /\ readSoFar'["client"] = readSoFar["client"]
  /\ FilterOutputs("server", << >>) /\ SaidAsIs

\* The client's filter gets bytes, or is told of a disconnection, and goes on.
RunOn(bytes, disc, ticket) ==
  LET ran == RunWrapper(filter["client"], bytes, readSoFar["client"] + Len(bytes), disc,
                        ticket)
  IN  /\ ran.ended = "ok"
      /\ ~disc => ~Waits("client") /\ instruction["client"].type # "QuitFilter"
      /\ ~Waits("client")'
      /\ consumed'["client"] = consumed["client"] \o bytes
      /\ readSoFar'["client"] = readSoFar["client"] + Len(bytes)
      /\ filter'["client"] = ran.filter /\ instruction'["client"] = ran.instruction
      /\ FilterOutputs("server", ran.outputs)
      /\ SaidAsIs

Runs == \E ticket : \E bytes \in Seq(Alphabet), disc \in BOOLEAN : RunOn(bytes, disc, ticket)

DequesAreThere == DOMAIN placeholders = Conn /\ DOMAIN bytesWrittenSoFar = Conn

\* A step that runs a filter.
LEMMA RunEffects ==
  ASSUME LoopInv, DequesAreThere, ~HasEnded, NEW w \in Conn,
         NEW f, IsFilter(f), w = "client" => f = filter[w],
         NEW stream \in Seq(Alphabet), NEW taken \in 0..Len(stream), NEW disc \in BOOLEAN,
         ~disc => ~Waits(w) /\ instruction[w].type # "QuitFilter",
         NEW T, NEW first \in Seq(T), w = "client" => first = << >>,
         NEW ticket, NEW ran,
         ran = RunWrapper(f, uncommittedBytes[w] \o SubSeq(stream, 1, taken),
                          readSoFar[w] + taken, disc, ticket),
         Helped(w, stream, taken, first, ran),
         ran.ended = "ok" => ~HasEnded',
         ran.ended # "ok" => stage' = ran.ended,
         UNCHANGED bytesWrittenSoFar,
         ~HasEnded' => ~Waits(w)' /\ \A v \in Conn : v # w => (Waits(v)' <=> Waits(v))
  PROVE  (Ends \/ Quiet \/ Runs) /\ DequesAreThere'
PROOF
<1> DEFINE bytes == SubSeq(stream, 1, taken)
           commit == ran.instruction.commitSize
<1>1. /\ uncommittedBytes[w] = << >> /\ nextTicket \in Nat
      /\ consumed \in [Conn -> Seq(Alphabet)] /\ readSoFar \in [Conn -> Nat]
      /\ DOMAIN filter = Conn /\ instruction \in [Conn -> InstructionSet]
  BY DEF LoopInv, StreamInv, NothingUncommitted, Typed, LoopTyped
<1>2. bytes \in Seq(Alphabet) /\ Len(bytes) = taken
  BY Split
<1>3. uncommittedBytes[w] \o bytes = bytes
  BY <1>1, <1>2, ConcatEmptySeq
<1> HIDE DEF bytes
<1>4. ran = RunWrapper(f, bytes, readSoFar[w] + taken, disc, ticket)
  BY <1>3 DEF bytes
<1>5. IsRun(ran, f.class, taken)
  <2> DEFINE soFar == readSoFar[w] + taken
  <2>1. soFar \in Nat
    BY <1>1, LenProperties
  <2> HIDE DEF soFar
  <2>2. IsRun(RunWrapper(f, bytes, soFar, disc, ticket), f.class, Len(bytes))
    BY <1>2, <2>1, WrapperRuns
  <2> QED
    BY <1>2, <1>4, <2>2 DEF soFar
<1>6. /\ ran.ended \in {"ok", "thrown", "asserted", "looping"}
      /\ commit = IF ran.ended = "ok" THEN taken ELSE 0
      /\ \E S : ran.outputs \in Seq(S)
  BY <1>5 DEF IsRun
<1>7. /\ consumed' = [consumed EXCEPT ![w] = consumed[w] \o SubSeq(bytes, 1, commit)]
      /\ readSoFar' = [readSoFar EXCEPT ![w] = readSoFar[w] + taken]
      /\ FilterOutputs(Other(w), first \o ran.outputs)
      /\ filter' = [filter EXCEPT ![w] = ran.filter]
      /\ instruction' = [instruction EXCEPT ![w] = ran.instruction]
  BY <1>3 DEF Helped, bytes
<1> HIDE DEF commit
<1>8. PICK S : ran.outputs \in Seq(S)
  BY <1>6
<1>9. first \o ran.outputs \in Seq(T \union S)
  <2>1. first \in Seq(T \union S) /\ ran.outputs \in Seq(T \union S)
    BY <1>8, SeqMonotonic
  <2> QED
    BY <2>1, ConcatProperties
<1>10. /\ nextTicket' \in Nat /\ nextTicket <= nextTicket'
       /\ DOMAIN placeholders' = DOMAIN placeholders
       /\ \A v \in DOMAIN placeholders : v # Other(w) => placeholders'[v] = placeholders[v]
  <2> DEFINE outputs == first \o ran.outputs
             U == T \union S
             out == Other(w)
  <2>1. outputs \in Seq(U) /\ FilterOutputs(out, outputs) /\ nextTicket \in Nat
    BY <1>1, <1>7, <1>9
  <2> HIDE DEF outputs, U, out
  <2>2. /\ nextTicket' \in Nat /\ nextTicket <= nextTicket'
        /\ DOMAIN placeholders' = DOMAIN placeholders
        /\ \A v \in DOMAIN placeholders : v # out => placeholders'[v] = placeholders[v]
    BY <2>1, OtherDeque
  <2> QED
    BY <2>2 DEF out
<1>11. SaidAsIs /\ DequesAreThere'
  BY <1>10 DEF SaidAsIs, DequesAreThere
<1>12. CASE ran.ended # "ok"
  <2>1. HasEnded'
    BY <1>6, <1>12 DEF HasEnded
  <2>2. SubSeq(bytes, 1, commit) = << >>
    BY <1>2, <1>6, <1>12, SubSeqEmpty
  <2>3. consumed[w] \o << >> = consumed[w]
    BY <1>1, ConcatEmptySeq
  <2>4. consumed'["client"] = consumed["client"]
    BY <1>1, <1>7, <2>2, <2>3 DEF Conn
  <2> QED
    BY <1>11, <2>1, <2>4 DEF Ends
<1>13. CASE ran.ended = "ok" /\ w = "server"
  <2>1. Waits("client")' <=> Waits("client")
    BY <1>13 DEF Conn
  <2>2. Other(w) = "client" /\ placeholders'["server"] = placeholders["server"]
    BY <1>10, <1>13 DEF Other, Conn, DequesAreThere
  <2>3. Quiet
    BY <1>1, <1>7, <1>10, <1>11, <1>13, <2>1, <2>2 DEF Quiet, ClientAsIs, DequeAsIs, Conn
  <2> QED
    BY <1>11, <2>3
<1>14. CASE ran.ended = "ok" /\ w = "client"
  <2>1. commit = Len(bytes) /\ SubSeq(bytes, 1, commit) = bytes
    BY <1>2, <1>6, <1>14, SubSeqFull
  <2>2. Other(w) = "server" /\ first \o ran.outputs = ran.outputs
    BY <1>8, <1>14, ConcatEmptySeq DEF Other
  <2>3. /\ consumed'["client"] = consumed["client"] \o bytes
        /\ readSoFar'["client"] = readSoFar["client"] + Len(bytes)
        /\ filter'["client"] = ran.filter /\ instruction'["client"] = ran.instruction
    BY <1>1, <1>2, <1>7, <1>14, <2>1
  <2>4. FilterOutputs("server", ran.outputs) /\ ~Waits("client")'
    BY <1>7, <1>14, <2>2
  <2>5. ran = RunWrapper(filter["client"], bytes, readSoFar["client"] + Len(bytes), disc,
                         ticket)
    BY <1>2, <1>4, <1>14
  <2>6. ~disc => ~Waits("client") /\ instruction["client"].type # "QuitFilter"
    BY <1>14
  <2>7. Runs
    BY <1>2, <1>11, <1>14, <2>3, <2>4, <2>5, <2>6 DEF Runs, RunOn
  <2> QED
    BY <1>11, <2>7
<1> QED
  BY <1>12, <1>13, <1>14 DEF Conn

\* A step of Setup.
LEMMA SetupEffects ==
  ASSUME LoopInv, DequesAreThere, Setup,
         filter["client"].class # "Chunked", FirstOutputs(filter["client"]) = << >>
  PROVE  (Ends \/ Quiet \/ Begins \/ Runs) /\ DequesAreThere'
PROOF
<1>1. stage = "setup" /\ TodoIsOrdered /\ ~HasEnded /\ UNCHANGED bytesWrittenSoFar
  BY DEF Setup, LoopInv, HasEnded
<1>2. PICK w : w = Head(todo)
  OBVIOUS
<1>3. w \in Conn /\ Waits(w)
  <2>1. << "client", "server" >>[1] = "client" /\ << "server" >>[1] = "server"
    OBVIOUS
  <2> QED
    BY <1>1, <1>2, <2>1 DEF TodoIsOrdered, Conn, Waits
<1> DEFINE f == Begun(filter[w], nextTicket)
           inst == FirstInstruction(filter[w])
           first == FirstOutputs(filter[w])
           stream == unfilteredBytes[w]
<1>4. /\ IsFilter(f) /\ f.class = filter[w].class
      /\ filter[w].class # "Chunked" => f = filter[w]
      /\ \E T : first \in Seq(T)
  <2>1. IsFilter(filter[w])
    BY <1>3 DEF LoopInv, StreamInv, Typed
  <2> QED
    BY <2>1, FiltersBegin
<1>5. w = "client" => f = filter[w] /\ first = << >>
  BY <1>4
<1>6. /\ stream \in Seq(Alphabet) /\ 0 \in 0..Len(stream) /\ nextTicket \in Nat
      /\ DOMAIN filter = Conn /\ instruction \in [Conn -> InstructionSet]
  BY <1>3, LenProperties DEF LoopInv, StreamInv, Typed
<1>7. PICK T : first \in Seq(T)
  BY <1>4
<1>8. CASE sock[w] = "invalid" /\ inst.type # "QuitFilter"
  <2> DEFINE ticket == nextTicket + Len(first)
             taken == 0
  <2>1. FilterHelper(w, f, stream, taken, TRUE, first, NextSetup)
    BY <1>2, <1>8 DEF Setup
  <2>2. taken \in 0..Len(stream)
    BY <1>6
  <2> HIDE DEF f, inst, first, stream, ticket, taken
  <2>3. PICK ran :
          /\ ran = RunWrapper(f, uncommittedBytes[w] \o SubSeq(stream, 1, taken),
                              readSoFar[w] + taken, TRUE, ticket)
          /\ Helped(w, stream, taken, first, ran)
          /\ ran.ended = "ok" => NextSetup
          /\ ran.ended # "ok" => stage' = ran.ended
    BY <2>1 DEF FilterHelper, Helped, ticket
  <2>4. ran.ended \in {"ok", "thrown", "asserted", "looping"}
    <3>1. ran = RunWrapper(f, uncommittedBytes[w] \o SubSeq(stream, 1, taken),
                           readSoFar[w] + taken, TRUE, ticket)
      BY <2>3
    <3> QED
      BY <1>1, <1>3, <1>4, <1>6, <2>2, <3>1, RunEnds
  <2>5. ran.ended = "ok" => ~HasEnded'
    BY <1>1, <2>3 DEF NextSetup, HasEnded
  <2>6. ~HasEnded' => ~Waits(w)' /\ \A v \in Conn : v # w => (Waits(v)' <=> Waits(v))
    <3>1. CASE ran.ended = "ok"
      BY <1>1, <1>2, <2>3, <3>1, NextSetupTurns
    <3>2. CASE ran.ended # "ok"
      BY <2>3, <2>4, <3>2 DEF HasEnded
    <3> QED
      BY <3>1, <3>2
  <2>7. /\ ran = RunWrapper(f, uncommittedBytes[w] \o SubSeq(stream, 1, taken),
                            readSoFar[w] + taken, TRUE, ticket)
        /\ Helped(w, stream, taken, first, ran)
        /\ ran.ended # "ok" => stage' = ran.ended
    BY <2>3
  <2> QED
    BY <1>1, <1>3, <1>4, <1>5, <1>6, <1>7, <2>2, <2>5, <2>6, <2>7, RunEffects
<1>9. CASE ~(sock[w] = "invalid" /\ inst.type # "QuitFilter")
  <2>1. /\ instruction' = [instruction EXCEPT ![w] = inst]
        /\ filter' = [filter EXCEPT ![w] = f]
        /\ FilterOutputs(Other(w), first)
        /\ NextSetup
        /\ UNCHANGED << readSoFar, consumed >>
    BY <1>2, <1>9 DEF Setup
  <2>2. ~Waits(w)' /\ \A v \in Conn : v # w => (Waits(v)' <=> Waits(v))
    BY <1>1, <1>2, <2>1, NextSetupTurns
  <2> HIDE DEF f, first, stream
  <2>3. /\ nextTicket' \in Nat /\ nextTicket <= nextTicket'
        /\ DOMAIN placeholders' = DOMAIN placeholders
        /\ \A v \in DOMAIN placeholders : v # Other(w) => placeholders'[v] = placeholders[v]
    BY <1>6, <1>7, <2>1, OtherDeque
  <2>4. SaidAsIs /\ DequesAreThere'
    BY <1>1, <2>3 DEF SaidAsIs, DequesAreThere
  <2>5. CASE w = "server"
    <3>1. DequeAsIs
      BY <1>6, <2>3, <2>5 DEF DequeAsIs, DequesAreThere, Other, Conn
    <3>2. ClientAsIs
      BY <1>6, <2>1, <2>2, <2>5 DEF ClientAsIs, Conn
    <3> QED
      BY <2>4, <3>1, <3>2 DEF Quiet
  <2>6. CASE w = "client"
    <3>1. FilterOutputs("server", << >>)
      BY <1>5, <2>1, <2>6 DEF Other
    <3>2. /\ consumed'["client"] = consumed["client"]
          /\ filter'["client"] = filter["client"]
          /\ instruction'["client"] = FirstInstruction(filter["client"])
          /\ readSoFar'["client"] = readSoFar["client"]
      BY <1>5, <1>6, <2>1, <2>6 DEF Conn
    <3>3. Begins
      BY <1>3, <2>2, <2>4, <2>6, <3>1, <3>2 DEF Begins
    <3> QED
      BY <2>4, <3>3
  <2> QED
    BY <1>3, <2>5, <2>6 DEF Conn
<1> QED
  BY <1>8, <1>9

\* A run on bytes that were already buffered.
LEMMA FilterBufferedEffects ==
  ASSUME LoopInv, DequesAreThere, NEW w \in Conn, FilterBuffered(w)
  PROVE  (Ends \/ Quiet \/ Runs) /\ DequesAreThere'
PROOF
<1> DEFINE stream == unfilteredBytes[w]
           taken == Satisfied(w)
           ticket == nextTicket + Len(<< >>)
<1>1. stage = "compute" /\ CanFilter(w) /\ UNCHANGED bytesWrittenSoFar
  BY DEF FilterBuffered
<1>2. PICK ran \in {RunWrapper(filter[w], uncommittedBytes[w] \o SubSeq(stream, 1, taken),
                               readSoFar[w] + taken, FALSE, ticket)} :
        /\ Helped(w, stream, taken, << >>, ran)
        /\ ran.ended = "ok" => UNCHANGED << stage, todo >>
        /\ ran.ended # "ok" => stage' = ran.ended /\ todo' = << >>
  BY DEF FilterBuffered, FilterHelper, Helped
<1>3. /\ ~HasEnded /\ IsFilter(filter[w]) /\ stream \in Seq(Alphabet)
      /\ \A v \in Conn : ~Waits(v)
  BY <1>1 DEF LoopInv, StreamInv, Typed, HasEnded, Waits
<1>4. taken \in 0..Len(stream)
  BY <1>1, SatisfiedIsThere
<1>5. instruction[w].type # "QuitFilter"
  BY <1>1 DEF CanFilter, Reading
<1> HIDE DEF stream, taken, ticket
<1>6. ran = RunWrapper(filter[w], uncommittedBytes[w] \o SubSeq(stream, 1, taken),
                       readSoFar[w] + taken, FALSE, ticket)
  BY <1>2
<1>7. ran.ended \in {"ok", "thrown", "asserted", "looping"}
  BY <1>3, <1>4, <1>6, RunEnds
<1>8. /\ ran.ended = "ok" => ~HasEnded'
      /\ stage' # "setup" /\ \A v \in Conn : ~Waits(v)'
  BY <1>1, <1>2, <1>7 DEF HasEnded, Waits
<1>9. << >> \in Seq({})
  BY EmptySeq
<1>10. Helped(w, stream, taken, << >>, ran) /\ (ran.ended # "ok" => stage' = ran.ended)
  BY <1>2
<1> QED
  BY <1>1, <1>3, <1>4, <1>5, <1>6, <1>8, <1>9, <1>10, RunEffects

\* A run of an event that is received.
LEMMA RecvRunEffects ==
  ASSUME LoopInv, DequesAreThere, NEW w \in Conn, AtEvent("recv", w),
         NEW stream \in Seq(Alphabet), NEW taken \in 0..Len(stream), NEW disc \in BOOLEAN,
         FilterHelper(w, filter[w], stream, taken, disc, << >>, NextEvent),
         UNCHANGED bytesWrittenSoFar
  PROVE  (Ends \/ Quiet \/ Runs) /\ DequesAreThere'
PROOF
<1> DEFINE ticket == nextTicket + Len(<< >>)
<1>1. PICK ran :
        /\ ran = RunWrapper(filter[w], uncommittedBytes[w] \o SubSeq(stream, 1, taken),
                            readSoFar[w] + taken, disc, ticket)
        /\ Helped(w, stream, taken, << >>, ran)
        /\ ran.ended = "ok" => NextEvent
        /\ ran.ended # "ok" => stage' = ran.ended
  BY DEF FilterHelper, Helped
<1>2. /\ stage = "work" /\ todo \in Seq(Events)
      /\ 1 \in 1..Len(todo) /\ todo[1] = << "recv", w >>
  BY Handled DEF LoopInv, AtEvent
<1>3. instruction[w].type # "QuitFilter"
  BY <1>2 DEF LoopInv, ReadsAreFresh, WillRead, ReadIsFresh
<1>4. ~HasEnded /\ IsFilter(filter[w]) /\ \A v \in Conn : ~Waits(v)
  BY <1>2 DEF LoopInv, StreamInv, Typed, HasEnded, Waits
<1> HIDE DEF ticket
<1>5. ran = RunWrapper(filter[w], uncommittedBytes[w] \o SubSeq(stream, 1, taken),
                       readSoFar[w] + taken, disc, ticket)
  BY <1>1
<1>6. ran.ended \in {"ok", "thrown", "asserted", "looping"}
  BY <1>4, <1>5, RunEnds
<1>7. /\ ran.ended = "ok" => ~HasEnded'
      /\ \A v \in Conn : ~Waits(v)'
  BY <1>1, <1>6 DEF HasEnded, Waits, NextEvent
<1>8. << >> \in Seq({})
  BY EmptySeq
<1>9. Helped(w, stream, taken, << >>, ran) /\ (ran.ended # "ok" => stage' = ran.ended)
  BY <1>1
<1> QED
  BY <1>3, <1>4, <1>5, <1>7, <1>8, <1>9, RunEffects

LEMMA RecvEffects ==
  ASSUME LoopInv, DequesAreThere, NEW w \in Conn,
         RecvData(w) \/ RecvZero(w) \/ RecvReset(w)
  PROVE  (Ends \/ Quiet \/ Runs) /\ DequesAreThere'
PROOF
<1>1. AtEvent("recv", w) /\ UNCHANGED bytesWrittenSoFar
  BY DEF RecvData, RecvZero, RecvReset, RecvUnchanged
<1>2. toCome[w] \in Seq(Alphabet) /\ unfilteredBytes[w] \in Seq(Alphabet)
      /\ nextTicket \in Nat
  BY DEF LoopInv, StreamInv, Typed
<1>3. CASE RecvZero(w) \/ RecvReset(w)
  <2>1. FilterHelper(w, filter[w], unfilteredBytes[w], 0, TRUE, << >>, NextEvent)
    BY <1>3 DEF RecvZero, RecvReset
  <2>2. 0 \in 0..Len(unfilteredBytes[w])
    BY <1>2, LenProperties
  <2> QED
    BY <1>1, <1>2, <2>1, <2>2, RecvRunEffects
<1>4. CASE RecvData(w)
  <2> DEFINE buffer(n) == SubSeq(toCome[w], 1, n)
             stream(n) == WithUnfiltered(w, buffer(n))
  <2>1. PICK n \in 1..Least(MaxRecv, Len(toCome[w])) :
          IF Received(w, stream(n), n) > 0
            THEN FilterHelper(w, filter[w], stream(n), Received(w, stream(n), n),
                              FALSE, << >>, NextEvent)
            ELSE /\ NextEvent
                 /\ UNCHANGED << filter, instruction, readSoFar, consumed, placeholders,
                                 nextTicket >>
    BY <1>4 DEF RecvData
  <2> DEFINE buf == buffer(n)
             str == stream(n)
  <2>2. n \in 0..Len(toCome[w]) /\ n \in Nat
    <3>1. Len(toCome[w]) \in Nat /\ MaxRecv \in Nat
      BY <1>2, ParasockAssumption, LenProperties
    <3> QED
      BY <3>1 DEF Least
  <2>3. buf \in Seq(Alphabet) /\ Len(buf) = n
    BY <1>2, <2>2, Split
  <2>4. str = unfilteredBytes[w] \o buf
    BY DEF WithUnfiltered
  <2> HIDE DEF buf, str
  <2>5. str \in Seq(Alphabet)
    BY <1>2, <2>3, <2>4, ConcatProperties
  <2>6. CASE Received(w, str, n) > 0
    <3> DEFINE taken == Received(w, str, n)
    <3>1. FilterHelper(w, filter[w], str, taken, FALSE, << >>, NextEvent)
      BY <2>1, <2>6 DEF str
    <3>2. taken \in 0..Len(str)
      BY <1>1, <2>2, <2>3, <2>4, <2>6, ReceivedIsThere
    <3> HIDE DEF taken
    <3> QED
      BY <1>1, <2>5, <3>1, <3>2, RecvRunEffects
  <2>7. CASE ~(Received(w, str, n) > 0)
    <3>1. /\ NextEvent
          /\ UNCHANGED << filter, instruction, readSoFar, consumed, placeholders, nextTicket >>
      BY <2>1, <2>7 DEF str
    <3>2. Waits("client")' <=> Waits("client")
      BY <1>1, <3>1 DEF Waits, AtEvent, NextEvent
    <3> QED
      BY <1>1, <1>2, <3>1, <3>2 DEF Quiet, ClientAsIs, DequeAsIs, SaidAsIs, DequesAreThere
  <2> QED
    BY <2>6, <2>7
<1> QED
  BY <1>3, <1>4

LEMMA SendEffects ==
  ASSUME LoopInv, DequesAreThere, NEW w \in Conn, Sends(w)
  PROVE  (Ends \/ Quiet \/ SaysFront) /\ DequesAreThere'
PROOF
<1>0. \/ SendFront(w) \/ SendReset(w)
      \/ SendShort(w) \/ SendBlocks(w) \/ SendFails(w)
  BY DEF Sends
<1>1. /\ UNCHANGED << filter, instruction, readSoFar, consumed, nextTicket >>
      /\ nextTicket \in Nat
      /\ stage = "work" /\ stage' # "setup"
  BY <1>0 DEF SendFront, SendReset, SendShort, SendBlocks, SendFails, SendUnchanged,
     AtEvent, NextEvent, LoopInv, StreamInv, Typed
<1>2. ClientAsIs
  BY <1>1 DEF ClientAsIs, Waits
<1>3. CASE SendReset(w)
  BY <1>1, <1>2, <1>3 DEF SendReset, Quiet, DequeAsIs, SaidAsIs, DequesAreThere
<1>4. CASE SendFront(w)
  <2>1. /\ HasKnownWritesPending(placeholders[w])
        /\ bytesWrittenSoFar' = [bytesWrittenSoFar EXCEPT
                                   ![w] = bytesWrittenSoFar[w] \o Head(placeholders[w]).contents]
        /\ placeholders' = [placeholders EXCEPT ![w] = Tail(placeholders[w])]
    BY <1>4 DEF SendFront
  <2>2. DequesAreThere'
    BY <2>1 DEF DequesAreThere
  <2>3. CASE w = "server"
    BY <1>1, <1>2, <2>1, <2>2, <2>3 DEF SaysFront, FrontIsSaid, DequesAreThere, Conn
  <2>4. CASE w = "client"
    BY <1>1, <1>2, <2>1, <2>2, <2>4 DEF Quiet, DequeAsIs, SaidAsIs, DequesAreThere, Conn
  <2> QED
    BY <2>3, <2>4 DEF Conn
<1>5. CASE SendShort(w)
  <2>1. HasEnded'
    BY <1>5 DEF SendShort, HasEnded
  <2>2. /\ HasKnownWritesPending(placeholders[w])
        /\ UNCHANGED placeholders
        /\ bytesWrittenSoFar' = [bytesWrittenSoFar EXCEPT
             ![w] = bytesWrittenSoFar[w] \o Head(placeholders[w]).contents]
    BY <1>5 DEF SendShort
  <2>3. DequesAreThere'
    BY <2>2 DEF DequesAreThere
  <2>4. SaidAsIs \/ FrontIsSaid
    BY <2>2 DEF SaidAsIs, FrontIsSaid, DequesAreThere, Conn
  <2> QED
    BY <1>1, <2>1, <2>3, <2>4 DEF Ends
<1>6. CASE SendBlocks(w) \/ SendFails(w)
  <2>1. HasEnded' /\ UNCHANGED << placeholders, bytesWrittenSoFar >>
    BY <1>6 DEF SendBlocks, SendFails, HasEnded
  <2> QED
    BY <1>1, <2>1 DEF Ends, SaidAsIs, DequesAreThere
<1> QED
  BY <1>0, <1>3, <1>4, <1>5, <1>6

LEMMA LoopEffects ==
  ASSUME LoopInv, DequesAreThere, Loop,
         filter["client"].class # "Chunked", FirstOutputs(filter["client"]) = << >>
  PROVE  (Ends \/ Quiet \/ SaysFront \/ Begins \/ Runs) /\ DequesAreThere'
PROOF
<1>1. CASE Setup
  BY <1>1, SetupEffects
<1>2. ASSUME NEW w \in Conn, FilterBuffered(w)
      PROVE  (Ends \/ Quiet \/ Runs) /\ DequesAreThere'
  BY <1>2, FilterBufferedEffects
<1>3. CASE Decide \/ PollReady \/ PollTimeout \/ PollFails \/ \E w \in Conn : RecvFails(w)
  <2>1. UNCHANGED << filter, instruction, readSoFar, consumed, placeholders, nextTicket,
                     bytesWrittenSoFar >>
    BY <1>3 DEF Decide, PollReady, PollTimeout, PollFails, LoopUnchanged, RecvFails,
       RecvUnchanged, sockbufVars
  <2>2. stage # "setup" /\ stage' # "setup"
    BY <1>3 DEF Decide, PollReady, PollTimeout, PollFails, RecvFails, AtEvent, Leave,
       AtEnd, EndCheck
  <2>3. nextTicket \in Nat
    BY DEF LoopInv, StreamInv, Typed
  <2> QED
    BY <2>1, <2>2, <2>3 DEF Quiet, ClientAsIs, DequeAsIs, SaidAsIs, DequesAreThere, Waits
<1>4. ASSUME NEW w \in Conn, Sends(w)
      PROVE  (Ends \/ Quiet \/ SaysFront) /\ DequesAreThere'
  BY <1>4, SendEffects
<1>5. ASSUME NEW w \in Conn, RecvData(w) \/ RecvZero(w) \/ RecvReset(w)
      PROVE  (Ends \/ Quiet \/ Runs) /\ DequesAreThere'
  BY <1>5, RecvEffects
<1> QED
  BY <1>1, <1>2, <1>3, <1>4, <1>5 DEF Loop, Sends

-----------------------------------------------------------------------------
(* The steps of the loop, by what the client's filter does in the call.    *)

\* The server has been sent the text, or it waits; behind it there are k holes.
Tells(text, k) ==
  Story(bytesWrittenSoFar["server"], placeholders["server"], nextTicket, text, k)

\* A step of the loop, as far as no filter of the client runs.
LEMMA LoopStory ==
  ASSUME LoopInv, DequesAreThere, Loop,
         filter["client"].class # "Chunked", FirstOutputs(filter["client"]) = << >>,
         NEW text, NEW k, Tells(text, k)
  PROVE  /\ DequesAreThere'
         /\ \/ /\ HasEnded' /\ consumed'["client"] = consumed["client"]
               /\ \E phs, limit : Story(bytesWrittenSoFar'["server"], phs, limit, text, k)
            \/ (ClientAsIs \/ Begins) /\ Tells(text, k)'
            \/ Runs
PROOF
<1>1. (Ends \/ Quiet \/ SaysFront \/ Begins \/ Runs) /\ DequesAreThere'
  BY LoopEffects
<1>2. nextTicket \in Nat /\ "server" \in Conn
  BY DEF LoopInv, StreamInv, Typed, Conn
<1>3. Story(bytesWrittenSoFar["server"], placeholders["server"], nextTicket, text, k)
  BY DEF Tells
<1>4. CASE Ends
  <2>1. CASE SaidAsIs
    <3>1. Story(bytesWrittenSoFar'["server"], placeholders["server"], nextTicket, text, k)
      BY <1>3, <2>1 DEF SaidAsIs
    <3> QED
      BY <1>1, <1>4, <3>1 DEF Ends
  <2>2. CASE FrontIsSaid
    <3>1. Story(bytesWrittenSoFar'["server"], Tail(placeholders["server"]), nextTicket,
                text, k)
      BY <1>2, <1>3, <2>2, StorySends DEF FrontIsSaid
    <3> QED
      BY <1>1, <1>4, <3>1 DEF Ends
  <2> QED
    BY <1>4, <2>1, <2>2 DEF Ends
<1>5. CASE Quiet
  <2>1. Story(bytesWrittenSoFar["server"], placeholders["server"], nextTicket', text, k)
    BY <1>3, <1>5, StoryLater DEF Quiet, DequeAsIs
  <2>2. Tells(text, k)'
    BY <1>5, <2>1 DEF Tells, Quiet, DequeAsIs, SaidAsIs
  <2> QED
    BY <1>1, <1>5, <2>2 DEF Quiet
<1>6. CASE SaysFront
  <2>1. Story(bytesWrittenSoFar'["server"], Tail(placeholders["server"]), nextTicket, text, k)
    BY <1>2, <1>3, <1>6, StorySends DEF SaysFront, FrontIsSaid
  <2>2. Tells(text, k)'
    BY <1>6, <2>1 DEF Tells, SaysFront
  <2> QED
    BY <1>1, <1>6, <2>2 DEF SaysFront
<1>7. CASE Begins
  <2>1. FilterOutputs("server", << >>) /\ SaidAsIs
    BY <1>7 DEF Begins
  <2>2. Story(bytesWrittenSoFar["server"], placeholders'["server"], nextTicket', text, k)
    BY <1>2, <1>3, <2>1, StoryOutputs DEF DequesAreThere
  <2>3. Tells(text, k)'
    BY <2>1, <2>2 DEF Tells, SaidAsIs
  <2> QED
    BY <1>1, <1>7, <2>3
<1> QED
  BY <1>1, <1>4, <1>5, <1>6, <1>7

\* The outputs of the client's filter.
LEMMA RunTells ==
  ASSUME LoopInv, DequesAreThere, NEW text, NEW k, Tells(text, k),
         NEW outputs, FilterOutputs("server", outputs), SaidAsIs
  PROVE  /\ outputs = << >> => Tells(text, k)'
         /\ outputs = << Place >> => Tells(text, k + 1)'
         /\ outputs = << Place, Place, Place >> => Tells(text, k + 3)'
         /\ \A t \in Seq(Sent) : outputs = << String(t) >> /\ k = 0 => Tells(text \o t, 0)'
PROOF
<1> DEFINE said == bytesWrittenSoFar["server"]
           phs == placeholders'["server"]
           limit == nextTicket'
<1>1. nextTicket \in Nat /\ "server" \in Conn
  BY DEF LoopInv, StreamInv, Typed, Conn
<1>2. Story(said, placeholders["server"], nextTicket, text, k)
  BY DEF Tells
<1>3. bytesWrittenSoFar'["server"] = said
  BY DEF SaidAsIs
<1>4. \A t, j : Story(said, phs, limit, t, j) => Tells(t, j)'
  BY <1>3 DEF Tells
<1> HIDE DEF said
<1>5. /\ outputs = << >> => Story(said, phs, limit, text, k)
      /\ outputs = << Place >> => Story(said, phs, limit, text, k + 1)
      /\ outputs = << Place, Place, Place >> => Story(said, phs, limit, text, k + 3)
      /\ \A t \in Seq(Sent) : outputs = << String(t) >> /\ k = 0 =>
           Story(said, phs, limit, text \o t, 0)
  BY <1>1, <1>2, StoryOutputs DEF DequesAreThere
<1> HIDE DEF phs, limit
<1> QED
  BY <1>4, <1>5

\* A DeadFilter reads nothing.
LEMMA DeadLoop ==
  ASSUME LoopInv, DequesAreThere, Loop, filter["client"].class = "Dead",
         NEW text, NEW k, Tells(text, k), Plan(consumed["client"], text)
  PROVE  /\ DequesAreThere' /\ consumed'["client"] = consumed["client"]
         /\ Told(bytesWrittenSoFar'["server"], consumed'["client"])
         /\ ~HasEnded' => Tells(text, k)' /\ filter'["client"].class = "Dead"
PROOF
<1>1. FirstOutputs(filter["client"]) = << >>
  BY DEF FirstOutputs
<1>2. ~Runs
  <2> SUFFICES ASSUME Runs PROVE FALSE
    OBVIOUS
  <2>1. PICK ticket, bytes, soFar, disc :
          RunWrapper(filter["client"], bytes, soFar, disc, ticket).ended = "ok"
    BY DEF Runs, RunOn
  <2>2. RunFilter(filter["client"], bytes, soFar, disc, ticket)
          = Ended(filter["client"], "asserted")
    BY DEF RunFilter, RunDead
  <2>3. RunWrapper(filter["client"], bytes, soFar, disc, ticket)
          = Ended(filter["client"], "asserted")
    BY <2>2 DEF RunWrapper, Once
  <2> QED
    BY <2>1, <2>3, EndedGives
<1>3. /\ DequesAreThere'
      /\ \/ /\ HasEnded' /\ consumed'["client"] = consumed["client"]
            /\ \E phs, limit : Story(bytesWrittenSoFar'["server"], phs, limit, text, k)
         \/ (ClientAsIs \/ Begins) /\ Tells(text, k)'
  BY <1>1, <1>2, LoopStory
<1>4. CASE /\ HasEnded' /\ consumed'["client"] = consumed["client"]
           /\ \E phs, limit : Story(bytesWrittenSoFar'["server"], phs, limit, text, k)
  <2>1. Told(bytesWrittenSoFar'["server"], consumed["client"])
    BY <1>4, StoryTells
  <2> QED
    BY <1>3, <1>4, <2>1
<1>5. CASE (ClientAsIs \/ Begins) /\ Tells(text, k)'
  <2>1. consumed'["client"] = consumed["client"] /\ filter'["client"] = filter["client"]
    BY <1>5 DEF ClientAsIs, Begins
  <2>2. Told(bytesWrittenSoFar'["server"], consumed["client"])
    BY <1>5, StoryTells DEF Tells
  <2> QED
    BY <1>3, <1>5, <2>1, <2>2
<1> QED
  BY <1>3, <1>4, <1>5

\* The parts of what a run returns.
LEMMA PartsOfRun ==
  ASSUME NEW f, NEW inst, NEW outputs
  PROVE  /\ Ran(f, inst, outputs).filter = f /\ Ran(f, inst, outputs).outputs = outputs
         /\ Ran(f, inst, outputs).instruction = inst
BY DEF Ran

LEMMA TypesOfInstructions ==
  ASSUME NEW n
  PROVE  ThruDelimiter(n).type = "ThruDelimiter" /\ QuitFilter(n).type = "QuitFilter"
BY DEF ThruDelimiter, QuitFilter, Instruction

\* What a filter of a request line or of a header puts out, and when.
PlacesOf(class) == IF class = "RequestLine" THEN << Place >> ELSE << Place, Place, Place >>

PlaceClasses == {"RequestLine", "Header"}

GivesPlaces(ran, f) ==
  /\ ran.filter = f
  /\ \/ ran.instruction.type = "ThruDelimiter" /\ ran.outputs = << >>
     \/ ran.instruction.type = "QuitFilter" /\ ran.outputs = PlacesOf(f.class)

LEMMA LinePlaces ==
  ASSUME NEW f, f.class \in PlaceClasses, NEW bytes, NEW soFar, NEW ticket,
         RunWrapper(f, bytes, soFar, FALSE, ticket).ended = "ok"
  PROVE  GivesPlaces(RunWrapper(f, bytes, soFar, FALSE, ticket), f)
PROOF
<1>0. PICK ran \in {RunWrapper(f, bytes, soFar, FALSE, ticket)} : ran.ended = "ok"
  OBVIOUS
<1>1. ran = RunFilter(f, bytes, soFar, FALSE, ticket)
  <2>1. ran = RunFilter(f, bytes, soFar, FALSE, ticket) \/ ran = Ended(f, "asserted")
    BY <1>0 DEF RunWrapper, Once
  <2> QED
    BY <1>0, <2>1, EndedGives
<1>2. CASE f.class = "RequestLine"
  <2>1. ran = RunOneLine(f, bytes, FALSE)
    BY <1>1, <1>2 DEF RunFilter
  <2>2. \/ ran = Ran(f, ThruDelimiter(Len(bytes)), << >>)
        \/ ran = Ran(f, QuitFilter(Len(bytes)), PlacesOf(f.class))
        \/ ran = Ended(f, "thrown") \/ ran = Ended(f, "asserted") \/ ran = Ended(f, "looping")
    BY <1>2, <2>1 DEF RunOneLine, PlacesOf
  <2>3. \/ ran = Ran(f, ThruDelimiter(Len(bytes)), << >>)
        \/ ran = Ran(f, QuitFilter(Len(bytes)), PlacesOf(f.class))
    BY <1>0, <2>2, EndedGives
  <2>4. CASE ran = Ran(f, ThruDelimiter(Len(bytes)), << >>)
    <3>1. ran.filter = f /\ ran.outputs = << >> /\ ran.instruction = ThruDelimiter(Len(bytes))
      BY <2>4, PartsOfRun
    <3> QED
      BY <3>1, TypesOfInstructions DEF GivesPlaces
  <2>5. CASE ran = Ran(f, QuitFilter(Len(bytes)), PlacesOf(f.class))
    <3>1. /\ ran.filter = f /\ ran.outputs = PlacesOf(f.class)
          /\ ran.instruction = QuitFilter(Len(bytes))
      BY <2>5, PartsOfRun
    <3> QED
      BY <3>1, TypesOfInstructions DEF GivesPlaces
  <2> QED
    BY <2>3, <2>4, <2>5
<1>3. CASE f.class = "Header"
  <2>1. ran = RunHeader(f, bytes, FALSE)
    BY <1>1, <1>3 DEF RunFilter
  <2>2. \/ ran = Ran(f, ThruDelimiter(Len(bytes)), << >>)
        \/ ran = Ran(f, QuitFilter(2), PlacesOf(f.class))
        \/ ran = Ended(f, "thrown") \/ ran = Ended(f, "asserted")
    BY <1>3, <2>1 DEF RunHeader, PlacesOf
  <2>3. \/ ran = Ran(f, ThruDelimiter(Len(bytes)), << >>)
        \/ ran = Ran(f, QuitFilter(2), PlacesOf(f.class))
    BY <1>0, <2>2, EndedGives
  <2>4. CASE ran = Ran(f, ThruDelimiter(Len(bytes)), << >>)
    <3>1. ran.filter = f /\ ran.outputs = << >> /\ ran.instruction = ThruDelimiter(Len(bytes))
      BY <2>4, PartsOfRun
    <3> QED
      BY <3>1, TypesOfInstructions DEF GivesPlaces
  <2>5. CASE ran = Ran(f, QuitFilter(2), PlacesOf(f.class))
    <3>1. ran.filter = f /\ ran.outputs = PlacesOf(f.class) /\ ran.instruction = QuitFilter(2)
      BY <2>5, PartsOfRun
    <3> QED
      BY <3>1, TypesOfInstructions DEF GivesPlaces
  <2> QED
    BY <2>3, <2>4, <2>5
<1> QED
  BY <1>0, <1>2, <1>3 DEF PlaceClasses

\* The client's filter has quit.
HasRead == ~Waits("client") /\ instruction["client"].type = "QuitFilter"

\* A call that reads lines behind l: when they are all read there are as many
\* holes as `more', before that k.
Reads(class, l, k, more) ==
  /\ filter["client"].class = class
  /\ \E h \in Seq(Alphabet) : /\ consumed["client"] = l \o h
                              /\ readSoFar["client"] = Len(h)
  /\ Tells(<< >>, IF HasRead THEN more ELSE k)

LEMMA ReadsLoop ==
  ASSUME LoopInv, DequesAreThere, Loop, NEW l \in Seq(Alphabet), NEW class, NEW k, NEW more,
         \/ class = "RequestLine" /\ k = 0 /\ more = 1
         \/ class = "Header" /\ k = 1 /\ more = 4,
         Reads(class, l, k, more)
  PROVE  /\ DequesAreThere'
         /\ Told(bytesWrittenSoFar'["server"], consumed'["client"])
         /\ ~HasEnded' => Reads(class, l, k, more)'
PROOF
<1> DEFINE c == consumed["client"]
<1>0. PICK n : n = IF HasRead THEN more ELSE k
  OBVIOUS
<1>1. /\ filter["client"].class = class /\ Tells(<< >>, n)
      /\ class \in LineClasses /\ class \in PlaceClasses
  BY <1>0 DEF Reads, LineClasses, OneLineClasses, PlaceClasses
<1>2. PICK h \in Seq(Alphabet) : c = l \o h /\ readSoFar["client"] = Len(h)
  BY DEF Reads
<1>3. c \in Seq(Alphabet)
  BY DEF LoopInv, StreamInv, Typed, Conn
<1>4. FirstOutputs(filter["client"]) = << >>
      /\ FirstInstruction(filter["client"]).type = "ThruDelimiter"
  BY <1>1 DEF FirstOutputs, FirstInstruction, ThruDelimiter, Instruction
<1>5. /\ DequesAreThere'
      /\ \/ /\ HasEnded' /\ consumed'["client"] = c
            /\ \E phs, limit : Story(bytesWrittenSoFar'["server"], phs, limit, << >>, n)
         \/ (ClientAsIs \/ Begins) /\ Tells(<< >>, n)'
         \/ Runs
  BY <1>1, <1>4, LoopStory
<1>6. Plan(c, << >>)
  BY <1>3, Plans
<1>7. CASE /\ HasEnded' /\ consumed'["client"] = c
           /\ \E phs, limit : Story(bytesWrittenSoFar'["server"], phs, limit, << >>, n)
  <2>1. Told(bytesWrittenSoFar'["server"], c)
    BY <1>6, <1>7, StoryTells
  <2> QED
    BY <1>5, <1>7, <2>1
<1>8. CASE (ClientAsIs \/ Begins) /\ Tells(<< >>, n)'
  <2>1. /\ consumed'["client"] = c /\ filter'["client"] = filter["client"]
        /\ readSoFar'["client"] = readSoFar["client"]
    BY <1>8 DEF ClientAsIs, Begins
  <2>2. HasRead' <=> HasRead
    <3>1. CASE ClientAsIs
      BY <3>1 DEF ClientAsIs, HasRead
    <3>2. CASE Begins
      BY <1>4, <3>2 DEF Begins, HasRead
    <3> QED
      BY <1>8, <3>1, <3>2
  <2>3. Reads(class, l, k, more)'
    BY <1>0, <1>1, <1>2, <1>8, <2>1, <2>2 DEF Reads
  <2>4. Told(bytesWrittenSoFar'["server"], c)
    BY <1>6, <1>8, StoryTells DEF Tells
  <2> QED
    BY <1>5, <2>1, <2>3, <2>4
<1>9. CASE Runs
  <2>1. PICK ticket : \E bytes \in Seq(Alphabet), disc \in BOOLEAN : RunOn(bytes, disc, ticket)
    BY <1>9 DEF Runs
  <2>2. PICK bytes \in Seq(Alphabet), disc \in BOOLEAN : RunOn(bytes, disc, ticket)
    BY <2>1
  <2> DEFINE ran == RunWrapper(filter["client"], bytes, readSoFar["client"] + Len(bytes),
                               disc, ticket)
  <2>3. ran.ended = "ok" /\ FilterOutputs("server", ran.outputs) /\ SaidAsIs
    BY <2>2 DEF RunOn
  <2>4. ~disc
    BY <1>1, <2>3, DisconnectedLines
  <2>5. ~HasRead /\ n = k
    BY <1>0, <2>2, <2>4 DEF HasRead, RunOn
  <2>6. ran \in {RunWrapper(filter["client"], bytes, readSoFar["client"] + Len(bytes),
                            FALSE, ticket)}
    BY <2>4
  <2>7. /\ consumed'["client"] = c \o bytes
        /\ readSoFar'["client"] = readSoFar["client"] + Len(bytes)
        /\ filter'["client"] = ran.filter /\ instruction'["client"] = ran.instruction
        /\ ~Waits("client")'
    BY <2>2 DEF RunOn
  <2> HIDE DEF ran
  <2>8. /\ ran.filter = filter["client"]
        /\ \/ ran.instruction.type = "ThruDelimiter" /\ ran.outputs = << >>
           \/ ran.instruction.type = "QuitFilter" /\ ran.outputs = PlacesOf(class)
    <3>1. PICK f, soFar, r : /\ f = filter["client"]
                             /\ soFar = readSoFar["client"] + Len(bytes)
                             /\ r = ran
      OBVIOUS
    <3>2. f.class \in PlaceClasses /\ r.ended = "ok"
      BY <1>1, <2>3, <3>1
    <3>3. r = RunWrapper(f, bytes, soFar, FALSE, ticket)
      BY <2>6, <3>1
    <3>4. RunWrapper(f, bytes, soFar, FALSE, ticket).ended = "ok"
      BY <3>2, <3>3
    <3>5. GivesPlaces(RunWrapper(f, bytes, soFar, FALSE, ticket), f)
      BY <3>2, <3>4, LinePlaces
    <3> QED
      BY <1>1, <3>1, <3>3, <3>5 DEF GivesPlaces
  <2>9. (Tells(<< >>, IF HasRead THEN more ELSE k))'
    <3>1. /\ ran.outputs = << >> => Tells(<< >>, k)'
          /\ ran.outputs = << Place >> => Tells(<< >>, k + 1)'
          /\ ran.outputs = << Place, Place, Place >> => Tells(<< >>, k + 3)'
      BY <1>1, <2>3, <2>5, RunTells
    <3>2. HasRead' <=> ran.instruction.type = "QuitFilter"
      BY <2>7 DEF HasRead
    <3>3. CASE ran.instruction.type = "ThruDelimiter" /\ ran.outputs = << >>
      BY <3>1, <3>2, <3>3
    <3>4. CASE /\ ran.instruction.type = "QuitFilter"
               /\ ran.outputs = PlacesOf(class)
      <4>1. class = "RequestLine" => k + 1 = more
        OBVIOUS
      <4>2. class # "RequestLine" => k + 3 = more
        OBVIOUS
      <4> QED
        BY <3>1, <3>2, <3>4, <4>1, <4>2 DEF PlacesOf
    <3> QED
      BY <2>8, <3>3, <3>4
  <2>10. \E g \in Seq(Alphabet) : /\ consumed'["client"] = l \o g
                                  /\ readSoFar'["client"] = Len(g)
    <3>1. h \o bytes \in Seq(Alphabet) /\ Len(h \o bytes) = Len(h) + Len(bytes)
          /\ l \o h \o bytes = l \o (h \o bytes)
      BY ConcatProperties, Regrouped
    <3> QED
      BY <1>2, <2>7, <3>1
  <2>11. Reads(class, l, k, more)'
    BY <1>1, <2>7, <2>8, <2>9, <2>10 DEF Reads
  <2>12. Told(bytesWrittenSoFar'["server"], consumed'["client"])
    <3>1. c \o bytes \in Seq(Alphabet)
      BY <1>3, ConcatProperties
    <3>2. Plan(consumed'["client"], << >>)
      BY <2>7, <3>1, Plans
    <3>3. \E phs, limit, j : Story(bytesWrittenSoFar'["server"], phs, limit, << >>, j)
      BY <2>9 DEF Tells
    <3> QED
      BY <3>2, <3>3, StoryTells
  <2> QED
    BY <1>5, <2>11, <2>12
<1> QED
  BY <1>5, <1>7, <1>8, <1>9

\* What a PassthruFilter puts out behind its first instruction.
Passes(ran, bytes) ==
  ran.outputs = << String(bytes) >> /\ \E size : ran.filter = PassthruFilter(size, << >>)

LEMMA PassthruPuts ==
  ASSUME NEW total, NEW bytes, NEW soFar, NEW disc \in BOOLEAN, NEW ticket,
         RunWrapper(PassthruFilter(total, << >>), bytes, soFar, disc, ticket).ended = "ok"
  PROVE  Passes(RunWrapper(PassthruFilter(total, << >>), bytes, soFar, disc, ticket), bytes)
PROOF
<1> DEFINE f == PassthruFilter(total, << >>)
           size == IF disc /\ ~IsKnown(total) THEN soFar ELSE total
           inst == SubInstruction(size, soFar, Len(bytes))
<1>1. PICK ran \in {RunWrapper(f, bytes, soFar, disc, ticket)} : ran.ended = "ok"
  OBVIOUS
<1>2. f.class = "Passthru" /\ f.totalSize = total
      /\ [f EXCEPT !.totalSize = size] = PassthruFilter(size, << >>)
  BY DEF PassthruFilter, Filter
<1> HIDE DEF f
<1>3. ran = RunFilter(f, bytes, soFar, disc, ticket)
  <2>1. ran = RunFilter(f, bytes, soFar, disc, ticket) \/ ran = Ended(f, "asserted")
    BY <1>1 DEF RunWrapper, Once
  <2> QED
    BY <1>1, <2>1, EndedGives
<1>4. ran = RunThrough(f, bytes, soFar, disc)
  BY <1>2, <1>3 DEF RunFilter
<1>5. \/ ran = Ran([f EXCEPT !.totalSize = size], inst, << String(bytes) >>)
      \/ ran = Ended(f, "thrown") \/ ran = Ended(f, "asserted")
  BY <1>2, <1>4 DEF RunThrough, LetThrough, MustBeShort
<1> HIDE DEF inst, size
<1>6. ran = Ran([f EXCEPT !.totalSize = size], inst, << String(bytes) >>)
  BY <1>1, <1>5, EndedGives
<1>7. /\ ran.outputs = << String(bytes) >>
      /\ ran.filter = PassthruFilter(size, << >>)
  BY <1>2, <1>6, PartsOfRun
<1>8. Passes(ran, bytes)
  BY <1>7 DEF Passes
<1> QED
  BY <1>1, <1>8 DEF f

\* What a sequence has in it, it has in it when more comes.
LEMMA StillIn ==
  ASSUME NEW S, NEW s \in Seq(S), NEW t \in Seq(S), NEW symbols, IsIn(s, symbols)
  PROVE  IsIn(s \o t, symbols)
PROOF
<1>1. PICK k \in DOMAIN s : s[k] \in symbols
  BY DEF IsIn
<1>2. k \in 1..Len(s) /\ Len(s) \in Nat /\ Len(t) \in Nat
  BY LenProperties
<1>3. k \in DOMAIN (s \o t) /\ (s \o t)[k] = s[k]
  BY <1>2, ConcatProperties, LenProperties
<1> QED
  BY <1>1, <1>3 DEF IsIn

\* The tunnel: what was read behind the header is in the deque or was sent.
Tunnels ==
  /\ \E total : filter["client"] = PassthruFilter(total, << >>)
  /\ IsConnect
  /\ \E h, t \in Seq(Alphabet) : /\ consumed["client"] = h \o t
                                 /\ WholeHeader(h)
                                 /\ Tells(t, 0)

LEMMA TunnelLoop ==
  ASSUME LoopInv, DequesAreThere, Loop, Tunnels
  PROVE  /\ DequesAreThere'
         /\ Told(bytesWrittenSoFar'["server"], consumed'["client"])
         /\ ~HasEnded' => Tunnels'
PROOF
<1> DEFINE c == consumed["client"]
<1>1. PICK total : filter["client"] = PassthruFilter(total, << >>)
  BY DEF Tunnels
<1>2. PICK h \in Seq(Alphabet), t \in Seq(Alphabet) :
        c = h \o t /\ WholeHeader(h) /\ Tells(t, 0)
  BY DEF Tunnels
<1>3. c \in Seq(Alphabet) /\ IsIn(c, {"CONNECT"})
  BY DEF LoopInv, StreamInv, Typed, Conn, Tunnels, IsConnect
<1>4. filter["client"].class = "Passthru" /\ FirstOutputs(filter["client"]) = << >>
  BY <1>1 DEF FirstOutputs, PassthruFilter, Filter
<1>5. /\ DequesAreThere'
      /\ \/ /\ HasEnded' /\ consumed'["client"] = c
            /\ \E phs, limit : Story(bytesWrittenSoFar'["server"], phs, limit, t, 0)
         \/ (ClientAsIs \/ Begins) /\ Tells(t, 0)'
         \/ Runs
  BY <1>2, <1>4, LoopStory
<1>6. Plan(c, t)
  BY <1>2, <1>3, Plans
<1>7. CASE /\ HasEnded' /\ consumed'["client"] = c
           /\ \E phs, limit : Story(bytesWrittenSoFar'["server"], phs, limit, t, 0)
  <2>1. Told(bytesWrittenSoFar'["server"], c)
    BY <1>6, <1>7, StoryTells
  <2> QED
    BY <1>5, <1>7, <2>1
<1>8. CASE (ClientAsIs \/ Begins) /\ Tells(t, 0)'
  <2>1. consumed'["client"] = c /\ filter'["client"] = filter["client"]
    BY <1>8 DEF ClientAsIs, Begins
  <2>2. Tunnels'
    BY <1>1, <1>2, <1>3, <1>8, <2>1 DEF Tunnels, IsConnect
  <2>3. Told(bytesWrittenSoFar'["server"], c)
    BY <1>6, <1>8, StoryTells DEF Tells
  <2> QED
    BY <1>5, <2>1, <2>2, <2>3
<1>9. CASE Runs
  <2>1. PICK ticket : \E bytes \in Seq(Alphabet), disc \in BOOLEAN : RunOn(bytes, disc, ticket)
    BY <1>9 DEF Runs
  <2>2. PICK bytes \in Seq(Alphabet), disc \in BOOLEAN : RunOn(bytes, disc, ticket)
    BY <2>1
  <2> DEFINE soFar == readSoFar["client"] + Len(bytes)
             ran == RunWrapper(PassthruFilter(total, << >>), bytes, soFar, disc, ticket)
  <2>3. /\ ran.ended = "ok" /\ FilterOutputs("server", ran.outputs) /\ SaidAsIs
        /\ consumed'["client"] = c \o bytes /\ filter'["client"] = ran.filter
    BY <1>1, <2>2 DEF RunOn
  <2>4. Passes(ran, bytes)
    <3> HIDE DEF soFar
    <3>1. RunWrapper(PassthruFilter(total, << >>), bytes, soFar, disc, ticket).ended = "ok"
      BY <2>3
    <3> QED
      BY <3>1, PassthruPuts
  <2> HIDE DEF ran, soFar
  <2>5. bytes \in Seq(Sent)
    BY TextsAreSent
  <2>6. FilterOutputs("server", << String(bytes) >>)
    BY <2>3, <2>4 DEF Passes
  <2>7. Tells(t \o bytes, 0)'
    BY <1>2, <2>3, <2>5, <2>6, RunTells
  <2>8. t \o bytes \in Seq(Alphabet) /\ c \o bytes = h \o (t \o bytes)
        /\ c \o bytes \in Seq(Alphabet)
    <3>1. t \o bytes \in Seq(Alphabet) /\ h \o t \o bytes = h \o (t \o bytes)
          /\ h \o (t \o bytes) \in Seq(Alphabet)
      BY ConcatProperties, Regrouped
    <3> QED
      BY <1>2, <3>1
  <2>9. IsIn(c \o bytes, {"CONNECT"})
    BY <1>3, StillIn
  <2>10. Tunnels'
    BY <1>2, <2>3, <2>4, <2>7, <2>8, <2>9 DEF Tunnels, IsConnect, Passes
  <2>11. Plan(c \o bytes, t \o bytes)
    BY <1>2, <2>8, <2>9, Plans
  <2>12. Told(bytesWrittenSoFar'["server"], c \o bytes)
    BY <2>7, <2>11, StoryTells DEF Tells
  <2> QED
    BY <1>5, <2>3, <2>10, <2>12
<1> QED
  BY <1>5, <1>7, <1>8, <1>9

-----------------------------------------------------------------------------
(* What the phases leave for the next.                                     *)

\* The client's filter has nothing to read in this call, or the call is over.
Rests == stage = "idle" \/ filter["client"].class = "Dead"

RequestIsNext ==
  /\ phase = "request" /\ stage = "idle"
  /\ consumed["client"] = << >> /\ Tells(<< >>, 0)
RequestIsRead == phase = "requestRead" /\ Reads("RequestLine", << >>, 0, 1)
HeaderIsNext ==
  /\ phase = "header" /\ stage = "idle"
  /\ OneLine(consumed["client"]) /\ Tells(<< >>, 1)
HeaderIsRead ==
  /\ phase = "connect"
  /\ \E l \in Seq(Alphabet) : OneLine(l) /\ Reads("Header", l, 1, 4)

\* A header that a timeout has cut off has no places yet.
FulfilIsNext ==
  /\ phase \in {"consume", "fulfillRequest"} /\ stage = "idle"
  /\ phase = "consume" <=> IsConnect
  /\ \/ WholeHeader(consumed["client"]) /\ Tells(<< >>, 4)
     \/ Tells(<< >>, 1)
LineIsSent ==
  /\ phase \in {"sendRequest", "fulfillHeader"} /\ Rests
  /\ ~IsConnect
  /\ \/ WholeHeader(consumed["client"]) /\ Tells(RequestText, 3)
     \/ Tells(RequestText, 0)
HeaderIsSent ==
  /\ phase \in {"sendHeader", "response", "responseHeader", "headerRead",
                "fulfillResponseHeader", "body", "flushClient", "flushServer", "checkpoint"}
  /\ Rests
  /\ ~IsConnect
  /\ WholeHeader(consumed["client"]) /\ Tells(Rewritten(consumed["client"]), 0)

TunnelIsNext ==
  /\ phase = "tunnel" /\ stage = "idle"
  /\ IsConnect
  /\ WholeHeader(consumed["client"]) /\ Tells(<< >>, 0)
TunnelIsOpen == phase = "checkpoint" /\ Tunnels
IsOver == phase \in {"handled", "failed", "deleted"} /\ stage = "idle"

Chapter ==
  \/ RequestIsNext \/ RequestIsRead \/ HeaderIsNext \/ HeaderIsRead
  \/ FulfilIsNext \/ LineIsSent \/ HeaderIsSent
  \/ TunnelIsNext \/ TunnelIsOpen \/ IsOver

ChapterInv == ~HasEnded => Chapter
IsTold == Told(bytesWrittenSoFar["server"], consumed["client"])

\* There is no step of the loop between two calls.
LEMMA LoopIsNotIdle ==
  ASSUME Loop PROVE stage # "idle"
BY DEF Loop, Setup, FilterBuffered, Decide, PollReady, PollTimeout, PollFails, SendFront,
   SendReset, SendShort, SendBlocks, SendFails, RecvData, RecvZero, RecvReset, RecvFails, AtEvent

\* A step of the loop while the client's filter is a DeadFilter.
LEMMA RestLoop ==
  ASSUME LoopInv, DequesAreThere, Loop, Rests, UNCHANGED phase,
         NEW text, NEW k, Tells(text, k), Plan(consumed["client"], text)
  PROVE  /\ DequesAreThere' /\ IsTold' /\ consumed'["client"] = consumed["client"]
         /\ ~HasEnded' => Tells(text, k)' /\ Rests'
PROOF
<1>1. filter["client"].class = "Dead"
  BY LoopIsNotIdle DEF Rests
<1> QED
  BY <1>1, DeadLoop DEF Rests, IsTold

LEMMA LoopChapter ==
  ASSUME LoopInv, DequesAreThere, Loop, UNCHANGED phase, ChapterInv
  PROVE  DequesAreThere' /\ IsTold' /\ ChapterInv'
PROOF
<1> DEFINE c == consumed["client"]
<1>1. stage # "idle" /\ Chapter /\ c \in Seq(Alphabet)
  <2>1. stage # "idle"
    BY LoopIsNotIdle
  <2>2. ~HasEnded
    BY DEF Loop, Setup, FilterBuffered, Decide, PollReady, PollTimeout, PollFails, SendFront,
       SendReset, SendShort, SendBlocks, SendFails, RecvData, RecvZero, RecvReset, RecvFails, AtEvent, HasEnded
  <2>3. c \in Seq(Alphabet)
    BY DEF LoopInv, StreamInv, Typed, Conn
  <2> QED
    BY <2>1, <2>2, <2>3 DEF ChapterInv
<1>2. CASE RequestIsRead
  <2>1. << >> \in Seq(Alphabet)
    BY EmptySeq
  <2>2. /\ DequesAreThere'
        /\ Told(bytesWrittenSoFar'["server"], consumed'["client"])
        /\ ~HasEnded' => Reads("RequestLine", << >>, 0, 1)'
    BY <1>2, <2>1, ReadsLoop DEF RequestIsRead
  <2> QED
    BY <1>2, <2>2 DEF RequestIsRead, IsTold, ChapterInv, Chapter
<1>3. CASE HeaderIsRead
  <2>1. PICK l \in Seq(Alphabet) : OneLine(l) /\ Reads("Header", l, 1, 4)
    BY <1>3 DEF HeaderIsRead
  <2>2. /\ DequesAreThere'
        /\ Told(bytesWrittenSoFar'["server"], consumed'["client"])
        /\ ~HasEnded' => Reads("Header", l, 1, 4)'
    BY <2>1, ReadsLoop
  <2> QED
    BY <1>3, <2>1, <2>2 DEF HeaderIsRead, IsTold, ChapterInv, Chapter
<1>4. CASE LineIsSent
  <2>1. Plan(c, RequestText) /\ ~IsIn(c, {"CONNECT"})
    BY <1>1, <1>4, Plans DEF LineIsSent, IsConnect
  <2>2. Rests /\ phase \in {"sendRequest", "fulfillHeader"} /\ ~IsIn(c, {"CONNECT"})
    BY <1>4 DEF LineIsSent, IsConnect
  <2>3. PICK k : Tells(RequestText, k) /\ ((WholeHeader(c) /\ k = 3) \/ k = 0)
    BY <1>4 DEF LineIsSent
  <2>4. /\ DequesAreThere' /\ IsTold' /\ consumed'["client"] = c
        /\ ~HasEnded' => Tells(RequestText, k)' /\ Rests'
    BY <2>1, <2>2, <2>3, RestLoop
  <2>5. ~HasEnded' => LineIsSent'
    BY <2>2, <2>3, <2>4 DEF LineIsSent, IsConnect
  <2> QED
    BY <2>4, <2>5 DEF ChapterInv, Chapter
<1>5. CASE HeaderIsSent
  <2>1. Plan(c, Rewritten(c))
    BY <1>1, <1>5, Plans DEF HeaderIsSent, IsConnect
  <2>2. PICK text : text = Rewritten(c)
    OBVIOUS
  <2>3. Tells(text, 0)
    BY <1>5, <2>2 DEF HeaderIsSent
  <2>4. /\ DequesAreThere' /\ IsTold' /\ consumed'["client"] = c
        /\ ~HasEnded' => Tells(text, 0)' /\ Rests'
    BY <1>5, <2>1, <2>2, <2>3, RestLoop DEF HeaderIsSent
  <2>5. ~HasEnded' => HeaderIsSent'
    BY <1>5, <2>2, <2>4 DEF HeaderIsSent, IsConnect
  <2> QED
    BY <2>4, <2>5 DEF ChapterInv, Chapter
<1>6. CASE TunnelIsOpen
  BY <1>6, TunnelLoop DEF TunnelIsOpen, IsTold, ChapterInv, Chapter
<1> QED
  BY <1>1, <1>2, <1>3, <1>4, <1>5, <1>6 DEF Chapter, RequestIsNext, HeaderIsNext,
     FulfilIsNext, TunnelIsNext, IsOver

-----------------------------------------------------------------------------
(* The calls of the loop.                                                  *)

\* The filters a call may be given.
LEMMA CallersFilters ==
  /\ IsFilter(DeadFilter) /\ IsFilter(RequestLineFilter) /\ IsFilter(ResponseLineFilter)
  /\ IsFilter(HeaderFilter) /\ \A text : IsFilter(PassthruFilter(UNKNOWN, text))
  /\ \A n \in Nat \union {UNKNOWN} : IsFilter(PcreDataFilter(n))
  /\ \A n, garbage : IsFilter(ChunkedFilter(n, garbage))
BY DEF IsFilter, Classes, DeadFilter, RequestLineFilter, ResponseLineFilter, HeaderFilter,
   PassthruFilter, PcreDataFilter, ChunkedFilter, Filter, NextChunkState

\* The last Content-Length that is known.
LEMMA LengthIsKnown ==
  ASSUME NEW s \in Seq(Alphabet)
  PROVE  ContentLength(s) \in Nat \union {UNKNOWN}
PROOF
<1> DEFINE at == { k \in DOMAIN s : s[k] \in DOMAIN Lengths }
           n == Len(s)
<1>1. DOMAIN s = 1..n /\ n \in Nat
  BY LenProperties
<1>2. CASE at = {}
  BY <1>2 DEF ContentLength
<1>3. CASE at # {}
  <2>1. \E k \in at : \A j \in at : j <= k
    <3> DEFINE T == { n - k : k \in at }
    <3>1. \A k \in at : k \in 1..n
      BY <1>1
    <3> HIDE DEF at, n
    <3>2. T \subseteq Nat /\ T # {}
      BY <1>1, <1>3, <3>1
    <3>3. PICK x \in T : \A y \in T : x <= y
      BY <3>2, Minimum
    <3>4. PICK k \in at : x = n - k
      BY <3>3
    <3>5. \A j \in at : j <= k
      <4> SUFFICES ASSUME NEW j \in at PROVE j <= k
        OBVIOUS
      <4>1. n - j \in T
        OBVIOUS
      <4>2. n - k <= n - j /\ k \in 1..n /\ j \in 1..n
        BY <3>1, <3>3, <3>4, <4>1
      <4> QED
        BY <1>1, <4>2
    <3> QED
      BY <3>5
  <2> DEFINE last == CHOOSE k \in at : \A j \in at : j <= k
  <2>2. last \in at
    BY <2>1
  <2>3. ContentLength(s) = Lengths[s[last]]
    BY <1>3 DEF ContentLength
  <2>4. s[last] \in DOMAIN Lengths
    BY <2>2
  <2> HIDE DEF last
  <2>5. \A x \in DOMAIN Lengths : Lengths[x] \in Nat
    BY DEF Lengths
  <2> QED
    BY <2>3, <2>4, <2>5
<1> QED
  BY <1>2, <1>3

\* What a call leaves as it is, and what it begins with.
LEMMA CallBegins ==
  ASSUME LoopInv, DequesAreThere, NEW from, NEW filters, NEW to, Call(from, filters, to),
         DOMAIN filters = Conn, \A w \in Conn : IsFilter(filters[w])
  PROVE  /\ LoopInv' /\ LinesInv' /\ DequesAreThere'
         /\ phase = from /\ phase' = to /\ stage = "idle" /\ ~HasEnded'
         /\ consumed' = consumed /\ bytesWrittenSoFar' = bytesWrittenSoFar
         /\ filter' = filters /\ readSoFar'["client"] = 0 /\ ~HasRead'
         /\ \A text, k : Tells(text, k) => Tells(text, k)'
PROOF
<1>1. StartCall(filters) /\ phase = from /\ phase' = to
  BY DEF Call
<1>2. LoopInv' /\ LinesInv'
  BY <1>1, StartKeeps
<1>3. /\ UNCHANGED << placeholders, bytesWrittenSoFar, consumed, nextTicket >>
      /\ filter' = filters /\ readSoFar' = [w \in Conn |-> 0]
      /\ stage = "idle" /\ stage' = "setup" /\ todo' = << "client", "server" >>
  BY <1>1 DEF StartCall, sockbufVars, Directions
<1>4. \A text, k : Tells(text, k) => Tells(text, k)'
  BY <1>3 DEF Tells
<1> QED
  BY <1>1, <1>2, <1>3, <1>4 DEF DequesAreThere, HasRead, Waits, HasEnded, Conn

\* The calls that read the request, and the tunnel.
LEMMA ReadCalls ==
  ASSUME LoopInv, DequesAreThere, IsTold, Chapter,
         ReadRequestLine \/ ReadHeader \/ Tunnel
  PROVE  LoopInv' /\ LinesInv' /\ DequesAreThere' /\ IsTold' /\ Chapter'
PROOF
<1> DEFINE c == consumed["client"]
<1>1. c \in Seq(Alphabet) /\ << >> \in Seq(Alphabet) /\ Len(<< >>) = 0
      /\ c \o << >> = c
  <2>1. c \in Seq(Alphabet)
    BY DEF LoopInv, StreamInv, Typed, Conn
  <2> QED
    BY <2>1, EmptySeq, ConcatEmptySeq
<1>2. \A a, b : /\ Filtered(a, b).client = a /\ DOMAIN Filtered(a, b) = Conn
                /\ IsFilter(a) /\ IsFilter(b) => \A w \in Conn : IsFilter(Filtered(a, b)[w])
  BY DEF Filtered, Conn
<1>3. CASE ReadRequestLine
  <2> DEFINE fs == Filtered(RequestLineFilter, DeadFilter)
  <2>1. DOMAIN fs = Conn /\ (\A w \in Conn : IsFilter(fs[w])) /\ fs["client"] = RequestLineFilter
    BY <1>2, CallersFilters DEF Filtered
  <2> HIDE DEF fs
  <2>2. Call("request", fs, "requestRead")
    BY <1>3 DEF ReadRequestLine, fs
  <2>3. RequestIsNext
    BY <2>2 DEF Call, Chapter, RequestIsNext, RequestIsRead, HeaderIsNext, HeaderIsRead,
       FulfilIsNext, LineIsSent, HeaderIsSent, TunnelIsNext, TunnelIsOpen, IsOver
  <2>4. /\ LoopInv' /\ LinesInv' /\ DequesAreThere' /\ phase' = "requestRead"
        /\ consumed' = consumed /\ bytesWrittenSoFar' = bytesWrittenSoFar
        /\ filter' = fs /\ readSoFar'["client"] = 0 /\ ~HasRead'
        /\ \A text, k : Tells(text, k) => Tells(text, k)'
    BY <2>1, <2>2, CallBegins
  <2>5. Reads("RequestLine", << >>, 0, 1)'
    <3>1. c = << >> /\ Tells(<< >>, 0)
      BY <2>3 DEF RequestIsNext
    <3>2. filter'["client"].class = "RequestLine"
      BY <2>1, <2>4 DEF RequestLineFilter, Filter
    <3>3. Tells(<< >>, 0)' /\ << >> \o << >> = << >>
      BY <1>1, <2>4, <3>1
    <3> QED
      BY <1>1, <2>4, <3>1, <3>2, <3>3 DEF Reads
  <2> QED
    BY <2>4, <2>5 DEF IsTold, Chapter, RequestIsRead
<1>4. CASE ReadHeader
  <2> DEFINE fs == Filtered(HeaderFilter, DeadFilter)
  <2>1. DOMAIN fs = Conn /\ (\A w \in Conn : IsFilter(fs[w])) /\ fs["client"] = HeaderFilter
    BY <1>2, CallersFilters DEF Filtered
  <2> HIDE DEF fs
  <2>2. Call("header", fs, "connect")
    BY <1>4 DEF ReadHeader, fs
  <2>3. HeaderIsNext
    BY <2>2 DEF Call, Chapter, RequestIsNext, RequestIsRead, HeaderIsNext, HeaderIsRead,
       FulfilIsNext, LineIsSent, HeaderIsSent, TunnelIsNext, TunnelIsOpen, IsOver
  <2>4. /\ LoopInv' /\ LinesInv' /\ DequesAreThere' /\ phase' = "connect"
        /\ consumed' = consumed /\ bytesWrittenSoFar' = bytesWrittenSoFar
        /\ filter' = fs /\ readSoFar'["client"] = 0 /\ ~HasRead'
        /\ \A text, k : Tells(text, k) => Tells(text, k)'
    BY <2>1, <2>2, CallBegins
  <2>5. \E l \in Seq(Alphabet) : OneLine(l) /\ Reads("Header", l, 1, 4)'
    <3>1. OneLine(c) /\ Tells(<< >>, 1)
      BY <2>3 DEF HeaderIsNext
    <3>2. filter'["client"].class = "Header"
      BY <2>1, <2>4 DEF HeaderFilter, Filter
    <3>3. Tells(<< >>, 1)'
      BY <2>4, <3>1
    <3>4. PICK l \in Seq(Alphabet) : l = c
      BY <1>1
    <3>5. Reads("Header", l, 1, 4)'
      BY <1>1, <2>4, <3>2, <3>3, <3>4 DEF Reads
    <3> QED
      BY <3>1, <3>5, <3>4
  <2> QED
    BY <1>1, <2>4, <2>5 DEF IsTold, Chapter, HeaderIsRead
<1>5. CASE Tunnel
  <2> DEFINE fs == Filtered(PassthruFilter(UNKNOWN, << >>),
                            PassthruFilter(UNKNOWN, EstablishedText))
  <2>1. DOMAIN fs = Conn /\ (\A w \in Conn : IsFilter(fs[w]))
        /\ fs["client"] = PassthruFilter(UNKNOWN, << >>)
    BY <1>2, CallersFilters DEF Filtered
  <2> HIDE DEF fs
  <2>2. Call("tunnel", fs, "checkpoint")
    BY <1>5 DEF Tunnel, fs
  <2>3. TunnelIsNext
    BY <2>2 DEF Call, Chapter, RequestIsNext, RequestIsRead, HeaderIsNext, HeaderIsRead,
       FulfilIsNext, LineIsSent, HeaderIsSent, TunnelIsNext, TunnelIsOpen, IsOver
  <2>4. /\ LoopInv' /\ LinesInv' /\ DequesAreThere' /\ phase' = "checkpoint"
        /\ consumed' = consumed /\ bytesWrittenSoFar' = bytesWrittenSoFar
        /\ filter' = fs
        /\ \A text, k : Tells(text, k) => Tells(text, k)'
    BY <2>1, <2>2, CallBegins
  <2>5. Tunnels'
    <3>1. Tells(<< >>, 0)' /\ WholeHeader(c)
      BY <2>3, <2>4 DEF TunnelIsNext
    <3> QED
      BY <1>1, <2>1, <2>3, <2>4, <3>1 DEF Tunnels, TunnelIsNext, IsConnect
  <2> QED
    BY <2>4, <2>5 DEF IsTold, Chapter, TunnelIsOpen
<1> QED
  BY <1>3, <1>4, <1>5

\* The calls behind the request; the client's filter is a DeadFilter.
OtherCalls ==
  \/ SendRequest \/ SendHeader \/ ReadResponseLine \/ ReadResponseHeader
  \/ FlushBeforeBody \/ FinishWithoutBody \/ ReadBody \/ FlushClient \/ FlushServer

LEMMA OtherCallsAreCalls ==
  ASSUME LoopInv, OtherCalls
  PROVE  \E f : /\ IsFilter(f)
                /\ \/ Call("sendRequest", Filtered(DeadFilter, f), "fulfillHeader")
                   \/ Call("sendHeader", Filtered(DeadFilter, f), "response")
                   \/ Call("response", Filtered(DeadFilter, f), "responseHeader")
                   \/ Call("responseHeader", Filtered(DeadFilter, f), "headerRead")
                   \/ Call("headerRead", Filtered(DeadFilter, f), "fulfillResponseHeader")
                   \/ Call("body", Filtered(DeadFilter, f), "checkpoint")
                   \/ Call("body", Filtered(DeadFilter, f), "flushClient")
                   \/ Call("flushClient", Filtered(DeadFilter, f), "flushServer")
                   \/ Call("flushServer", Filtered(DeadFilter, f), "checkpoint")
PROOF
<1>1. CASE ReadBody
  <2>1. PICK f \in BodyFilters : Call("body", Filtered(DeadFilter, f), "flushClient")
    BY <1>1 DEF ReadBody
  <2>2. ContentLength(consumed["server"]) \in Nat \union {UNKNOWN}
    BY LengthIsKnown DEF LoopInv, StreamInv, Typed, Conn
  <2>3. IsFilter(f)
    BY <2>2, CallersFilters DEF BodyFilters
  <2> QED
    BY <2>1, <2>3
<1>2. CASE ReadResponseLine
  BY <1>2, CallersFilters DEF ReadResponseLine
<1>3. CASE ReadResponseHeader
  BY <1>3, CallersFilters DEF ReadResponseHeader
<1>4. CASE \/ SendRequest \/ SendHeader \/ FlushBeforeBody \/ FinishWithoutBody
           \/ FlushClient \/ FlushServer
  BY <1>4, CallersFilters DEF SendRequest, SendHeader, FlushBeforeBody, FinishWithoutBody,
     FlushClient, FlushServer, Flush
<1> QED
  BY <1>1, <1>2, <1>3, <1>4 DEF OtherCalls

\* A call with a DeadFilter for the client keeps the story.
LEMMA RestCall ==
  ASSUME LoopInv, DequesAreThere, IsTold, NEW from, NEW f, NEW to, IsFilter(f),
         Call(from, Filtered(DeadFilter, f), to)
  PROVE  /\ LoopInv' /\ LinesInv' /\ DequesAreThere' /\ IsTold'
         /\ phase = from /\ phase' = to /\ stage = "idle" /\ Rests'
         /\ consumed' = consumed
         /\ \A text, k : Tells(text, k) => Tells(text, k)'
PROOF
<1> DEFINE fs == Filtered(DeadFilter, f)
<1>1. DOMAIN fs = Conn /\ (\A w \in Conn : IsFilter(fs[w])) /\ fs["client"] = DeadFilter
  BY CallersFilters DEF Filtered, Conn
<1> HIDE DEF fs
<1>2. Call(from, fs, to)
  BY DEF fs
<1>3. /\ LoopInv' /\ LinesInv' /\ DequesAreThere'
      /\ phase = from /\ phase' = to /\ stage = "idle"
      /\ consumed' = consumed /\ bytesWrittenSoFar' = bytesWrittenSoFar
      /\ filter' = fs
      /\ \A text, k : Tells(text, k) => Tells(text, k)'
  BY <1>1, <1>2, CallBegins
<1>4. Rests'
  BY <1>1, <1>3 DEF Rests, DeadFilter, Filter
<1> QED
  BY <1>3, <1>4 DEF IsTold

\* The phases of these calls are those of the request that was sent.
LEMMA SentPhases ==
  ASSUME Chapter,
         phase \in {"sendRequest", "fulfillHeader", "sendHeader", "response",
                    "responseHeader", "headerRead", "fulfillResponseHeader", "body",
                    "flushClient", "flushServer"}
  PROVE  /\ phase \in {"sendRequest", "fulfillHeader"} => LineIsSent
         /\ phase \notin {"sendRequest", "fulfillHeader"} => HeaderIsSent
BY DEF Chapter, RequestIsNext, RequestIsRead, HeaderIsNext, HeaderIsRead, FulfilIsNext,
   LineIsSent, HeaderIsSent, TunnelIsNext, TunnelIsOpen, IsOver

LEMMA RestCalls ==
  ASSUME LoopInv, DequesAreThere, IsTold, Chapter, OtherCalls
  PROVE  LoopInv' /\ LinesInv' /\ DequesAreThere' /\ IsTold' /\ Chapter'
PROOF
<1>1. PICK f, from, to :
        /\ IsFilter(f) /\ Call(from, Filtered(DeadFilter, f), to)
        /\ \/ from = "sendRequest" /\ to = "fulfillHeader"
           \/ /\ from \in {"sendHeader", "response", "responseHeader", "headerRead", "body",
                           "flushClient", "flushServer"}
              /\ to \in {"response", "responseHeader", "headerRead", "fulfillResponseHeader",
                         "flushClient", "flushServer", "checkpoint"}
  BY OtherCallsAreCalls
<1>2. /\ LoopInv' /\ LinesInv' /\ DequesAreThere' /\ IsTold'
      /\ phase = from /\ phase' = to /\ Rests'
      /\ consumed' = consumed
      /\ \A text, k : Tells(text, k) => Tells(text, k)'
  BY <1>1, RestCall
<1>3. CASE from = "sendRequest" /\ to = "fulfillHeader"
  <2>1. LineIsSent
    BY <1>2, <1>3, SentPhases
  <2>2. LineIsSent'
    BY <1>2, <1>3, <2>1 DEF LineIsSent, IsConnect
  <2> QED
    BY <1>2, <2>2 DEF Chapter
<1>4. CASE /\ from \in {"sendHeader", "response", "responseHeader", "headerRead", "body",
                        "flushClient", "flushServer"}
           /\ to \in {"response", "responseHeader", "headerRead", "fulfillResponseHeader",
                      "flushClient", "flushServer", "checkpoint"}
  <2>1. HeaderIsSent
    BY <1>2, <1>4, SentPhases
  <2>2. PICK text : text = Rewritten(consumed["client"])
    OBVIOUS
  <2>3. Tells(text, 0)'
    BY <1>2, <2>1, <2>2 DEF HeaderIsSent
  <2>4. HeaderIsSent'
    BY <1>2, <1>4, <2>1, <2>2, <2>3 DEF HeaderIsSent, IsConnect
  <2> QED
    BY <1>2, <2>4 DEF Chapter
<1> QED
  BY <1>1, <1>3, <1>4

-----------------------------------------------------------------------------
(* What handleIncomingRequest does between two calls.                      *)

\* What a filter of lines has taken when it has quit.
LEMMA LinesRead ==
  ASSUME LoopInv, LinesInv, stage = "idle", NEW l \in Seq(Alphabet),
         NEW class \in LineClasses, NEW k, NEW more, Reads(class, l, k, more)
  PROVE  \E h \in Seq(Alphabet) : /\ consumed["client"] = l \o h
                                  /\ LinesFit(class, instruction["client"], h)
PROOF
<1>1. PICK h \in Seq(Alphabet) : consumed["client"] = l \o h /\ readSoFar["client"] = Len(h)
  BY DEF Reads
<1>2. LinesFit(class, instruction["client"], Taken("client"))
  BY DEF LinesInv, HasEnded, Waits, Conn, Reads
<1>3. Taken("client") = h
  <2>1. /\ Len(l \o h) = Len(l) + Len(h) /\ Len(l) \in Nat /\ Len(h) \in Nat
        /\ From(l \o h, Len(l) + 1) = h
    BY FrontAndRest
  <2>2. Len(l \o h) - Len(h) + 1 = Len(l) + 1
    BY <2>1
  <2> QED
    BY <1>1, <2>1, <2>2 DEF Taken
<1> QED
  BY <1>1, <1>2, <1>3

\* A deque without holes, and one with.
LEMMA StoryHoles ==
  ASSUME NEW said, NEW phs, NEW limit \in Nat, NEW text, Story(said, phs, limit, text, 0)
  PROVE  Holes(phs) = {}
BY QueueHoles DEF Story

LEMMA CheckKeeps ==
  ASSUME LoopInv, LinesInv, DequesAreThere, IsTold, ChapterInv, CheckRequest
  PROVE  LoopInv' /\ LinesInv' /\ DequesAreThere' /\ IsTold' /\ ChapterInv'
PROOF
<1> DEFINE c == consumed["client"]
<1>1. /\ phase = "requestRead" /\ stage = "idle"
      /\ UNCHANGED << sock, disconnected, unfilteredBytes, uncommittedBytes, placeholders,
                      bytesReadSoFar, bytesWrittenSoFar, filter, instruction, readSoFar,
                      socketClosed, readAZero, needToRead, todo, held, nextTicket, consumed,
                      toCome, peer >>
      /\ \/ Holes(placeholders["server"]) = {} /\ stage' = "thrown"
         \/ Holes(placeholders["server"]) # {} /\ phase' = "header" /\ stage' = "idle"
  BY DEF CheckRequest, sockbufVars, peerVars
<1>2. LoopInv' /\ LinesInv'
  BY <1>1, CallerKeeps DEF LoopInv, LoopTyped, StreamInv, Typed, HasEnded
<1>3. DequesAreThere' /\ IsTold'
  BY <1>1 DEF DequesAreThere, IsTold
<1>4. CASE stage' = "thrown"
  BY <1>2, <1>3, <1>4 DEF ChapterInv, HasEnded
<1>5. CASE Holes(placeholders["server"]) # {} /\ phase' = "header" /\ stage' = "idle"
  <2>1. Reads("RequestLine", << >>, 0, 1)
    BY <1>1 DEF ChapterInv, HasEnded, Chapter, RequestIsNext, RequestIsRead, HeaderIsNext,
       HeaderIsRead, FulfilIsNext, LineIsSent, HeaderIsSent, TunnelIsNext, TunnelIsOpen, IsOver
  <2>2. HasRead
    <3> SUFFICES ASSUME ~HasRead PROVE FALSE
      OBVIOUS
    <3>1. Tells(<< >>, 0) /\ nextTicket \in Nat
      BY <2>1 DEF Reads, LoopInv, StreamInv, Typed
    <3> QED
      BY <1>5, <3>1, StoryHoles DEF Tells
  <2>3. << >> \in Seq(Alphabet) /\ "RequestLine" \in LineClasses
    BY EmptySeq DEF LineClasses, OneLineClasses
  <2>4. PICK h \in Seq(Alphabet) : /\ c = << >> \o h
                                   /\ LinesFit("RequestLine", instruction["client"], h)
    BY <1>1, <2>1, <2>3, LinesRead
  <2>5. c = h
    BY <2>4, ConcatEmptySeq
  <2>6. OneLine(h)
    BY <2>2, <2>4 DEF LinesFit, HasRead, OneLineClasses
  <2>7. Tells(<< >>, 1)'
    <3>1. Tells(<< >>, 1)
      BY <2>1, <2>2 DEF Reads
    <3> QED
      BY <1>1, <3>1 DEF Tells
  <2>8. HeaderIsNext'
    BY <1>1, <1>5, <2>5, <2>6, <2>7 DEF HeaderIsNext
  <2> QED
    BY <1>2, <1>3, <2>8 DEF ChapterInv, Chapter
<1> QED
  BY <1>1, <1>4, <1>5

LEMMA ConnectKeeps ==
  ASSUME LoopInv, LinesInv, DequesAreThere, IsTold, ChapterInv,
         ConnectToServer \/ LeaveUnconnected
  PROVE  LoopInv' /\ LinesInv' /\ DequesAreThere' /\ IsTold' /\ ChapterInv'
PROOF
<1> DEFINE c == consumed["client"]
<1>1. /\ phase = "connect" /\ stage = "idle" /\ stage' \in {"idle", "thrown"}
      /\ phase' = IF IsConnect THEN "consume" ELSE "fulfillRequest"
      /\ UNCHANGED << disconnected, unfilteredBytes, uncommittedBytes, placeholders,
                      bytesReadSoFar, bytesWrittenSoFar, filter, instruction, readSoFar,
                      socketClosed, readAZero, needToRead, todo, held, nextTicket, consumed >>
  BY DEF ConnectToServer, LeaveUnconnected, Connected
<1>2. sock' \in [Conn -> {"open", "invalid"}]
  <2>1. \/ sock' = sock
        \/ \E v \in {"open", "invalid"} : sock' = [sock EXCEPT !["server"] = v]
        \/ sock' = [sock EXCEPT !["server"] = sock["server"]]
    BY DEF ConnectToServer, LeaveUnconnected
  <2> QED
    BY <2>1 DEF LoopInv, LoopTyped, Conn
<1>3. toCome' \in [Conn -> Seq(Alphabet)]
  <2>1. << >> \in Seq(Alphabet)
    BY EmptySeq
  <2>2. toCome' = toCome \/ toCome' = [toCome EXCEPT !["server"] = << >>]
    BY DEF ConnectToServer, LeaveUnconnected, peerVars
  <2>3. toCome \in [Conn -> Seq(Alphabet)]
    BY DEF LoopInv, StreamInv, Typed
  <2> QED
    BY <2>1, <2>2, <2>3 DEF Conn
<1>4. LoopInv' /\ LinesInv'
  BY <1>1, <1>2, <1>3, CallerKeeps DEF LoopInv, LoopTyped, HasEnded
<1>5. DequesAreThere' /\ IsTold'
  BY <1>1 DEF DequesAreThere, IsTold
<1>6. CASE stage' = "thrown"
  BY <1>4, <1>5, <1>6 DEF ChapterInv, HasEnded
<1>7. CASE stage' = "idle"
  <2>1. PICK l \in Seq(Alphabet) : OneLine(l) /\ Reads("Header", l, 1, 4)
    BY <1>1 DEF ChapterInv, HasEnded, Chapter, RequestIsNext, RequestIsRead, HeaderIsNext,
       HeaderIsRead, FulfilIsNext, LineIsSent, HeaderIsSent, TunnelIsNext, TunnelIsOpen, IsOver
  <2>2. "Header" \in LineClasses
    BY DEF LineClasses
  <2>3. PICK h \in Seq(Alphabet) : /\ c = l \o h
                                   /\ LinesFit("Header", instruction["client"], h)
    BY <1>1, <2>1, <2>2, LinesRead
  <2>4. (WholeHeader(c) /\ Tells(<< >>, 4)) \/ Tells(<< >>, 1)
    <3>1. CASE HasRead
      <4>1. AtLineEnd(h) /\ BlankAt(h) = {Len(h) - 1}
        BY <2>3, <3>1 DEF LinesFit, HasRead
      <4>2. WholeHeader(c)
        BY <2>1, <2>3, <4>1 DEF WholeHeader
      <4> QED
        BY <2>1, <3>1, <4>2 DEF Reads
    <3>2. CASE ~HasRead
      BY <2>1, <3>2 DEF Reads
    <3> QED
      BY <3>1, <3>2
  <2>5. FulfilIsNext'
    BY <1>1, <1>7, <2>4 DEF FulfilIsNext, IsConnect, Tells
  <2> QED
    BY <1>4, <1>5, <2>5 DEF ChapterInv, Chapter
<1> QED
  BY <1>1, <1>6, <1>7

\* Fulfilling placeholders, of either connection.
LEMMA FulfillNextKeeps ==
  ASSUME LoopInv, LinesInv, DequesAreThere, IsTold, NEW from, NEW w \in Conn, NEW contents,
         NEW to, FulfillNext(from, w, contents, to)
  PROVE  /\ LoopInv' /\ LinesInv' /\ DequesAreThere' /\ IsTold'
         /\ phase = from /\ phase' = to /\ stage = "idle"
         /\ consumed' = consumed /\ bytesWrittenSoFar' = bytesWrittenSoFar
         /\ nextTicket' = nextTicket
         /\ \/ HasEnded'
            \/ /\ stage' = "idle" /\ ~OneIsMissing(placeholders[w], contents)
               /\ placeholders' = [placeholders EXCEPT
                                     ![w] = FulfilledInTurn(placeholders[w], contents)]
PROOF
<1>1. /\ phase = from /\ phase' = to /\ stage = "idle"
      /\ UNCHANGED << sock, disconnected, unfilteredBytes, uncommittedBytes, bytesReadSoFar,
                      bytesWrittenSoFar, filter, instruction, readSoFar, socketClosed,
                      readAZero, needToRead, todo, nextTicket, consumed, toCome >>
      /\ \/ stage' = "asserted" /\ UNCHANGED << placeholders, held >>
         \/ /\ ~OneIsMissing(placeholders[w], contents) /\ stage' = "idle"
            /\ placeholders' = [placeholders EXCEPT
                                  ![w] = FulfilledInTurn(placeholders[w], contents)]
            /\ held' \subseteq held
  BY DEF FulfillNext, peerVars
<1>2. LoopInv' /\ LinesInv'
  BY <1>1, CallerKeeps DEF LoopInv, LoopTyped, StreamInv, Typed, HasEnded
<1>3. DequesAreThere' /\ IsTold'
  BY <1>1 DEF DequesAreThere, IsTold
<1> QED
  BY <1>1, <1>2, <1>3 DEF HasEnded

\* Fulfilling placeholders of the server adds their contents to the story.
LEMMA FulfilTells ==
  ASSUME LoopInv, DequesAreThere, UNCHANGED << bytesWrittenSoFar, nextTicket >>,
         NEW contents \in Seq(Seq(Sent)), ~OneIsMissing(placeholders["server"], contents),
         placeholders' = [placeholders EXCEPT
                            !["server"] = FulfilledInTurn(placeholders["server"], contents)],
         NEW more \in Seq(Sent), more = Seqs!FlattenSeq(contents),
         NEW text, NEW k, Tells(text, k)
  PROVE  /\ Len(contents) <= k /\ k \in Nat
         /\ Tells(text \o more, k - Len(contents))'
PROOF
<1> DEFINE said == bytesWrittenSoFar["server"]
           phs == placeholders["server"]
           limit == nextTicket
<1>1. limit \in Nat
  BY DEF LoopInv, StreamInv, Typed
<1>2. Story(said, phs, limit, text, k)
  BY DEF Tells
<1>3. /\ bytesWrittenSoFar'["server"] = said /\ nextTicket' = limit
      /\ placeholders'["server"] = FulfilledInTurn(phs, contents)
  BY DEF DequesAreThere, Conn
<1>4. ~OneIsMissing(phs, contents)
  OBVIOUS
<1> HIDE DEF said, phs, limit
<1>5. /\ Len(contents) <= k /\ k \in Nat
      /\ Story(said, FulfilledInTurn(phs, contents), limit, text \o more, k - Len(contents))
  BY <1>1, <1>2, <1>4, StoryFulfilled
<1> QED
  BY <1>3, <1>5 DEF Tells

LEMMA ConsumeKeeps ==
  ASSUME LoopInv, LinesInv, DequesAreThere, IsTold, ChapterInv, Consume
  PROVE  LoopInv' /\ LinesInv' /\ DequesAreThere' /\ IsTold' /\ ChapterInv'
PROOF
<1> DEFINE c == consumed["client"]
<1>1. PICK contents : contents = << << >>, << >>, << >>, << >> >>
  OBVIOUS
<1>2. FulfillNext("consume", "server", contents, "tunnel") /\ "server" \in Conn
  BY <1>1 DEF Consume, Conn
<1>3. /\ LoopInv' /\ LinesInv' /\ DequesAreThere' /\ IsTold'
      /\ phase = "consume" /\ phase' = "tunnel" /\ stage = "idle"
      /\ consumed' = consumed /\ bytesWrittenSoFar' = bytesWrittenSoFar
      /\ nextTicket' = nextTicket
      /\ \/ HasEnded'
         \/ /\ stage' = "idle" /\ ~OneIsMissing(placeholders["server"], contents)
            /\ placeholders' = [placeholders EXCEPT
                                  !["server"] = FulfilledInTurn(placeholders["server"], contents)]
  BY <1>2, FulfillNextKeeps
<1>4. CASE HasEnded'
  BY <1>3, <1>4 DEF ChapterInv
<1>5. CASE ~HasEnded'
  <2>1. FulfilIsNext
    BY <1>3 DEF ChapterInv, HasEnded, Chapter, RequestIsNext, RequestIsRead, HeaderIsNext,
       HeaderIsRead, FulfilIsNext, LineIsSent, HeaderIsSent, TunnelIsNext, TunnelIsOpen, IsOver
  <2>2. PICK k : Tells(<< >>, k) /\ ((WholeHeader(c) /\ k = 4) \/ k = 1)
    BY <2>1 DEF FulfilIsNext
  <2>3. << >> \in Seq(Sent) /\ << >> \o << >> = << >>
    BY EmptySeq, ConcatEmptySeq
  <2>4. contents \in Seq(Seq(Sent)) /\ Seqs!FlattenSeq(contents) = << >> /\ Len(contents) = 4
    <3>1. PICK none \in Seq(Sent) : none = << >> /\ none \o none = none
      BY <2>3
    <3>2. contents = << none, none, none, none >>
      BY <1>1, <3>1
    <3>3. /\ << none, none, none, none >> \in Seq(Seq(Sent))
          /\ Seqs!FlattenSeq(<< none, none, none, none >>) = none \o none \o none \o none
      BY FourContents
    <3>4. Len(<< none, none, none, none >>) = 4
      OBVIOUS
    <3> QED
      BY <3>1, <3>2, <3>3, <3>4
  <2>5. Len(contents) <= k /\ Tells(<< >> \o << >>, k - Len(contents))'
    BY <1>3, <1>5, <2>2, <2>3, <2>4, FulfilTells
  <2>6. k = 4 /\ WholeHeader(c) /\ k - Len(contents) = 0
    BY <2>2, <2>4, <2>5
  <2>7. Tells(<< >>, 0)'
    BY <2>3, <2>5, <2>6
  <2>8. TunnelIsNext'
    BY <1>3, <1>5, <2>1, <2>6, <2>7 DEF TunnelIsNext, FulfilIsNext, IsConnect
  <2> QED
    BY <1>3, <2>8 DEF ChapterInv, Chapter
<1> QED
  BY <1>4, <1>5

LEMMA FulfillRequestKeeps ==
  ASSUME LoopInv, LinesInv, DequesAreThere, IsTold, ChapterInv, FulfillRequest
  PROVE  LoopInv' /\ LinesInv' /\ DequesAreThere' /\ IsTold' /\ ChapterInv'
PROOF
<1> DEFINE c == consumed["client"]
<1>1. PICK contents : contents = << RequestText >>
  OBVIOUS
<1>2. FulfillNext("fulfillRequest", "server", contents, "sendRequest") /\ "server" \in Conn
  BY <1>1 DEF FulfillRequest, Conn
<1>3. /\ LoopInv' /\ LinesInv' /\ DequesAreThere' /\ IsTold'
      /\ phase = "fulfillRequest" /\ phase' = "sendRequest" /\ stage = "idle"
      /\ consumed' = consumed /\ bytesWrittenSoFar' = bytesWrittenSoFar
      /\ nextTicket' = nextTicket
      /\ \/ HasEnded'
         \/ /\ stage' = "idle" /\ ~OneIsMissing(placeholders["server"], contents)
            /\ placeholders' = [placeholders EXCEPT
                                  !["server"] = FulfilledInTurn(placeholders["server"], contents)]
  BY <1>2, FulfillNextKeeps
<1>4. CASE HasEnded'
  BY <1>3, <1>4 DEF ChapterInv
<1>5. CASE ~HasEnded'
  <2>1. FulfilIsNext
    BY <1>3 DEF ChapterInv, HasEnded, Chapter, RequestIsNext, RequestIsRead, HeaderIsNext,
       HeaderIsRead, FulfilIsNext, LineIsSent, HeaderIsSent, TunnelIsNext, TunnelIsOpen, IsOver
  <2>2. PICK k : Tells(<< >>, k) /\ ((WholeHeader(c) /\ k = 4) \/ k = 1)
    BY <2>1 DEF FulfilIsNext
  <2>3. RequestText \in Seq(Sent) /\ << >> \o RequestText = RequestText
    BY TextsAreSent, ConcatEmptySeq
  <2>4. contents \in Seq(Seq(Sent)) /\ Seqs!FlattenSeq(contents) = RequestText
        /\ Len(contents) = 1
    BY <1>1, <2>3, OneContent
  <2>5. Tells(<< >> \o RequestText, k - Len(contents))'
    BY <1>3, <1>5, <2>2, <2>3, <2>4, FulfilTells
  <2>6. Tells(RequestText, k - 1)'
    BY <2>3, <2>4, <2>5
  <2>7. LineIsSent'
    <3>1. CASE WholeHeader(c) /\ k = 4
      <4>1. Tells(RequestText, 3)'
        BY <2>6, <3>1
      <4> QED
        BY <1>3, <1>5, <2>1, <3>1, <4>1 DEF LineIsSent, FulfilIsNext, IsConnect, Rests
    <3>2. CASE k = 1
      <4>1. Tells(RequestText, 0)'
        BY <2>6, <3>2
      <4> QED
        BY <1>3, <1>5, <2>1, <4>1 DEF LineIsSent, FulfilIsNext, IsConnect, Rests
    <3> QED
      BY <2>2, <3>1, <3>2
  <2> QED
    BY <1>3, <2>7 DEF ChapterInv, Chapter
<1> QED
  BY <1>4, <1>5

LEMMA FulfillRequestHeaderKeeps ==
  ASSUME LoopInv, LinesInv, DequesAreThere, IsTold, ChapterInv, FulfillRequestHeader
  PROVE  LoopInv' /\ LinesInv' /\ DequesAreThere' /\ IsTold' /\ ChapterInv'
PROOF
<1> DEFINE c == consumed["client"]
<1>0. PICK chunking : chunking = ChunkingOf(c)
  OBVIOUS
<1>1. PICK contents : contents = << HeaderText, chunking, CRLF >>
  OBVIOUS
<1>2. FulfillNext("fulfillHeader", "server", contents, "sendHeader") /\ "server" \in Conn
  BY <1>0, <1>1 DEF FulfillRequestHeader, HeaderContents, ChunkingOf, Conn
<1>3. /\ LoopInv' /\ LinesInv' /\ DequesAreThere' /\ IsTold'
      /\ phase = "fulfillHeader" /\ phase' = "sendHeader" /\ stage = "idle"
      /\ consumed' = consumed /\ bytesWrittenSoFar' = bytesWrittenSoFar
      /\ nextTicket' = nextTicket
      /\ \/ HasEnded'
         \/ /\ stage' = "idle" /\ ~OneIsMissing(placeholders["server"], contents)
            /\ placeholders' = [placeholders EXCEPT
                                  !["server"] = FulfilledInTurn(placeholders["server"], contents)]
  BY <1>2, FulfillNextKeeps
<1>4. CASE HasEnded'
  BY <1>3, <1>4 DEF ChapterInv
<1>5. CASE ~HasEnded'
  <2> DEFINE more == HeaderText \o chunking \o CRLF
  <2>1. LineIsSent
    BY <1>3, SentPhases DEF ChapterInv, HasEnded
  <2>2. PICK k : Tells(RequestText, k) /\ ((WholeHeader(c) /\ k = 3) \/ k = 0)
    BY <2>1 DEF LineIsSent
  <2>3. HeaderText \in Seq(Sent) /\ chunking \in Seq(Sent) /\ CRLF \in Seq(Sent)
    BY <1>0, TextsAreSent
  <2>4. contents \in Seq(Seq(Sent)) /\ Seqs!FlattenSeq(contents) = more /\ Len(contents) = 3
    <3>1. PICK a, b, d : a = HeaderText /\ b = chunking /\ d = CRLF
      OBVIOUS
    <3>2. a \in Seq(Sent) /\ b \in Seq(Sent) /\ d \in Seq(Sent) /\ contents = << a, b, d >>
      BY <1>1, <2>3, <3>1
    <3>3. << a, b, d >> \in Seq(Seq(Sent)) /\ Seqs!FlattenSeq(<< a, b, d >>) = a \o b \o d
      BY <3>2, ThreeContents
    <3>4. Len(<< a, b, d >>) = 3
      OBVIOUS
    <3> QED
      BY <3>1, <3>2, <3>3, <3>4
  <2>5. more \in Seq(Sent) /\ Rewritten(c) = RequestText \o more
    BY <1>0, RewrittenIsSent DEF Rewritten
  <2> HIDE DEF more
  <2>6. PICK add \in Seq(Sent) : add = more
    BY <2>5
  <2>7. Len(contents) <= k /\ Tells(RequestText \o add, k - Len(contents))'
    BY <1>3, <1>5, <2>2, <2>4, <2>6, FulfilTells
  <2>8. k = 3 /\ WholeHeader(c) /\ k - Len(contents) = 0
    BY <2>2, <2>4, <2>7
  <2>9. PICK text : text = RequestText \o add /\ text = Rewritten(c)
    BY <2>5, <2>6
  <2>10. Tells(text, 0)'
    BY <2>7, <2>8, <2>9
  <2>11. HeaderIsSent'
    BY <1>3, <1>5, <2>1, <2>8, <2>9, <2>10 DEF HeaderIsSent, LineIsSent, IsConnect, Rests
  <2> QED
    BY <1>3, <2>11 DEF ChapterInv, Chapter
<1> QED
  BY <1>4, <1>5

LEMMA FulfillResponseHeaderKeeps ==
  ASSUME LoopInv, LinesInv, DequesAreThere, IsTold, ChapterInv, FulfillResponseHeader
  PROVE  LoopInv' /\ LinesInv' /\ DequesAreThere' /\ IsTold' /\ ChapterInv'
PROOF
<1>1. PICK contents : contents = HeaderContents("server")
  OBVIOUS
<1>2. FulfillNext("fulfillResponseHeader", "client", contents, "body") /\ "client" \in Conn
  BY <1>1 DEF FulfillResponseHeader, Conn
<1>3. /\ LoopInv' /\ LinesInv' /\ DequesAreThere' /\ IsTold'
      /\ phase = "fulfillResponseHeader" /\ phase' = "body" /\ stage = "idle"
      /\ consumed' = consumed /\ bytesWrittenSoFar' = bytesWrittenSoFar
      /\ nextTicket' = nextTicket
      /\ \/ HasEnded'
         \/ /\ stage' = "idle" /\ ~OneIsMissing(placeholders["client"], contents)
            /\ placeholders' = [placeholders EXCEPT
                                  !["client"] = FulfilledInTurn(placeholders["client"], contents)]
  BY <1>2, FulfillNextKeeps
<1>4. CASE HasEnded'
  BY <1>3, <1>4 DEF ChapterInv
<1>5. CASE ~HasEnded'
  <2>1. HeaderIsSent
    BY <1>3, SentPhases DEF ChapterInv, HasEnded
  <2>2. placeholders'["server"] = placeholders["server"]
    BY <1>3, <1>5 DEF DequesAreThere, Conn
  <2>3. HeaderIsSent'
    BY <1>3, <1>5, <2>1, <2>2 DEF HeaderIsSent, IsConnect, Rests, Tells
  <2> QED
    BY <1>3, <2>3 DEF ChapterInv, Chapter
<1> QED
  BY <1>4, <1>5

LEMMA SkipFlushKeeps ==
  ASSUME LoopInv, LinesInv, DequesAreThere, IsTold, ChapterInv, SkipFlush
  PROVE  LoopInv' /\ LinesInv' /\ DequesAreThere' /\ IsTold' /\ ChapterInv'
PROOF
<1>1. /\ phase = "headerRead" /\ phase' = "fulfillResponseHeader" /\ stage = "idle"
      /\ UNCHANGED vars
  BY DEF SkipFlush
<1>2. LoopInv' /\ LinesInv'
  BY <1>1, StutterKeeps
<1>3. UNCHANGED << placeholders, bytesWrittenSoFar, filter, stage, nextTicket, consumed >>
  BY <1>1 DEF vars, sockbufVars, loopVars
<1>4. DequesAreThere' /\ IsTold'
  BY <1>3 DEF DequesAreThere, IsTold
<1>5. HeaderIsSent
  BY <1>1, SentPhases DEF ChapterInv, HasEnded
<1>6. HeaderIsSent'
  BY <1>1, <1>3, <1>5 DEF HeaderIsSent, IsConnect, Rests, Tells
<1> QED
  BY <1>2, <1>4, <1>6 DEF ChapterInv, Chapter

\* The ends of handleIncomingRequest and of the worker.
LEMMA EndsKeep ==
  ASSUME LoopInv, LinesInv, DequesAreThere, IsTold, ChapterInv,
         CleanCheckpoint \/ Catch \/ CatchBlocks \/ DeleteProxy
  PROVE  LoopInv' /\ LinesInv' /\ DequesAreThere' /\ IsTold' /\ ChapterInv'
PROOF
<1>1. /\ UNCHANGED << unfilteredBytes, uncommittedBytes, bytesReadSoFar, bytesWrittenSoFar,
                      placeholders, filter, instruction, readSoFar, socketClosed, readAZero,
                      needToRead, todo, nextTicket, consumed, toCome >>
      /\ held' \in {held, {}}
  BY DEF CleanCheckpoint, Catch, CatchBlocks, DeleteProxy, sockbufVars, loopVars, peerVars
<1>2. DequesAreThere' /\ IsTold'
  BY <1>1 DEF DequesAreThere, IsTold
<1>3. held' \subseteq Conn \X (0..nextTicket) /\ toCome' \in [Conn -> Seq(Alphabet)]
  BY <1>1 DEF LoopInv, LoopTyped, StreamInv, Typed
<1>4. CASE CleanCheckpoint
  <2>1. /\ phase = "checkpoint" /\ stage = "idle" /\ UNCHANGED << sock, disconnected >>
        /\ \/ phase' = "handled" /\ stage' = "idle"
           \/ stage' = "asserted"
    BY <1>4 DEF CleanCheckpoint, sockbufVars
  <2>2. LoopInv' /\ LinesInv'
    BY <1>1, <1>3, <2>1, CallerKeeps DEF LoopInv, LoopTyped, HasEnded
  <2>3. ChapterInv'
    BY <2>1 DEF ChapterInv, HasEnded, Chapter, IsOver
  <2> QED
    BY <1>2, <2>2, <2>3
<1>5. CASE Catch
  <2>1. /\ stage = "thrown" /\ stage' = stage
        /\ sock' = [sock EXCEPT !["client"] = "invalid"]
        /\ disconnected' = [disconnected EXCEPT !["client"] = @ \/ sock["client"] = "open"]
    BY <1>5 DEF Catch, loopVars
  <2>2. sock' \in [Conn -> {"open", "invalid"}] /\ disconnected' \in [Conn -> BOOLEAN]
    BY <2>1 DEF LoopInv, LoopTyped, Conn
  <2>3. LoopInv' /\ LinesInv'
    BY <1>1, <1>3, <2>1, <2>2, CallerKeeps DEF HasEnded
  <2>4. ChapterInv'
    BY <2>1 DEF ChapterInv, HasEnded
  <2> QED
    BY <1>2, <2>3, <2>4
<1>6. CASE DeleteProxy
  <2>1. /\ phase \in {"handled", "failed"} /\ phase' = "deleted" /\ stage' = stage
        /\ sock' = [w \in Conn |-> "invalid"]
        /\ disconnected' = [w \in Conn |-> disconnected[w] \/ sock[w] = "open"]
    BY <1>6 DEF DeleteProxy, loopVars
  <2>2. sock' \in [Conn -> {"open", "invalid"}] /\ disconnected' \in [Conn -> BOOLEAN]
    BY <2>1 DEF LoopInv, LoopTyped, Conn
  <2>3. LoopInv' /\ LinesInv'
    BY <1>1, <1>3, <2>1, <2>2, CallerKeeps DEF HasEnded
  <2>4. ASSUME ~HasEnded' PROVE IsOver'
    <3>1. Chapter
      BY <2>1, <2>4 DEF ChapterInv, HasEnded
    <3>2. IsOver
      BY <2>1, <3>1 DEF Chapter, RequestIsNext, RequestIsRead, HeaderIsNext, HeaderIsRead,
         FulfilIsNext, LineIsSent, HeaderIsSent, TunnelIsNext, TunnelIsOpen
    <3> QED
      BY <2>1, <3>2 DEF IsOver
  <2> QED
    BY <1>2, <2>3, <2>4 DEF ChapterInv, Chapter
<1>7. CASE CatchBlocks
  <2>1. stage = "thrown" /\ stage' = "blocked" /\ UNCHANGED << sock, disconnected >>
    BY <1>7 DEF CatchBlocks, sockbufVars
  <2>2. LoopInv' /\ LinesInv'
    BY <1>1, <1>3, <2>1, CallerKeeps DEF LoopInv, LoopTyped, HasEnded
  <2>3. ChapterInv'
    BY <2>1 DEF ChapterInv, HasEnded
  <2> QED
    BY <1>2, <2>2, <2>3
<1> QED
  BY <1>4, <1>5, <1>6, <1>7

\* A reset by a peer, and steps of other programs.
LEMMA OthersKeep ==
  ASSUME LoopInv, LinesInv, DequesAreThere, IsTold, ChapterInv, UNCHANGED workerVars,
         \/ \E w \in Conn : PeerReset(w)
         \/ UNCHANGED vars
  PROVE  LoopInv' /\ LinesInv' /\ DequesAreThere' /\ IsTold' /\ ChapterInv'
PROOF
<1>1. LoopInv' /\ LinesInv'
  BY ResetKeeps, StutterKeeps
<1>2. UNCHANGED << placeholders, bytesWrittenSoFar, bytesReadSoFar, filter, instruction,
                   readSoFar, todo, stage, nextTicket, consumed, phase >>
  BY DEF PeerReset, vars, sockbufVars, loopVars, peerVars, workerVars
<1>3. DequesAreThere' /\ IsTold'
  BY <1>2 DEF DequesAreThere, IsTold
<1>4. HasRead' <=> HasRead
  BY <1>2 DEF HasRead, Waits
<1>5. /\ RequestIsNext => RequestIsNext'
      /\ HeaderIsNext => HeaderIsNext'
      /\ FulfilIsNext => FulfilIsNext'
      /\ LineIsSent => LineIsSent'
      /\ HeaderIsSent => HeaderIsSent'
      /\ TunnelIsNext => TunnelIsNext'
      /\ IsOver => IsOver'
  BY <1>2 DEF RequestIsNext, HeaderIsNext, FulfilIsNext, LineIsSent, HeaderIsSent,
     TunnelIsNext, IsOver, Tells, Rests, IsConnect
<1>6. \A class, l, k, more : Reads(class, l, k, more) => Reads(class, l, k, more)'
  BY <1>2, <1>4 DEF Reads, Tells
<1>7. RequestIsRead => RequestIsRead'
  BY <1>2, <1>6 DEF RequestIsRead
<1>8. HeaderIsRead => HeaderIsRead'
  BY <1>2, <1>6 DEF HeaderIsRead
<1>9. TunnelIsOpen => TunnelIsOpen'
  BY <1>2 DEF TunnelIsOpen, Tunnels, Tells, IsConnect
<1>10. ChapterInv'
  BY <1>2, <1>5, <1>7, <1>8, <1>9 DEF ChapterInv, Chapter, HasEnded
<1> QED
  BY <1>1, <1>3, <1>10

-----------------------------------------------------------------------------
(* The invariant of the worker.                                            *)

Inv == LoopInv /\ LinesInv /\ DequesAreThere /\ IsTold /\ ChapterInv

LEMMA InitHolds == Init => Inv
PROOF
<1> SUFFICES ASSUME Init PROVE Inv
  OBVIOUS
<1>1. PICK e \in Exchanges, p \in Peers : InitWith(e, p, {"client"})
  BY DEF Init
<1>2. e \in [Conn -> Seq(Alphabet)]
  BY RequestAssumption
<1>3. LoopInv /\ LinesInv
  BY <1>1, <1>2, LoopInit
<1>4. /\ placeholders = [w \in Conn |-> << >>] /\ bytesWrittenSoFar = [w \in Conn |-> << >>]
      /\ consumed = [w \in Conn |-> << >>] /\ stage = "idle" /\ phase = "request"
  BY <1>1 DEF InitWith, Init
<1>5. /\ placeholders["server"] = << >> /\ bytesWrittenSoFar["server"] = << >>
      /\ consumed["client"] = << >>
  BY <1>4 DEF Conn
<1>6. Tells(<< >>, 0)
  BY <1>5, StoryOfNone DEF Tells
<1>7. Plan(consumed["client"], << >>)
  BY <1>3, Plans DEF LoopInv, StreamInv, Typed, Conn
<1>8. IsTold
  BY <1>6, <1>7, StoryTells DEF Tells, IsTold
<1>9. RequestIsNext
  BY <1>4, <1>5, <1>6 DEF RequestIsNext
<1>10. DequesAreThere
  BY <1>4 DEF DequesAreThere
<1> QED
  BY <1>3, <1>8, <1>9, <1>10 DEF Inv, ChapterInv, Chapter

\* The calls of the loop.
LEMMA CallsKeep ==
  ASSUME Inv, ReadRequestLine \/ ReadHeader \/ Tunnel \/ OtherCalls
  PROVE  Inv'
PROOF
<1>1. stage = "idle"
  <2>1. CASE ReadRequestLine \/ ReadHeader \/ Tunnel
    BY <2>1 DEF ReadRequestLine, ReadHeader, Tunnel, Call, StartCall
  <2>2. CASE OtherCalls
    BY <2>2, OtherCallsAreCalls DEF Inv, Call, StartCall
  <2> QED
    BY <2>1, <2>2
<1>2. Chapter
  BY <1>1 DEF Inv, ChapterInv, HasEnded
<1>3. LoopInv' /\ LinesInv' /\ DequesAreThere' /\ IsTold' /\ Chapter'
  BY <1>2, ReadCalls, RestCalls DEF Inv
<1> QED
  BY <1>3 DEF Inv, ChapterInv

LEMMA StepKeeps == Inv /\ [Next]_allVars => Inv'
PROOF
<1> SUFFICES ASSUME Inv, [Next]_allVars PROVE Inv'
  OBVIOUS
<1> USE DEF Inv
<1>1. CASE ReadRequestLine \/ ReadHeader \/ Tunnel \/ OtherCalls
  BY <1>1, CallsKeep
<1>2. CASE CheckRequest
  BY <1>2, CheckKeeps
<1>3. CASE ConnectToServer \/ LeaveUnconnected
  BY <1>3, ConnectKeeps
<1>4. CASE Consume
  BY <1>4, ConsumeKeeps
<1>5. CASE FulfillRequest
  BY <1>5, FulfillRequestKeeps
<1>6. CASE FulfillRequestHeader
  BY <1>6, FulfillRequestHeaderKeeps
<1>7. CASE FulfillResponseHeader
  BY <1>7, FulfillResponseHeaderKeeps
<1>8. CASE SkipFlush
  BY <1>8, SkipFlushKeeps
<1>9. CASE CleanCheckpoint \/ Catch \/ CatchBlocks \/ DeleteProxy
  BY <1>9, EndsKeep
<1>10. CASE LoopStep
  BY <1>10, LoopKeeps, LoopChapter DEF LoopStep
<1>11. CASE (\E w \in Conn : PeerReset(w)) /\ UNCHANGED workerVars
  BY <1>11, OthersKeep
<1>12. CASE UNCHANGED allVars
  BY <1>12, OthersKeep DEF allVars
<1> QED
  BY <1>1, <1>2, <1>3, <1>4, <1>5, <1>6, <1>7, <1>8, <1>9, <1>10, <1>11, <1>12
     DEF Next, Worker, OtherCalls

\* In every reachable state the filters have taken their parts of what came, no
\* byte is lost, and what the server was sent together with what its deque holds
\* is the text of the phase that handleIncomingRequest is in.
THEOREM WorkerInvariance == Spec => []Inv
PROOF
<1>1. Init => Inv
  BY InitHolds
<1>2. Inv /\ [Next]_allVars => Inv'
  BY StepKeeps
<1> QED
  BY <1>1, <1>2, PTL DEF Spec

\* Through the whole of a worker's life, with the calls, filters and ends of
\* handleIncomingRequest, every byte that recv gave is in its place: consumed,
\* uncommitted or unfiltered, in order.
THEOREM NoByteIsLostByAWorker == Spec => []NoByteLost
PROOF
<1>1. Inv => NoByteLost
  BY DEF Inv, LoopInv, StreamInv
<1> QED
  BY <1>1, WorkerInvariance, PTL

\* Whatever the client sends, however its bytes are cut, and whatever times out
\* or resets: the server is only ever sent the beginning of the request line and
\* header as the proxy writes them, or of what follows a CONNECT's header.
THEOREM ServerIsSentTheRequest == Spec => []ServerGetsTheRequest
PROOF
<1>1. Inv => ServerGetsTheRequest
  BY ToldIsEnough DEF Inv, IsTold
<1> QED
  BY <1>1, WorkerInvariance, PTL

=============================================================================
