---------------------------- MODULE SockBufProofs ----------------------------
(***************************************************************************)
(* Proofs about SockBuf, for any bounds on its tickets and lengths.        *)
(*                                                                         *)
(* First, lemmas about the operations on a deque of placeholders: what     *)
(* each does to the places of the bytes, to the holes and to the known     *)
(* placeholders, for every deque.                                          *)
(*                                                                         *)
(* Then the invariants.  WireInOrder and NothingPastAHole are not          *)
(* inductive: they speak of the wire, and what goes on the wire next is    *)
(* decided by the deque.  IInv orders the deque as well: a placeholder's   *)
(* bytes lie between its own ticket and the next placeholder's             *)
(* (WellPlaced), and everything on the wire lies before the deque.  By the *)
(* lemmas each operation on the deque keeps that order.                    *)
(*                                                                         *)
(* Last, SockBuf implements HoleStream: each step of a SockBuf is a step   *)
(* of the stream of its cells, or changes none.  Every operation on the    *)
(* deque is brought into the form "the placeholders in front, one in the   *)
(* middle, those behind", of which the flattening is known by              *)
(* FlattenConcat; the cells are then cut at the same places.               *)
(***************************************************************************)
EXTENDS SockBufStream, Induction

-----------------------------------------------------------------------------
(* A deque of placeholders.                                                *)

\* Tickets increase along the deque and are below next.
IdsIncrease(phs, next) ==
  /\ \A k \in 1..Len(phs) : phs[k].id < next
  /\ \A j, k \in 1..Len(phs) : j < k => phs[j].id < phs[k].id

\* The bytes of each placeholder are in order, at or after its own ticket.
ContentsInOrder(phs, next) ==
  \A k \in 1..Len(phs) : \A c \in 1..Len(phs[k].contents) :
    /\ phs[k].id <= phs[k].contents[c]
    /\ phs[k].contents[c] < next
    /\ \A d \in 1..Len(phs[k].contents) :
         c < d => phs[k].contents[c] <= phs[k].contents[d]

\* No placeholder has a byte that belongs in a later one.
ContentsBeforeNext(phs) ==
  \A j, k \in 1..Len(phs) : \A c \in 1..Len(phs[j].contents) :
    j < k => phs[j].contents[c] < phs[k].id

\* The placeholders are known exactly when they have bytes.
KnownHaveBytes(phs) ==
  \A k \in 1..Len(phs) : phs[k].contentsKnown <=> Len(phs[k].contents) # 0

WellPlaced(phs, next) ==
  /\ IdsIncrease(phs, next)
  /\ ContentsInOrder(phs, next)
  /\ ContentsBeforeNext(phs)
  /\ KnownHaveBytes(phs)

\* The string of n bytes of ticket t, n > 0.
IsBytesOf(s, t) == s \in Seq(Nat) /\ \A i \in 1..Len(s) : s[i] = t

-----------------------------------------------------------------------------

\* Appending a hole with the next ticket keeps every byte in its place.
LEMMA OutputPlaceholderPlaces ==
  ASSUME NEW phs \in Deques(Nat), NEW next \in Nat, WellPlaced(phs, next)
  PROVE  LET new == OutputPlaceholder(phs, next)
         IN  /\ new \in Deques(Nat)
             /\ WellPlaced(new, next + 1)
             /\ Len(new) = Len(phs) + 1
             /\ \A k \in 1..Len(phs) : new[k] = phs[k]
             /\ new[Len(new)] = Hole(next)
<1> DEFINE n == Len(phs)
           new == OutputPlaceholder(phs, next)
<1>1. Hole(next) \in PlaceholderOf(Nat)
  BY DEF Hole, PlaceholderOf
<1>2. new \in Deques(Nat)
  BY <1>1 DEF OutputPlaceholder, Deques
<1>3. /\ Len(new) = n + 1
      /\ \A k \in 1..n : new[k] = phs[k]
      /\ new[n + 1] = Hole(next)
  BY <1>1 DEF OutputPlaceholder, Deques
<1>4. /\ new[n + 1].id = next
      /\ Len(new[n + 1].contents) = 0
      /\ new[n + 1].contentsKnown = FALSE
  BY <1>3 DEF Hole
<1>5. /\ n \in Nat
      /\ \A k \in 1..n : phs[k].id \in Nat /\ phs[k].contentsKnown \in BOOLEAN
      /\ \A k \in 1..n : Len(phs[k].contents) \in Nat
      /\ \A k \in 1..n : \A c \in 1..Len(phs[k].contents) : phs[k].contents[c] \in Nat
  BY DequeElements
<1> HIDE DEF new, n
<1>6. \A k \in 1..Len(new) : k \in 1..n \/ k = n + 1
  BY <1>3, <1>5
<1>7. IdsIncrease(new, next + 1)
  <2>1. \A k \in 1..n : phs[k].id < next /\ new[k].id = phs[k].id
    BY <1>3 DEF WellPlaced, IdsIncrease, n
  <2>2. \A k \in 1..Len(new) : new[k].id < next + 1
    BY <1>4, <1>5, <1>6, <2>1
  <2>3. ASSUME NEW j \in 1..Len(new), NEW k \in 1..Len(new), j < k
        PROVE  new[j].id < new[k].id
    <3>1. j \in 1..n BY <1>3, <1>5, <2>3
    <3>2. CASE k \in 1..n
      BY <2>1, <2>3, <3>1, <3>2 DEF WellPlaced, IdsIncrease, n
    <3>3. CASE k = n + 1
      BY <2>1, <3>1, <3>3, <1>4
    <3> QED BY <1>6, <3>2, <3>3
  <2> QED BY <2>2, <2>3 DEF IdsIncrease
<1>8. ContentsInOrder(new, next + 1)
  <2> SUFFICES ASSUME NEW k \in 1..Len(new), NEW c \in 1..Len(new[k].contents)
               PROVE  /\ new[k].id <= new[k].contents[c]
                      /\ new[k].contents[c] < next + 1
                      /\ \A d \in 1..Len(new[k].contents) :
                           c < d => new[k].contents[c] <= new[k].contents[d]
    BY DEF ContentsInOrder
  <2>1. CASE k \in 1..n
    <3>1. new[k] = phs[k] /\ phs[k].contents[c] \in Nat
      BY <1>3, <1>5, <2>1
    <3>2. /\ phs[k].id <= phs[k].contents[c]
          /\ phs[k].contents[c] < next
          /\ \A d \in 1..Len(phs[k].contents) :
               c < d => phs[k].contents[c] <= phs[k].contents[d]
      BY <2>1, <3>1 DEF WellPlaced, ContentsInOrder, n
    <3> QED BY <3>1, <3>2
  <2>2. CASE k = n + 1
    BY <1>4, <2>2
  <2> QED BY <1>6, <2>1, <2>2
<1>9. ContentsBeforeNext(new)
  <2> SUFFICES ASSUME NEW j \in 1..Len(new), NEW k \in 1..Len(new), j < k,
                      NEW c \in 1..Len(new[j].contents)
               PROVE  new[j].contents[c] < new[k].id
    BY DEF ContentsBeforeNext
  <2>1. j \in 1..n /\ new[j] = phs[j]
    BY <1>3, <1>5
  <2>2. CASE k \in 1..n
    <3>1. new[k] = phs[k]
      BY <1>3, <2>2
    <3> QED BY <2>1, <2>2, <3>1 DEF WellPlaced, ContentsBeforeNext, n
  <2>3. CASE k = n + 1
    <3>1. phs[j].contents[c] < next
      BY <2>1 DEF WellPlaced, ContentsInOrder, n
    <3> QED BY <1>4, <2>1, <2>3, <3>1
  <2> QED BY <1>6, <2>2, <2>3
<1>10. KnownHaveBytes(new)
  BY <1>3, <1>4, <1>5, <1>6 DEF WellPlaced, KnownHaveBytes, n
<1> QED BY <1>2, <1>3, <1>7, <1>8, <1>9, <1>10 DEF WellPlaced, new, n


\* Erasing a placeholder moves the ones behind it and changes none.
LEMMA ErasePlaces ==
  ASSUME NEW phs \in Deques(Nat), NEW next \in Nat, WellPlaced(phs, next),
         NEW k \in 1..Len(phs)
  PROVE  /\ Erase(phs, k) \in Deques(Nat)
         /\ WellPlaced(Erase(phs, k), next)
         /\ Len(Erase(phs, k)) = Len(phs) - 1
<1> DEFINE n == Len(phs)
           new == Erase(phs, k)
           at(i) == IF i < k THEN i ELSE i + 1
<1>1. /\ n \in Nat
      /\ \A i \in 1..n : phs[i] \in PlaceholderOf(Nat)
      /\ \A i \in 1..n : phs[i].id \in Nat
      /\ \A i \in 1..n : \A c \in 1..Len(phs[i].contents) : phs[i].contents[c] \in Nat
  BY DequeElements
<1>2. /\ Len(new) = n - 1
      /\ \A i \in 1..(n - 1) : at(i) \in 1..n /\ new[i] = phs[at(i)]
      /\ \A i, j \in 1..(n - 1) : i < j => at(i) < at(j)
  BY <1>1 DEF Erase
<1>3. new \in Deques(Nat)
  BY <1>1 DEF Erase, Deques
<1> HIDE DEF new, n, at
<1>4. IdsIncrease(new, next) /\ KnownHaveBytes(new)
  BY <1>2 DEF WellPlaced, IdsIncrease, KnownHaveBytes, n
<1>5. ContentsInOrder(new, next)
  BY <1>2 DEF WellPlaced, ContentsInOrder, n
<1>6. ContentsBeforeNext(new)
  BY <1>2 DEF WellPlaced, ContentsBeforeNext, n
<1> QED BY <1>2, <1>3, <1>4, <1>5, <1>6 DEF WellPlaced, new, n

\* Filling a hole with bytes of its own ticket keeps every byte in its place;
\* with no bytes the placeholder leaves the deque.
LEMMA FulfillPlaces ==
  ASSUME NEW phs \in Deques(Nat), NEW next \in Nat, WellPlaced(phs, next),
         NEW k \in 1..Len(phs), NEW s, IsBytesOf(s, phs[k].id)
  PROVE  /\ FulfillAt(phs, k, s) \in Deques(Nat)
         /\ WellPlaced(FulfillAt(phs, k, s), next)
<1> DEFINE n == Len(phs)
           p == [phs[k] EXCEPT !.contentsKnown = TRUE, !.contents = s]
           new == [phs EXCEPT ![k] = p]
<1>1. CASE s = << >>
  BY <1>1, ErasePlaces DEF FulfillAt
<1>2. CASE s # << >>
  <2>1. /\ n \in Nat
        /\ DOMAIN phs = 1..n
        /\ \A i \in 1..n : phs[i] \in PlaceholderOf(Nat)
        /\ \A i \in 1..n : phs[i].id \in Nat
        /\ \A i \in 1..n : \A c \in 1..Len(phs[i].contents) : phs[i].contents[c] \in Nat
    BY DequeElements
  <2>2. s \in Seq(Nat) /\ \A c \in 1..Len(s) : s[c] = phs[k].id
    BY DEF IsBytesOf
  <2>3. Len(s) # 0
    BY <1>2, <2>2
  <2>a. /\ p \in PlaceholderOf(Nat)
        /\ p.id = phs[k].id /\ p.contentsKnown = TRUE /\ p.contents = s
    BY <2>1, <2>2 DEF PlaceholderOf
  <2>b. new = [phs EXCEPT ![k] = p] OBVIOUS
  <2> HIDE DEF p, new
  <2>c. /\ new \in Deques(Nat)
        /\ Len(new) = n
        /\ \A i \in 1..n : new[i] = IF i = k THEN p ELSE phs[i]
    BY <2>1, <2>a, <2>b DEF Deques
  <2> HIDE DEF n
  <2>4. /\ new \in Deques(Nat)
        /\ Len(new) = n
        /\ \A i \in 1..n : new[i].id = phs[i].id
        /\ \A i \in 1..n : i # k => new[i] = phs[i]
        /\ new[k].contentsKnown = TRUE
        /\ new[k].contents = s
    BY <2>a, <2>c DEF n
  <2>5. IdsIncrease(new, next)
    BY <2>4 DEF WellPlaced, IdsIncrease, n
  <2>6. ContentsInOrder(new, next)
    <3> SUFFICES ASSUME NEW i \in 1..n
                 PROVE  \A c \in 1..Len(new[i].contents) :
                          /\ new[i].id <= new[i].contents[c]
                          /\ new[i].contents[c] < next
                          /\ \A d \in 1..Len(new[i].contents) :
                               c < d => new[i].contents[c] <= new[i].contents[d]
      BY <2>4 DEF ContentsInOrder
    <3>1. CASE i = k
      <4>1. phs[k].id < next /\ phs[k].id \in Nat
        BY <2>1 DEF WellPlaced, IdsIncrease, n
      <4>2. new[i].contents = s /\ new[i].id = phs[k].id
        BY <2>4, <3>1
      <4> QED BY <2>2, <4>1, <4>2
    <3>2. CASE i # k
      <4>1. new[i] = phs[i]
        BY <2>4, <3>2
      <4> QED BY <4>1 DEF WellPlaced, ContentsInOrder, n
    <3> QED BY <3>1, <3>2
  <2>7. ContentsBeforeNext(new)
    <3> SUFFICES ASSUME NEW i \in 1..n, NEW j \in 1..n, i < j
                 PROVE  \A c \in 1..Len(new[i].contents) : new[i].contents[c] < new[j].id
      BY <2>4 DEF ContentsBeforeNext
    <3>1. CASE i = k
      <4>1. phs[i].id < phs[j].id
        BY DEF WellPlaced, IdsIncrease, n
      <4>2. new[i].contents = s /\ new[j].id = phs[j].id
        BY <2>4, <3>1
      <4> QED BY <2>2, <3>1, <4>1, <4>2
    <3>2. CASE i # k
      <4>1. new[i] = phs[i] /\ new[j].id = phs[j].id
        BY <2>4, <3>2
      <4> QED BY <4>1 DEF WellPlaced, ContentsBeforeNext, n
    <3> QED BY <3>1, <3>2
  <2>8. KnownHaveBytes(new)
    BY <2>3, <2>4 DEF WellPlaced, KnownHaveBytes, n
  <2> QED BY <1>2, <2>4, <2>5, <2>6, <2>7, <2>8 DEF WellPlaced, FulfillAt, new, p
<1> QED BY <1>1, <1>2

\* A string written with the next ticket lands behind every byte, whether it
\* joins the last placeholder or gets one of its own.
LEMMA OutputStringPlaces ==
  ASSUME NEW phs \in Deques(Nat), NEW next \in Nat, WellPlaced(phs, next),
         NEW s, IsBytesOf(s, next)
  PROVE  /\ OutputString(phs, next, s) \in Deques(Nat)
         /\ WellPlaced(OutputString(phs, next, s), next + 1)
<1> DEFINE n == Len(phs)
<1>1. CASE LastIsKnown(phs)
  <2> DEFINE p == [phs[n] EXCEPT !.contents = phs[n].contents \o s]
             new == [phs EXCEPT ![n] = p]
  <2>1. /\ n \in Nat
        /\ DOMAIN phs = 1..n
        /\ \A i \in 1..n : phs[i] \in PlaceholderOf(Nat)
        /\ \A i \in 1..n : phs[i].id \in Nat
        /\ \A i \in 1..n : phs[i].contents \in Seq(Nat)
        /\ \A i \in 1..n : \A c \in 1..Len(phs[i].contents) : phs[i].contents[c] \in Nat
    BY DequeElements
  <2>2. n \in 1..n /\ phs[n].contentsKnown
    BY <1>1, <2>1 DEF LastIsKnown, Deques
  <2>3. s \in Seq(Nat) /\ Len(s) \in Nat /\ \A c \in 1..Len(s) : s[c] = next
    BY DEF IsBytesOf
  <2> DEFINE m == Len(phs[n].contents)
  <2>4. /\ p \in PlaceholderOf(Nat)
        /\ p.id = phs[n].id
        /\ p.contentsKnown = phs[n].contentsKnown
        /\ p.contents = phs[n].contents \o s
    <3> DEFINE r == phs[n]
               t == r.contents \o s
    <3>1. r \in PlaceholderOf(Nat) /\ r.contents \in Seq(Nat)
      BY <2>1, <2>2
    <3>2. t \in Seq(Nat)
      BY <2>3, <3>1
    <3>3. p = [r EXCEPT !.contents = t]
      OBVIOUS
    <3> HIDE DEF p, r, t
    <3>4. p \in PlaceholderOf(Nat) /\ p.id = r.id
          /\ p.contentsKnown = r.contentsKnown /\ p.contents = t
      BY <3>1, <3>2, <3>3 DEF PlaceholderOf
    <3> QED BY <3>4 DEF r, t
  <2>5. /\ m \in Nat
        /\ Len(p.contents) = m + Len(s)
        /\ \A c \in 1..m : p.contents[c] = phs[n].contents[c]
        /\ \A c \in (m + 1)..(m + Len(s)) : p.contents[c] = next
    <3>1. phs[n].contents \in Seq(Nat)
      BY <2>1, <2>2
    <3> DEFINE a == phs[n].contents
    <3>2. /\ Len(a \o s) = Len(a) + Len(s)
          /\ \A c \in 1..Len(a) : (a \o s)[c] = a[c]
          /\ \A c \in (Len(a) + 1)..(Len(a) + Len(s)) : (a \o s)[c] = s[c - Len(a)]
          /\ Len(a) \in Nat
      <4> HIDE DEF a
      <4> a \in Seq(Nat) BY <3>1 DEF a
      <4> QED BY <2>3
    <3>3. \A c \in (Len(a) + 1)..(Len(a) + Len(s)) : c - Len(a) \in 1..Len(s)
      BY <2>3, <3>2
    <3> QED BY <2>3, <2>4, <3>2, <3>3
  <2>6. new = [phs EXCEPT ![n] = p] OBVIOUS
  <2> HIDE DEF p, new
  <2>7. /\ new \in Deques(Nat)
        /\ Len(new) = n
        /\ \A i \in 1..n : new[i] = IF i = n THEN p ELSE phs[i]
    <3>1. n \in 1..n BY <2>2
    <3> HIDE DEF n
    <3>2. DOMAIN new = 1..n /\ \A i \in 1..n : new[i] = IF i = n THEN p ELSE phs[i]
      BY <2>1, <2>6, <3>1
    <3>3. new \in Deques(Nat)
      BY <2>1, <2>4, <2>6, <3>1 DEF Deques
    <3>4. Len(new) = n
      BY <2>1, <3>2, <3>3 DEF Deques
    <3> QED BY <3>2, <3>3, <3>4
  <2> HIDE DEF n, m
  <2>8. /\ \A i \in 1..n : new[i].id = phs[i].id
        /\ \A i \in 1..n : i # n => new[i] = phs[i]
        /\ new[n] = p
    BY <2>2, <2>4, <2>7
  <2>9. \A i \in 1..n : phs[i].id < next
    BY DEF WellPlaced, IdsIncrease, n
  <2>10. \A c \in 1..Len(p.contents) :
           \/ c \in 1..m /\ p.contents[c] = phs[n].contents[c]
           \/ c > m /\ p.contents[c] = next
    BY <2>3, <2>5
  <2>11. IdsIncrease(new, next + 1)
    <3>1. \A i \in 1..n : new[i].id < next + 1
      BY <2>1, <2>8, <2>9
    <3>2. \A i, j \in 1..n : i < j => new[i].id < new[j].id
      BY <2>8 DEF WellPlaced, IdsIncrease, n
    <3> QED BY <2>7, <3>1, <3>2 DEF IdsIncrease
  <2>12. ContentsInOrder(new, next + 1)
    <3> SUFFICES ASSUME NEW i \in 1..n
                 PROVE  \A c \in 1..Len(new[i].contents) :
                          /\ new[i].id <= new[i].contents[c]
                          /\ new[i].contents[c] < next + 1
                          /\ \A d \in 1..Len(new[i].contents) :
                               c < d => new[i].contents[c] <= new[i].contents[d]
      BY <2>7 DEF ContentsInOrder
    <3>1. \A c \in 1..Len(phs[i].contents) :
            /\ phs[i].id <= phs[i].contents[c]
            /\ phs[i].contents[c] < next
            /\ \A d \in 1..Len(phs[i].contents) :
                 c < d => phs[i].contents[c] <= phs[i].contents[d]
      BY DEF WellPlaced, ContentsInOrder, n
    <3>2. CASE i = n
      <4> SUFFICES ASSUME NEW c \in 1..Len(p.contents)
                   PROVE  /\ p.id <= p.contents[c]
                          /\ p.contents[c] < next + 1
                          /\ \A d \in 1..Len(p.contents) :
                               c < d => p.contents[c] <= p.contents[d]
        BY <2>8, <3>2
      <4>1. CASE c \in 1..m
        <5>1. /\ p.contents[c] = phs[n].contents[c]
              /\ phs[n].id <= phs[n].contents[c]
              /\ phs[n].contents[c] < next
              /\ phs[n].contents[c] \in Nat
          BY <2>1, <2>2, <2>5, <3>1, <3>2, <4>1 DEF m
        <5>2. ASSUME NEW d \in 1..Len(p.contents), c < d
              PROVE  p.contents[c] <= p.contents[d]
          <6>1. CASE d \in 1..m
            BY <2>5, <3>1, <3>2, <4>1, <5>2, <6>1 DEF m
          <6>2. CASE d > m
            <7>1. p.contents[d] = next
              BY <2>5, <2>10, <6>2
            <7> QED BY <5>1, <7>1
          <6> QED BY <2>10, <6>1, <6>2
        <5> QED BY <2>4, <5>1, <5>2
      <4>2. CASE c > m
        <5>1. p.contents[c] = next
          BY <2>5, <2>10, <4>2
        <5>2. \A d \in 1..Len(p.contents) : c < d => p.contents[d] = next
          BY <2>5, <2>10, <4>2
        <5>3. p.id <= next
          BY <2>1, <2>2, <2>4, <2>9
        <5> QED BY <5>1, <5>2, <5>3
      <4> QED BY <2>10, <4>1, <4>2
    <3>3. CASE i # n
      <4>1. new[i] = phs[i]
        BY <2>8, <3>3
      <4>2. \A c \in 1..Len(phs[i].contents) : phs[i].contents[c] \in Nat
        BY <2>1
      <4> QED BY <3>1, <4>1, <4>2
    <3> QED BY <3>2, <3>3
  <2>13. ContentsBeforeNext(new)
    <3> SUFFICES ASSUME NEW i \in 1..n, NEW j \in 1..n, i < j
                 PROVE  \A c \in 1..Len(new[i].contents) : new[i].contents[c] < new[j].id
      BY <2>7 DEF ContentsBeforeNext
    <3>1. i # n
      BY <2>1
    <3> QED BY <2>8, <3>1 DEF WellPlaced, ContentsBeforeNext, n
  <2>14. KnownHaveBytes(new)
    <3>1. Len(p.contents) # 0
      BY <2>2, <2>3, <2>5 DEF WellPlaced, KnownHaveBytes, n, m
    <3> QED BY <2>2, <2>4, <2>7, <3>1 DEF WellPlaced, KnownHaveBytes, n
  <2>15. OutputString(phs, next, s) = new
    BY <1>1, Zenon DEF OutputString, new, p, n
  <2> QED BY <2>7, <2>11, <2>12, <2>13, <2>14, <2>15 DEF WellPlaced
<1>2. CASE ~LastIsKnown(phs)
  <2> DEFINE mid == OutputPlaceholder(phs, next)
  <2>1. /\ mid \in Deques(Nat)
        /\ WellPlaced(mid, next + 1)
        /\ Len(mid) = n + 1
        /\ mid[n + 1] = Hole(next)
    BY OutputPlaceholderPlaces
  <2>2. mid[n + 1].id = next /\ n + 1 \in 1..Len(mid)
    BY <2>1, DequeElements DEF Hole
  <2> HIDE DEF mid, n
  <2>3. /\ FulfillAt(mid, n + 1, s) \in Deques(Nat)
        /\ WellPlaced(FulfillAt(mid, n + 1, s), next + 1)
    BY <2>1, <2>2, FulfillPlaces
  <2> QED BY <1>2, <2>3 DEF OutputString, mid, n
<1> QED BY <1>1, <1>2

\* Sending the front placeholder leaves the rest in place, behind its bytes.
LEMMA TailPlaces ==
  ASSUME NEW phs \in Deques(Nat), NEW next \in Nat, WellPlaced(phs, next), phs # << >>
  PROVE  /\ Tail(phs) \in Deques(Nat)
         /\ WellPlaced(Tail(phs), next)
         /\ \A c \in 1..Len(phs[1].contents) : \A k \in 1..Len(Tail(phs)) :
              phs[1].contents[c] < Tail(phs)[k].id
<1> DEFINE n == Len(phs)
           new == Tail(phs)
<1>1. /\ n \in Nat \ {0}
      /\ Len(new) = n - 1
      /\ \A i \in 1..(n - 1) : i + 1 \in 1..n /\ new[i] = phs[i + 1]
      /\ new \in Deques(Nat)
  BY DEF Deques
<1> HIDE DEF new, n
<1>2. IdsIncrease(new, next)
  <2>1. \A i \in 1..(n - 1) : new[i].id < next
    BY <1>1 DEF WellPlaced, IdsIncrease, n
  <2>2. ASSUME NEW i \in 1..(n - 1), NEW j \in 1..(n - 1), i < j
        PROVE  new[i].id < new[j].id
    <3>1. i + 1 \in 1..n /\ j + 1 \in 1..n /\ i + 1 < j + 1
      BY <1>1, <2>2
    <3> QED BY <1>1, <3>1 DEF WellPlaced, IdsIncrease, n
  <2> QED BY <1>1, <2>1, <2>2 DEF IdsIncrease
<1>b. KnownHaveBytes(new)
  BY <1>1 DEF WellPlaced, KnownHaveBytes, n
<1>3. ContentsInOrder(new, next)
  BY <1>1 DEF WellPlaced, ContentsInOrder, n
<1>4. ContentsBeforeNext(new)
  <2>1. ASSUME NEW i \in 1..(n - 1), NEW j \in 1..(n - 1), i < j
        PROVE  \A c \in 1..Len(new[i].contents) : new[i].contents[c] < new[j].id
    <3>1. i + 1 \in 1..n /\ j + 1 \in 1..n /\ i + 1 < j + 1
      BY <1>1, <2>1
    <3> QED BY <1>1, <3>1 DEF WellPlaced, ContentsBeforeNext, n
  <2> QED BY <1>1, <2>1 DEF ContentsBeforeNext
<1>5. \A c \in 1..Len(phs[1].contents) : \A k \in 1..Len(new) :
        phs[1].contents[c] < new[k].id
  BY <1>1 DEF WellPlaced, ContentsBeforeNext, n
<1> QED BY <1>1, <1>2, <1>b, <1>3, <1>4, <1>5 DEF WellPlaced, new, n

-----------------------------------------------------------------------------

\* IndexOf finds the hole with a given id.
LEMMA IndexOfHole ==
  ASSUME NEW phs \in Deques(Nat), NEW t \in Holes(phs)
  PROVE  /\ IndexOf(phs, t) \in 1..Len(phs)
         /\ phs[IndexOf(phs, t)].id = t
<1>1. \E k \in DOMAIN phs : phs[k].id = t
  BY DEF Holes
<1>2. IndexOf(phs, t) \in DOMAIN phs /\ phs[IndexOf(phs, t)].id = t
  BY <1>1 DEF IndexOf
<1> QED BY <1>2, DequeElements

\* With distinct tickets, filling a hole removes it from the holes and leaves
\* the others; the ticket of no other placeholder is that of the hole.
LEMMA FulfillHoles ==
  ASSUME NEW phs \in Deques(Nat), NEW next \in Nat, WellPlaced(phs, next),
         NEW k \in 1..Len(phs), NEW s
  PROVE  Holes(FulfillAt(phs, k, s)) = Holes(phs) \ {phs[k].id}
<1> DEFINE n == Len(phs)
           new == FulfillAt(phs, k, s)
<1>1. /\ n \in Nat
      /\ DOMAIN phs = 1..n
      /\ \A i \in 1..n : phs[i] \in PlaceholderOf(Nat)
      /\ \A i \in 1..n : phs[i].id \in Nat
  BY DequeElements
<1>2. \A i \in 1..n : i # k => phs[i].id # phs[k].id
  <2> SUFFICES ASSUME NEW i \in 1..n, i # k PROVE phs[i].id # phs[k].id
    OBVIOUS
  <2>1. phs[i].id \in Nat /\ phs[k].id \in Nat
    BY <1>1
  <2>2. CASE i < k
    BY <2>1, <2>2 DEF WellPlaced, IdsIncrease
  <2>3. CASE k < i
    BY <2>1, <2>3 DEF WellPlaced, IdsIncrease
  <2> QED BY <1>1, <2>2, <2>3
<1>3. CASE s = << >>
  <2> DEFINE at(i) == IF i < k THEN i ELSE i + 1
  <2>1. new = Erase(phs, k)
    BY <1>3 DEF FulfillAt
  <2>2. /\ DOMAIN new = 1..(n - 1)
        /\ \A i \in 1..(n - 1) : at(i) \in 1..n /\ at(i) # k /\ new[i] = phs[at(i)]
    BY <1>1, <2>1 DEF Erase
  <2>3. \A i \in 1..n : i # k => \E j \in 1..(n - 1) : at(j) = i
    <3> SUFFICES ASSUME NEW i \in 1..n, i # k
                 PROVE  \E j \in 1..(n - 1) : at(j) = i
      OBVIOUS
    <3>1. CASE i < k
      <4>1. i \in 1..(n - 1) /\ at(i) = i BY <1>1, <3>1
      <4> QED BY <4>1
    <3>2. CASE i > k
      <4>1. i - 1 \in 1..(n - 1) /\ at(i - 1) = i BY <1>1, <3>2
      <4> QED BY <4>1
    <3> QED BY <1>1, <3>1, <3>2
  <2> HIDE DEF new, n, at
  <2>4. ASSUME NEW x \in Holes(new) PROVE x \in Holes(phs) \ {phs[k].id}
    <3>1. PICK i \in 1..(n - 1) : ~new[i].contentsKnown /\ new[i].id = x
      BY <2>2 DEF Holes
    <3>2. at(i) \in 1..n /\ at(i) # k /\ new[i] = phs[at(i)]
      BY <2>2
    <3> QED BY <1>1, <1>2, <3>1, <3>2 DEF Holes
  <2>5. ASSUME NEW x \in Holes(phs), x # phs[k].id PROVE x \in Holes(new)
    <3>1. PICK i \in 1..n : ~phs[i].contentsKnown /\ phs[i].id = x
      BY <1>1 DEF Holes
    <3>2. PICK j \in 1..(n - 1) : at(j) = i
      BY <2>3, <2>5, <3>1
    <3> QED BY <2>2, <3>1, <3>2 DEF Holes
  <2> QED BY <2>4, <2>5 DEF new
<1>4. CASE s # << >>
  <2> DEFINE p == [phs[k] EXCEPT !.contentsKnown = TRUE, !.contents = s]
  <2>1. p.id = phs[k].id /\ p.contentsKnown = TRUE
    BY <1>1 DEF PlaceholderOf
  <2>2. new = [phs EXCEPT ![k] = p]
    BY <1>4 DEF FulfillAt
  <2> HIDE DEF p, new
  <2>3. DOMAIN new = 1..n /\ \A i \in 1..n : new[i] = IF i = k THEN p ELSE phs[i]
    BY <1>1, <2>2
  <2> HIDE DEF n
  <2>4. ASSUME NEW x \in Holes(new) PROVE x \in Holes(phs) \ {phs[k].id}
    <3>1. PICK i \in 1..n : ~new[i].contentsKnown /\ new[i].id = x
      BY <2>3 DEF Holes
    <3>2. i # k /\ new[i] = phs[i]
      BY <2>1, <2>3, <3>1
    <3> QED BY <1>1, <1>2, <3>1, <3>2 DEF Holes
  <2>5. ASSUME NEW x \in Holes(phs), x # phs[k].id PROVE x \in Holes(new)
    <3>1. PICK i \in 1..n : ~phs[i].contentsKnown /\ phs[i].id = x
      BY <1>1 DEF Holes
    <3>2. i # k
      BY <2>5, <3>1
    <3> QED BY <2>3, <3>1, <3>2 DEF Holes
  <2> QED BY <2>4, <2>5 DEF new
<1> QED BY <1>3, <1>4

\* A reserved place is one more hole.
LEMMA OutputPlaceholderHoles ==
  ASSUME NEW phs \in Deques(Nat), NEW next \in Nat, WellPlaced(phs, next)
  PROVE  Holes(OutputPlaceholder(phs, next)) = Holes(phs) \union {next}
<1> DEFINE n == Len(phs)
           new == OutputPlaceholder(phs, next)
<1>1. /\ n \in Nat /\ DOMAIN phs = 1..n
      /\ Len(new) = n + 1
      /\ DOMAIN new = 1..(n + 1)
      /\ \A i \in 1..n : new[i] = phs[i]
      /\ new[n + 1].id = next /\ new[n + 1].contentsKnown = FALSE
  <2>1. /\ new \in Deques(Nat)
        /\ Len(new) = n + 1
        /\ \A i \in 1..n : new[i] = phs[i]
        /\ new[n + 1] = Hole(next)
    BY OutputPlaceholderPlaces
  <2>2. DOMAIN new = 1..Len(new)
    BY <2>1, DequeElements
  <2>3. n \in Nat /\ DOMAIN phs = 1..n
    BY DequeElements
  <2> QED BY <2>1, <2>2, <2>3 DEF Hole
<1> HIDE DEF new, n
<1>2. ASSUME NEW x \in Holes(new) PROVE x \in Holes(phs) \union {next}
  <2>1. PICK i \in 1..(n + 1) : ~new[i].contentsKnown /\ new[i].id = x
    BY <1>1 DEF Holes
  <2>2. CASE i = n + 1 BY <1>1, <2>1, <2>2
  <2>3. CASE i \in 1..n BY <1>1, <2>1, <2>3 DEF Holes
  <2> QED BY <1>1, <2>2, <2>3
<1>3. ASSUME NEW x \in Holes(phs) PROVE x \in Holes(new)
  <2>1. PICK i \in 1..n : ~phs[i].contentsKnown /\ phs[i].id = x
    BY <1>1 DEF Holes
  <2>2. i \in 1..(n + 1) BY <1>1
  <2> QED BY <1>1, <2>1, <2>2 DEF Holes
<1>4. next \in Holes(new)
  <2>1. n + 1 \in DOMAIN new BY <1>1
  <2> QED BY <1>1, <2>1 DEF Holes
<1> QED BY <1>2, <1>3, <1>4 DEF new

\* Writing a string neither makes nor fills a hole.
LEMMA OutputStringHoles ==
  ASSUME NEW phs \in Deques(Nat), NEW next \in Nat, WellPlaced(phs, next),
         NEW s, IsBytesOf(s, next)
  PROVE  Holes(OutputString(phs, next, s)) = Holes(phs)
<1> DEFINE n == Len(phs)
<1>1. CASE LastIsKnown(phs)
  <2> DEFINE p == [phs[n] EXCEPT !.contents = phs[n].contents \o s]
             new == [phs EXCEPT ![n] = p]
  <2>1. /\ n \in Nat /\ DOMAIN phs = 1..n
        /\ \A i \in 1..n : phs[i] \in PlaceholderOf(Nat)
    BY DequeElements
  <2>2. n \in 1..n /\ phs[n].contentsKnown
    BY <1>1, <2>1 DEF LastIsKnown, Deques
  <2>3. p.contentsKnown = phs[n].contentsKnown
    BY <2>1, <2>2 DEF PlaceholderOf
  <2>4. OutputString(phs, next, s) = new
    BY <1>1, Zenon DEF OutputString
  <2>5. new = [phs EXCEPT ![n] = p] OBVIOUS
  <2> HIDE DEF p, new
  <2>6. DOMAIN new = 1..n /\ \A i \in 1..n : new[i] = IF i = n THEN p ELSE phs[i]
    BY <2>1, <2>5
  <2> HIDE DEF n
  <2>7. \A i \in 1..n : ~new[i].contentsKnown <=> i # n /\ ~phs[i].contentsKnown
    BY <2>2, <2>3, <2>6
  <2>8. \A i \in 1..n : i # n => new[i].id = phs[i].id
    BY <2>6
  <2>9. \A i \in 1..n : ~phs[i].contentsKnown => i # n
    BY <2>2
  <2>10. ASSUME NEW x \in Holes(new) PROVE x \in Holes(phs)
    <3>1. PICK i \in 1..n : ~new[i].contentsKnown /\ new[i].id = x
      BY <2>6 DEF Holes
    <3> QED BY <2>1, <2>7, <2>8, <3>1 DEF Holes
  <2>11. ASSUME NEW x \in Holes(phs) PROVE x \in Holes(new)
    <3>1. PICK i \in 1..n : ~phs[i].contentsKnown /\ phs[i].id = x
      BY <2>1 DEF Holes
    <3> QED BY <2>6, <2>7, <2>8, <2>9, <3>1 DEF Holes
  <2> QED BY <2>4, <2>10, <2>11
<1>2. CASE ~LastIsKnown(phs)
  <2> DEFINE mid == OutputPlaceholder(phs, next)
  <2>1. /\ mid \in Deques(Nat)
        /\ WellPlaced(mid, next + 1)
        /\ Len(mid) = n + 1
        /\ mid[n + 1] = Hole(next)
    BY OutputPlaceholderPlaces
  <2>2. mid[n + 1].id = next /\ n + 1 \in 1..Len(mid)
    BY <2>1, DequeElements DEF Hole
  <2>3. Holes(mid) = Holes(phs) \union {next}
    BY OutputPlaceholderHoles
  <2>4. next \notin Holes(phs)
    <3>1. \A i \in 1..Len(phs) : phs[i].id < next
      BY DEF WellPlaced, IdsIncrease
    <3> QED BY <3>1, DequeElements DEF Holes
  <2> HIDE DEF mid, n
  <2>5. Holes(FulfillAt(mid, n + 1, s)) = Holes(mid) \ {next}
    BY <2>1, <2>2, FulfillHoles
  <2>6. OutputString(phs, next, s) = FulfillAt(mid, n + 1, s)
    BY <1>2 DEF OutputString, mid, n
  <2> QED BY <2>3, <2>4, <2>5, <2>6
<1> QED BY <1>1, <1>2

\* Sending a known front placeholder leaves the holes.
LEMMA TailHoles ==
  ASSUME NEW phs \in Deques(Nat), HasKnownWritesPending(phs)
  PROVE  Holes(Tail(phs)) = Holes(phs)
<1> DEFINE n == Len(phs)
           new == Tail(phs)
<1>1. /\ n \in Nat \ {0} /\ DOMAIN phs = 1..n
      /\ DOMAIN new = 1..(n - 1)
      /\ \A i \in 1..(n - 1) : i + 1 \in 1..n /\ new[i] = phs[i + 1]
      /\ phs[1].contentsKnown
  BY DEF Deques, HasKnownWritesPending
<1> HIDE DEF new, n
<1>2. ASSUME NEW x \in Holes(new) PROVE x \in Holes(phs)
  <2>1. PICK i \in 1..(n - 1) : ~new[i].contentsKnown /\ new[i].id = x
    BY <1>1 DEF Holes
  <2>2. i + 1 \in 1..n /\ new[i] = phs[i + 1] BY <1>1
  <2> QED BY <1>1, <2>1, <2>2 DEF Holes
<1>3. ASSUME NEW x \in Holes(phs) PROVE x \in Holes(new)
  <2>1. PICK i \in 1..n : ~phs[i].contentsKnown /\ phs[i].id = x
    BY <1>1 DEF Holes
  <2>2. i - 1 \in 1..(n - 1) /\ new[i - 1] = phs[i]
    BY <1>1, <2>1
  <2> QED BY <1>1, <2>1, <2>2 DEF Holes
<1> QED BY <1>2, <1>3 DEF new

-----------------------------------------------------------------------------

\* b lies before every placeholder of the deque.
Before(b, phs) == \A k \in 1..Len(phs) : b < phs[k].id

\* No operation puts a place before what lay before the whole deque.
LEMMA FulfillBefore ==
  ASSUME NEW phs \in Deques(Nat), NEW k \in 1..Len(phs), NEW s, NEW b \in Nat,
         Before(b, phs)
  PROVE  Before(b, FulfillAt(phs, k, s))
<1> DEFINE n == Len(phs)
           new == FulfillAt(phs, k, s)
<1>1. /\ n \in Nat
      /\ DOMAIN phs = 1..n
      /\ \A i \in 1..n : phs[i] \in PlaceholderOf(Nat)
  BY DequeElements
<1>2. CASE s = << >>
  <2>1. new = Erase(phs, k)
    BY <1>2 DEF FulfillAt
  <2>2. /\ Len(new) = n - 1
        /\ \A i \in 1..(n - 1) : \E j \in 1..n : new[i] = phs[j]
    BY <1>1, <2>1 DEF Erase
  <2> QED BY <2>2 DEF Before
<1>3. CASE s # << >>
  <2> DEFINE p == [phs[k] EXCEPT !.contentsKnown = TRUE, !.contents = s]
  <2>1. p.id = phs[k].id
    BY <1>1 DEF PlaceholderOf
  <2>2. new = [phs EXCEPT ![k] = p]
    BY <1>3 DEF FulfillAt
  <2> HIDE DEF p, new
  <2>3. Len(new) = n /\ \A i \in 1..n : new[i] = IF i = k THEN p ELSE phs[i]
    BY <1>1, <2>2 DEF Deques
  <2> QED BY <2>1, <2>3 DEF Before, new
<1> QED BY <1>2, <1>3

\* What lay before the deque lies before the new hole too, when its ticket is
\* later.
LEMMA OutputPlaceholderBefore ==
  ASSUME NEW phs \in Deques(Nat), NEW next \in Nat, WellPlaced(phs, next),
         NEW b \in Nat, b < next, Before(b, phs)
  PROVE  Before(b, OutputPlaceholder(phs, next))
<1> DEFINE new == OutputPlaceholder(phs, next)
<1>1. /\ Len(new) = Len(phs) + 1
      /\ \A i \in 1..Len(phs) : new[i] = phs[i]
      /\ new[Len(phs) + 1].id = next
  <2>1. new[Len(new)] = Hole(next) /\ Len(new) = Len(phs) + 1
        /\ \A i \in 1..Len(phs) : new[i] = phs[i]
    BY OutputPlaceholderPlaces
  <2> QED BY <2>1 DEF Hole
<1>2. \A i \in 1..(Len(phs) + 1) : i \in 1..Len(phs) \/ i = Len(phs) + 1
  BY DequeElements
<1> HIDE DEF new
<1>3. Before(b, new) BY <1>1, <1>2 DEF Before
<1> QED BY <1>3 DEF new

\* What lay before the deque lies before a string written with a later ticket.
LEMMA OutputStringBefore ==
  ASSUME NEW phs \in Deques(Nat), NEW next \in Nat, WellPlaced(phs, next),
         NEW s, IsBytesOf(s, next), NEW b \in Nat, b < next, Before(b, phs)
  PROVE  Before(b, OutputString(phs, next, s))
<1> DEFINE n == Len(phs)
<1>1. CASE LastIsKnown(phs)
  <2> DEFINE p == [phs[n] EXCEPT !.contents = phs[n].contents \o s]
             new == [phs EXCEPT ![n] = p]
  <2>1. /\ n \in Nat /\ DOMAIN phs = 1..n
        /\ \A i \in 1..n : phs[i] \in PlaceholderOf(Nat)
    BY DequeElements
  <2>2. n \in 1..n
    BY <1>1, <2>1 DEF LastIsKnown, Deques
  <2>3. p.id = phs[n].id
    BY <2>1, <2>2 DEF PlaceholderOf
  <2>4. OutputString(phs, next, s) = new
    BY <1>1, Zenon DEF OutputString
  <2>5. new = [phs EXCEPT ![n] = p] OBVIOUS
  <2> HIDE DEF p, new
  <2>6. Len(new) = n /\ \A i \in 1..n : new[i] = IF i = n THEN p ELSE phs[i]
    BY <2>1, <2>5 DEF Deques
  <2>7. Before(b, new)
    BY <2>3, <2>6 DEF Before
  <2> QED BY <2>4, <2>7
<1>2. CASE ~LastIsKnown(phs)
  <2> DEFINE mid == OutputPlaceholder(phs, next)
  <2>1. mid \in Deques(Nat) /\ Len(mid) = n + 1
    BY OutputPlaceholderPlaces
  <2>2. n + 1 \in 1..Len(mid)
    BY <2>1, DequeElements
  <2>3. Before(b, mid)
    BY OutputPlaceholderBefore
  <2> HIDE DEF mid, n
  <2>4. Before(b, FulfillAt(mid, n + 1, s))
    BY <2>1, <2>2, <2>3, FulfillBefore
  <2> QED BY <1>2, <2>4 DEF OutputString, mid, n
<1> QED BY <1>1, <1>2

\* What lay before the deque lies before what is left when its front is sent.
LEMMA TailBefore ==
  ASSUME NEW phs \in Deques(Nat), phs # << >>, NEW b \in Nat, Before(b, phs)
  PROVE  Before(b, Tail(phs))
<1>1. /\ Len(phs) \in Nat
      /\ Len(Tail(phs)) = Len(phs) - 1
      /\ \A i \in 1..(Len(phs) - 1) : i + 1 \in 1..Len(phs) /\ Tail(phs)[i] = phs[i + 1]
  BY DEF Deques
<1> QED BY <1>1 DEF Before

-----------------------------------------------------------------------------
(* The invariants.                                                         *)

\* What is on the wire lies before all of the deque.
WireBeforeDeque ==
  \A i \in 1..Len(bytesWrittenSoFar) :
    /\ bytesWrittenSoFar[i] < nextTicket
    /\ Before(bytesWrittenSoFar[i], placeholders)

\* Once an exception has unwound the callers, nobody holds a placeholder.
UnwoundHoldsNone == unwound => held = {}

IInv ==
  /\ TypeOK
  /\ WellPlaced(placeholders, nextTicket)
  /\ WireBeforeDeque
  /\ WireInOrder
  /\ HolesAreHeld
  /\ UnwoundHoldsNone

-----------------------------------------------------------------------------

\* The string a call writes is made of its ticket.
LEMMA BytesAreOfTicket ==
  ASSUME NEW t \in Nat, NEW n \in 0..MaxLength
  PROVE  IsBytesOf(Bytes(t, n), t)
<1>1. n \in Nat BY BoundsAssumption
<1> QED BY <1>1 DEF Bytes, IsBytesOf

\* What IInv says in the terms of the lemmas on deques.
LEMMA IInvFacts ==
  ASSUME IInv
  PROVE  /\ placeholders \in Deques(Nat)
         /\ nextTicket \in Nat
         /\ bytesWrittenSoFar \in Seq(Nat)
         /\ Len(bytesWrittenSoFar) \in Nat
         /\ DOMAIN bytesWrittenSoFar = 1..Len(bytesWrittenSoFar)
         /\ \A i \in 1..Len(bytesWrittenSoFar) : bytesWrittenSoFar[i] \in Nat
         /\ held \subseteq Nat
BY DEF IInv, TypeOK, Deques

\* A step that writes nothing and puts no place before what is on the wire.
LEMMA WireKept ==
  ASSUME IInv, UNCHANGED bytesWrittenSoFar,
         nextTicket' \in Nat, nextTicket <= nextTicket',
         \A b \in Nat : b < nextTicket /\ Before(b, placeholders)
                          => Before(b, placeholders')
  PROVE  WireBeforeDeque' /\ WireInOrder'
<1>1. WireInOrder'
  BY DEF IInv, WireInOrder
<1>2. ASSUME NEW i \in 1..Len(bytesWrittenSoFar)
      PROVE  /\ bytesWrittenSoFar[i] < nextTicket'
             /\ Before(bytesWrittenSoFar[i], placeholders')
  BY IInvFacts DEF IInv, WireBeforeDeque
<1> QED BY <1>1, <1>2 DEF WireBeforeDeque

\* A SockBuf just constructed, with an empty deque and nothing written,
\* satisfies the inductive invariant.
LEMMA InitIInv == Init => IInv
<1> SUFFICES ASSUME Init PROVE IInv OBVIOUS
<1>1. /\ placeholders = << >> /\ bytesWrittenSoFar = << >>
      /\ held = {} /\ nextTicket = 0
  BY DEF Init
<1>2. TypeOK
  <2>1. << >> \in Seq(PlaceholderOf(Nat)) /\ << >> \in Seq(Nat) OBVIOUS
  <2> QED BY <2>1 DEF Init, TypeOK
<1>3. WellPlaced(placeholders, nextTicket)
  BY <1>1 DEF WellPlaced, IdsIncrease, ContentsInOrder, ContentsBeforeNext, KnownHaveBytes
<1>4. WireBeforeDeque /\ WireInOrder
  BY <1>1 DEF WireBeforeDeque, WireInOrder
<1>5. Holes(placeholders) = {}
  BY <1>1 DEF Holes
<1> QED BY <1>1, <1>2, <1>3, <1>4, <1>5 DEF IInv, HolesAreHeld, UnwoundHoldsNone

\* outputPlaceholder reserves a place with a ticket later than every other's,
\* so the deque stays ordered and the new hole is the caller's.
LEMMA OutputPlaceholderStep ==
  ASSUME IInv, OutputPlaceholderCall
  PROVE  IInv'
<1>1. /\ WellPlaced(placeholders, nextTicket)
      /\ placeholders \in Deques(Nat) /\ nextTicket \in Nat /\ held \subseteq Nat
  BY IInvFacts DEF IInv
<1>2. /\ placeholders' = OutputPlaceholder(placeholders, nextTicket)
      /\ nextTicket' = nextTicket + 1 /\ held' = held \union {nextTicket}
      /\ UNCHANGED << sock, disconnected, bytesWrittenSoFar, unwound >>
      /\ ~unwound
  BY DEF OutputPlaceholderCall
<1>3. placeholders' \in Deques(Nat) /\ WellPlaced(placeholders', nextTicket')
  BY <1>1, <1>2, OutputPlaceholderPlaces
<1>4. TypeOK'
  BY <1>1, <1>2, <1>3 DEF IInv, TypeOK, Deques
<1>5. WireBeforeDeque' /\ WireInOrder'
  BY <1>1, <1>2, OutputPlaceholderBefore, WireKept
<1>6. Holes(placeholders') = Holes(placeholders) \union {nextTicket}
  BY <1>1, <1>2, OutputPlaceholderHoles
<1>7. HolesAreHeld' /\ UnwoundHoldsNone'
  BY <1>2, <1>6 DEF IInv, HolesAreHeld, UnwoundHoldsNone
<1> QED BY <1>3, <1>4, <1>5, <1>7 DEF IInv

\* fulfillPlaceholder fills the caller's hole, and no other, with bytes of its
\* own ticket, and the caller holds it no more.
LEMMA FulfillPlaceholderStep ==
  ASSUME IInv, NEW t \in held, NEW n \in 0..MaxLength, FulfillPlaceholderCall(t, n)
  PROVE  IInv'
<1> DEFINE k == IndexOf(placeholders, t)
<1>1. /\ WellPlaced(placeholders, nextTicket)
      /\ placeholders \in Deques(Nat) /\ nextTicket \in Nat /\ held \subseteq Nat
  BY IInvFacts DEF IInv
<1>2. /\ placeholders' = FulfillAt(placeholders, k, Bytes(t, n))
      /\ held' = held \ {t}
      /\ UNCHANGED << sock, disconnected, bytesWrittenSoFar, nextTicket, unwound >>
      /\ ~unwound
  BY DEF FulfillPlaceholderCall, FulfillPlaceholder
<1>3. held = Holes(placeholders)
  BY <1>2 DEF IInv, HolesAreHeld
<1>4. k \in 1..Len(placeholders) /\ placeholders[k].id = t
  BY <1>1, <1>3, IndexOfHole
<1>5. IsBytesOf(Bytes(t, n), t)
  BY <1>1, BytesAreOfTicket
<1> HIDE DEF k
<1>6. placeholders' \in Deques(Nat) /\ WellPlaced(placeholders', nextTicket')
  BY <1>1, <1>2, <1>4, <1>5, FulfillPlaces
<1>7. TypeOK'
  BY <1>1, <1>2, <1>6 DEF IInv, TypeOK, Deques
<1>8. WireBeforeDeque' /\ WireInOrder'
  <2>1. nextTicket' \in Nat /\ nextTicket <= nextTicket'
    BY <1>1, <1>2
  <2> QED BY <1>1, <1>2, <1>4, <2>1, FulfillBefore, WireKept
<1>9. Holes(placeholders') = Holes(placeholders) \ {t}
  BY <1>1, <1>2, <1>4, FulfillHoles
<1>10. HolesAreHeld' /\ UnwoundHoldsNone'
  BY <1>2, <1>3, <1>9 DEF IInv, HolesAreHeld, UnwoundHoldsNone
<1> QED BY <1>6, <1>7, <1>8, <1>10 DEF IInv

\* outputString's bytes land behind all others and make and fill no hole.
LEMMA OutputStringStep ==
  ASSUME IInv, NEW n \in 0..MaxLength, OutputStringCall(n)
  PROVE  IInv'
<1>1. /\ WellPlaced(placeholders, nextTicket)
      /\ placeholders \in Deques(Nat) /\ nextTicket \in Nat /\ held \subseteq Nat
  BY IInvFacts DEF IInv
<1>2. /\ placeholders' = OutputString(placeholders, nextTicket, Bytes(nextTicket, n))
      /\ nextTicket' = nextTicket + 1
      /\ UNCHANGED << sock, disconnected, bytesWrittenSoFar, held, unwound >>
      /\ ~unwound
  BY DEF OutputStringCall
<1>3. IsBytesOf(Bytes(nextTicket, n), nextTicket)
  BY <1>1, BytesAreOfTicket
<1>4. placeholders' \in Deques(Nat) /\ WellPlaced(placeholders', nextTicket')
  BY <1>1, <1>2, <1>3, OutputStringPlaces
<1>5. TypeOK'
  BY <1>1, <1>2, <1>4 DEF IInv, TypeOK, Deques
<1>6. WireBeforeDeque' /\ WireInOrder'
  <2>1. nextTicket' \in Nat /\ nextTicket <= nextTicket'
    BY <1>1, <1>2
  <2> QED BY <1>1, <1>2, <1>3, <2>1, OutputStringBefore, WireKept
<1>7. Holes(placeholders') = Holes(placeholders)
  BY <1>1, <1>2, <1>3, OutputStringHoles
<1>8. HolesAreHeld' /\ UnwoundHoldsNone'
  BY <1>2, <1>7 DEF IInv, HolesAreHeld, UnwoundHoldsNone
<1> QED BY <1>4, <1>5, <1>6, <1>8 DEF IInv

\* Sending the front placeholder puts on the wire what is next in order: every
\* place left in the deque comes later.
LEMMA SendFrontStep ==
  ASSUME IInv, SendFront
  PROVE  IInv'
<1> DEFINE out == placeholders[1].contents
           m == Len(bytesWrittenSoFar)
<1>1. /\ WellPlaced(placeholders, nextTicket)
      /\ placeholders \in Deques(Nat) /\ nextTicket \in Nat
      /\ bytesWrittenSoFar \in Seq(Nat)
  BY IInvFacts DEF IInv
<1>2. /\ HasKnownWritesPending(placeholders)
      /\ placeholders' = Tail(placeholders)
      /\ bytesWrittenSoFar' = bytesWrittenSoFar \o out
      /\ UNCHANGED << sock, disconnected, held, nextTicket, unwound >>
  <2>1. Head(placeholders) = placeholders[1]
    BY <1>1 DEF SendFront, HasKnownWritesPending, Deques
  <2> QED BY <2>1 DEF SendFront
<1>3. placeholders # << >> /\ 1 \in 1..Len(placeholders)
  BY <1>1, <1>2 DEF HasKnownWritesPending, Deques
<1>4. /\ placeholders' \in Deques(Nat) /\ WellPlaced(placeholders', nextTicket')
      /\ \A c \in 1..Len(out) : Before(out[c], placeholders')
  BY <1>1, <1>2, <1>3, TailPlaces DEF Before
<1>5. out \in Seq(Nat)
  BY <1>1, <1>3, DequeElements
<1>6. TypeOK'
  BY <1>1, <1>2, <1>4, <1>5 DEF IInv, TypeOK, Deques
<1>7. \A c \in 1..Len(out) :
        /\ placeholders[1].id <= out[c]
        /\ out[c] < nextTicket
        /\ \A d \in 1..Len(out) : c < d => out[c] <= out[d]
  BY <1>1, <1>3 DEF WellPlaced, ContentsInOrder
<1>8. placeholders[1].id \in Nat
  BY <1>1, <1>3, DequeElements
<1>9. /\ m \in Nat /\ Len(out) \in Nat
      /\ \A c \in 1..Len(out) : out[c] \in Nat
      /\ DOMAIN bytesWrittenSoFar' = 1..(m + Len(out))
      /\ Len(bytesWrittenSoFar') = m + Len(out)
      /\ \A i \in 1..(m + Len(out)) :
           bytesWrittenSoFar'[i] = IF i <= m THEN bytesWrittenSoFar[i] ELSE out[i - m]
  <2> HIDE DEF out
  <2>1. bytesWrittenSoFar \in Seq(Nat) /\ out \in Seq(Nat)
    BY <1>1, <1>5
  <2>2. \A s, t \in Seq(Nat) :
          /\ Len(s) \in Nat /\ Len(t) \in Nat
          /\ \A c \in 1..Len(t) : t[c] \in Nat
          /\ DOMAIN (s \o t) = 1..(Len(s) + Len(t))
          /\ Len(s \o t) = Len(s) + Len(t)
          /\ \A i \in 1..(Len(s) + Len(t)) :
               (s \o t)[i] = IF i <= Len(s) THEN s[i] ELSE t[i - Len(s)]
    OBVIOUS
  <2> QED BY <1>2, <2>1, <2>2
<1>10. \A i \in 1..m :
         /\ bytesWrittenSoFar[i] \in Nat
         /\ bytesWrittenSoFar[i] < nextTicket
         /\ bytesWrittenSoFar[i] < placeholders[1].id
         /\ Before(bytesWrittenSoFar[i], placeholders)
  BY <1>3, IInvFacts DEF IInv, WireBeforeDeque, Before
<1>11. \A i \in 1..m : Before(bytesWrittenSoFar[i], placeholders')
  BY <1>1, <1>2, <1>3, <1>10, TailBefore
<1> HIDE DEF out, m
<1>12. \A i \in 1..(m + Len(out)) : i \in 1..m \/ (i > m /\ i - m \in 1..Len(out))
  BY <1>9
<1>13. WireBeforeDeque'
  <2> SUFFICES ASSUME NEW i \in 1..(m + Len(out))
               PROVE  /\ bytesWrittenSoFar'[i] < nextTicket'
                      /\ Before(bytesWrittenSoFar'[i], placeholders')
    BY <1>9 DEF WireBeforeDeque
  <2>1. CASE i \in 1..m
    BY <1>2, <1>9, <1>10, <1>11, <2>1
  <2>2. CASE i > m /\ i - m \in 1..Len(out)
    BY <1>2, <1>4, <1>7, <1>9, <2>2
  <2> QED BY <1>12, <2>1, <2>2
<1>14. WireInOrder'
  <2> SUFFICES ASSUME NEW i \in 1..(m + Len(out)), NEW j \in 1..(m + Len(out)), i < j
               PROVE  bytesWrittenSoFar'[i] <= bytesWrittenSoFar'[j]
    BY <1>9 DEF WireInOrder
  <2>1. CASE j \in 1..m
    <3>1. i \in 1..m /\ i \in DOMAIN bytesWrittenSoFar /\ j \in DOMAIN bytesWrittenSoFar
      BY <1>1, <1>9, <2>1 DEF m
    <3> QED BY <1>9, <2>1, <3>1 DEF IInv, WireInOrder
  <2>2. CASE i \in 1..m /\ j > m /\ j - m \in 1..Len(out)
    <3>1. bytesWrittenSoFar'[i] = bytesWrittenSoFar[i] /\ bytesWrittenSoFar'[j] = out[j - m]
      BY <1>9, <2>2
    <3> QED BY <1>7, <1>8, <1>9, <1>10, <2>2, <3>1
  <2>3. CASE i > m /\ i - m \in 1..Len(out) /\ j > m /\ j - m \in 1..Len(out)
    <3>1. i - m < j - m
      BY <1>9
    <3>2. bytesWrittenSoFar'[i] = out[i - m] /\ bytesWrittenSoFar'[j] = out[j - m]
      BY <1>9, <2>3
    <3> QED BY <1>7, <2>3, <3>1, <3>2
  <2> QED BY <1>9, <1>12, <2>1, <2>2, <2>3
<1>15. HolesAreHeld' /\ UnwoundHoldsNone'
  BY <1>1, <1>2, TailHoles DEF IInv, HolesAreHeld, UnwoundHoldsNone
<1> QED BY <1>4, <1>6, <1>13, <1>14, <1>15 DEF IInv

\* A closed socket and an exception leave the stream as it is.
LEMMA StreamUnchangedStep ==
  ASSUME IInv, ShutdownAndClose \/ Unwind \/ UNCHANGED vars
  PROVE  IInv'
<1>1. UNCHANGED << placeholders, bytesWrittenSoFar, nextTicket >>
  BY DEF ShutdownAndClose, Unwind, vars
<1>2. TypeOK'
  BY DEF IInv, TypeOK, ShutdownAndClose, Unwind, vars
<1>3. WellPlaced(placeholders', nextTicket') /\ WireBeforeDeque' /\ WireInOrder'
  BY <1>1 DEF IInv, WireBeforeDeque, WireInOrder
<1>4. HolesAreHeld' /\ UnwoundHoldsNone'
  BY <1>1 DEF IInv, HolesAreHeld, UnwoundHoldsNone, ShutdownAndClose, Unwind, vars
<1> QED BY <1>2, <1>3, <1>4 DEF IInv

\* IInv is an invariant of the SockBuf.
THEOREM SockBufInvariant == Spec => []IInv
<1>1. IInv /\ [Next]_vars => IInv'
  <2> SUFFICES ASSUME IInv, [Next]_vars PROVE IInv'
    OBVIOUS
  <2>1. CASE OutputPlaceholderCall
    BY <2>1, OutputPlaceholderStep
  <2>2. CASE \E t \in held, n \in 0..MaxLength : FulfillPlaceholderCall(t, n)
    BY <2>2, FulfillPlaceholderStep
  <2>3. CASE \E n \in 0..MaxLength : OutputStringCall(n)
    BY <2>3, OutputStringStep
  <2>4. CASE SendFront
    BY <2>4, SendFrontStep
  <2>5. CASE ShutdownAndClose \/ Unwind \/ UNCHANGED vars
    BY <2>5, StreamUnchangedStep
  <2> QED BY <2>1, <2>2, <2>3, <2>4, <2>5 DEF Next
<1> QED BY <1>1, InitIInv, PTL DEF Spec

\* The members of a SockBuf keep their types.
THEOREM TypeCorrect == Spec => []TypeOK
<1>1. IInv => TypeOK BY DEF IInv
<1> QED BY <1>1, SockBufInvariant, PTL

\* Bytes go on the wire in the order in which their places were reserved.
THEOREM WireIsInOrder == Spec => []WireInOrder
<1>1. IInv => WireInOrder BY DEF IInv
<1> QED BY <1>1, SockBufInvariant, PTL

\* The placeholders callers hold are the holes of the deque, one each.
THEOREM EveryHoleIsHeld == Spec => []HolesAreHeld
<1>1. IInv => HolesAreHeld BY DEF IInv
<1> QED BY <1>1, SockBufInvariant, PTL

\* Nothing that belongs behind a hole is written while a caller holds it.
THEOREM NothingOvertakesAHole == Spec => []NothingPastAHole
<1>1. IInv => NothingPastAHole
  <2> SUFFICES ASSUME IInv, NEW h \in held, NEW i \in DOMAIN bytesWrittenSoFar
               PROVE  bytesWrittenSoFar[i] < h
    BY DEF NothingPastAHole
  <2>1. h \in Holes(placeholders)
    BY DEF IInv, HolesAreHeld, UnwoundHoldsNone
  <2>2. PICK k \in DOMAIN placeholders : placeholders[k].id = h
    BY <2>1 DEF Holes
  <2>3. k \in 1..Len(placeholders) /\ i \in 1..Len(bytesWrittenSoFar)
    BY IInvFacts, DequeElements
  <2> QED BY <2>2, <2>3 DEF IInv, WireBeforeDeque, Before
<1> QED BY <1>1, SockBufInvariant, PTL

\* A known placeholder has bytes to send: the send loop's
\* Assert(!contents.empty()) holds.
THEOREM KnownPlaceholdersHaveBytes == Spec => []KnownIsNonempty
<1>1. IInv => KnownIsNonempty
  <2> SUFFICES ASSUME IInv, NEW k \in DOMAIN placeholders
               PROVE  placeholders[k].contentsKnown <=> placeholders[k].contents # << >>
    BY DEF KnownIsNonempty
  <2>1. k \in 1..Len(placeholders) /\ placeholders[k].contents \in Seq(Nat)
    BY IInvFacts, DequeElements
  <2>2. placeholders[k].contentsKnown <=> Len(placeholders[k].contents) # 0
    BY <2>1 DEF IInv, WellPlaced, KnownHaveBytes
  <2> QED BY <2>1, <2>2
<1> QED BY <1>1, SockBufInvariant, PTL

-----------------------------------------------------------------------------
(* Steps of the stream, from how its cells change.                         *)

\* Cells added behind all others, free of holes, or one hole that is new.
LEMMA ExtendsStream ==
  ASSUME Pending \in Seq(Cells(Nat)), NEW e \in Seq(Cells(Nat)), e # << >>,
         Pending' = Pending \o e, Wire' = Wire,
         \/ \A i \in 1..Len(e) : ~IsHoleCell(e[i])
         \/ Len(e) = 1 /\ \A i \in 1..Len(Pending) : Pending[i] # e[1]
  PROVE  Stream!Extend
PROOF
<1>1. NewBehind(Pending, e)
  BY DEF NewBehind
<1>2. IsExtended(Pending, Pending')
  BY <1>1, ExtendedCells
<1> QED
  BY <1>2 DEF IsExtended, HolesAreNew, Stream!Extend, Stream!NewHolesBehind

\* A hole whose place takes cells that are no holes, possibly none.
LEMMA FillsStream ==
  ASSUME NEW x \in Seq(Cells(Nat)), NEW h \in Cells(Nat), NEW y \in Seq(Cells(Nat)),
         NEW b \in Seq(Cells(Nat)), IsHoleCell(h),
         Pending = (x \o << h >>) \o y, Pending' = (x \o b) \o y, Wire' = Wire,
         \A i \in 1..Len(b) : ~IsHoleCell(b[i])
  PROVE  Stream!Fill
PROOF
<1> DEFINE q == (x \o b) \o y
<1>1. << >> \in Seq(Cells(Nat)) /\ NewBehind(q, << >>)
  BY DEF NewBehind
<1>2. NoHoles(b)
  BY LenProperties DEF NoHoles
<1>3. q \in Seq(Cells(Nat)) /\ q \o << >> = q
  <2>1. x \o b \in Seq(Cells(Nat))
    BY ConcatProperties
  <2>2. q \in Seq(Cells(Nat))
    BY <2>1, ConcatProperties
  <2> HIDE DEF q
  <2> QED
    BY <2>2, ConcatEmptySeq
<1>4. IsFilled((x \o << h >>) \o y, q \o << >>)
  BY <1>1, <1>2, FilledCells
<1>5. IsFilled(Pending, Pending')
  BY <1>3, <1>4
<1> QED
  BY <1>5 DEF IsFilled, HolesAreNew, NoHoles, Stream!Fill, Stream!NewHolesBehind,
              Stream!HoleFree, Stream!From

\* Cells that are no holes go from the front of the stream to the wire.
LEMMA WritesStream ==
  ASSUME NEW b \in Seq(Cells(Nat)), NEW y \in Seq(Cells(Nat)), b # << >>,
         Pending = b \o y, Pending' = y, Wire' = Wire \o b,
         \A i \in 1..Len(b) : ~IsHoleCell(b[i])
  PROVE  Stream!Write
PROOF
<1>1. NoHoles(b)
  BY LenProperties DEF NoHoles
<1>2. IsWritten(Pending, b, Pending')
  BY <1>1, WrittenCells
<1> QED
  BY <1>2 DEF IsWritten, NoHoles, Stream!Write, Stream!HoleFree, Stream!From

-----------------------------------------------------------------------------
(* The steps of the SockBuf.                                               *)

\* What IInv says of the cells.
LEMMA StreamFacts ==
  ASSUME IInv
  PROVE  /\ Pending \in Seq(CellsBelow(Nat, nextTicket)) /\ Pending \in Seq(Cells(Nat))
         /\ Wire \in Seq(Cells(Nat))
PROOF
<1>1. /\ placeholders \in Deques(Nat) /\ nextTicket \in Nat /\ bytesWrittenSoFar \in Seq(Nat)
      /\ IdsBelow(placeholders, nextTicket)
  BY IInvFacts DEF IInv, WellPlaced, IdsIncrease, IdsBelow
<1>2. Pending \in Seq(CellsBelow(Nat, nextTicket))
  BY <1>1, CellsTyped DEF Pending
<1>3. Pending \in Seq(Cells(Nat))
  BY <1>1, CellsConcat DEF Pending
<1> QED
  BY <1>1, <1>2, <1>3, ByteCellsFacts DEF Wire

\* A SockBuf just constructed is an empty stream.
LEMMA InitStream == Init => Stream!Init
PROOF
<1> SUFFICES ASSUME Init PROVE Stream!Init
  OBVIOUS
<1>1. placeholders = << >> /\ bytesWrittenSoFar = << >>
  BY DEF Init
<1>2. Wire = << >>
  BY <1>1 DEF Wire, ByteCells
<1>3. Hole(0) \in PlaceholderOf(Nat)
  BY DEF Hole, PlaceholderOf
<1>4. Pending = << >>
  BY <1>1, <1>3, CellsOfShort DEF Pending
<1>5. Stream!HoleFree(Wire)
  BY <1>2 DEF Stream!HoleFree
<1> QED
  BY <1>4, <1>5 DEF Stream!Init

\* outputPlaceholder adds one hole, whose ticket no other has.
LEMMA OutputPlaceholderStream ==
  ASSUME IInv, OutputPlaceholderCall
  PROVE  Stream!Extend
PROOF
<1> DEFINE h == HoleCell(nextTicket)
           next == nextTicket
<1>1. /\ placeholders' = Append(placeholders, Hole(next))
      /\ bytesWrittenSoFar' = bytesWrittenSoFar
  BY DEF OutputPlaceholderCall, OutputPlaceholder
<1>2. placeholders \in Deques(Nat) /\ next \in Nat
  BY IInvFacts
<1>3. Hole(next) \in PlaceholderOf(Nat) /\ CellsOf(Hole(next)) = << h >>
  BY <1>2 DEF Hole, PlaceholderOf, CellsOf
<1>4. placeholders' = placeholders \o << Hole(next) >> /\ << Hole(next) >> \in Deques(Nat)
  BY <1>1, <1>2, <1>3, AppendIsConcat DEF Deques
<1>5. Pending' = Pending \o << h >>
  <2>1. CellsOfAll(placeholders \o << Hole(next) >>)
          = CellsOfAll(placeholders) \o CellsOfAll(<< Hole(next) >>)
    BY <1>2, <1>4, CellsConcat, Zenon
  <2>2. CellsOfAll(<< Hole(next) >>) = << h >>
    BY <1>3, CellsOfShort
  <2> QED
    BY <1>4, <2>1, <2>2 DEF Pending
<1>6. Wire' = Wire
  BY <1>1 DEF Wire
<1>7. h \in Cells(Nat) /\ h \notin CellsBelow(Nat, next)
  BY <1>2 DEF Cells, CellsBelow, HoleCell, ByteCell
<1>8. Pending \in Seq(CellsBelow(Nat, next)) /\ Pending \in Seq(Cells(Nat))
  BY StreamFacts
<1> HIDE DEF h, next
<1>9. \A i \in 1..Len(Pending) : Pending[i] # h
  BY <1>7, <1>8, ElementOfSeq
<1>10. << h >> \in Seq(Cells(Nat)) /\ << h >> # << >> /\ Len(<< h >>) = 1 /\ << h >>[1] = h
  BY <1>7
<1> QED
  BY <1>5, <1>6, <1>8, <1>9, <1>10, ExtendsStream

\* fulfillPlaceholder fills the hole of its caller.
LEMMA FulfillPlaceholderStream ==
  ASSUME IInv, NEW t \in held, NEW n \in 0..MaxLength, FulfillPlaceholderCall(t, n)
  PROVE  Stream!Fill
PROOF
<1> DEFINE k == IndexOf(placeholders, t)
           s == Bytes(t, n)
           b == ByteCells(s)
<1>1. /\ placeholders' = FulfillAt(placeholders, k, s)
      /\ bytesWrittenSoFar' = bytesWrittenSoFar /\ ~unwound
  BY DEF FulfillPlaceholderCall, FulfillPlaceholder
<1>2. /\ placeholders \in Deques(Nat) /\ nextTicket \in Nat /\ held \subseteq Nat
      /\ WellPlaced(placeholders, nextTicket) /\ held = Holes(placeholders)
  BY <1>1, IInvFacts DEF IInv, HolesAreHeld
<1>3. k \in 1..Len(placeholders) /\ placeholders[k].id = t /\ ~placeholders[k].contentsKnown
  <2>1. t \in Holes(placeholders) /\ placeholders \in Deques(Nat)
    BY <1>2
  <2>2. k \in 1..Len(placeholders) /\ placeholders[k].id = t
    BY <2>1, IndexOfHole
  <2>3. PICK j \in 1..Len(placeholders) :
          placeholders[j].id = t /\ ~placeholders[j].contentsKnown
    BY <1>2, <2>1, DequeElements DEF Holes
  <2> HIDE DEF k
  <2>4. \A i \in 1..Len(placeholders) : placeholders[i].id \in Nat
    BY <1>2, DequeElements
  <2>5. j = k
    BY <1>2, <2>2, <2>3, <2>4 DEF WellPlaced, IdsIncrease
  <2> QED
    BY <2>2, <2>3, <2>5
<1>4. s \in Seq(Nat)
  BY <1>2, BytesAreOfTicket DEF IsBytesOf
<1> HIDE DEF k, s
<1>5. CellsOf(placeholders[k]) = << HoleCell(t) >>
  BY <1>3 DEF CellsOf
<1> DEFINE x == CellsBefore(placeholders, k)
           y == CellsBehind(placeholders, k)
<1>6. /\ x \in Seq(Cells(Nat)) /\ y \in Seq(Cells(Nat))
      /\ CellsOfAll(placeholders) = (x \o CellsOf(placeholders[k])) \o y
      /\ CellsOfAll(FulfillAt(placeholders, k, s)) = (x \o b) \o y
  <2>1. x \in Seq(Cells(Nat)) /\ y \in Seq(Cells(Nat))
    BY <1>2, <1>3, <1>4, FulfillCells
  <2>2. CellsOfAll(placeholders) = CellsWith(placeholders, k, CellsOf(placeholders[k]))
    BY <1>2, <1>3, <1>4, FulfillCells
  <2>3. CellsOfAll(FulfillAt(placeholders, k, s)) = CellsWith(placeholders, k, b)
    BY <1>2, <1>3, <1>4, FulfillCells
  <2> QED
    BY <2>1, <2>2, <2>3, Zenon DEF CellsWith
<1> HIDE DEF x, y
<1>7. b \in Seq(Cells(Nat)) /\ \A i \in 1..Len(b) : ~IsHoleCell(b[i])
  BY <1>4, ByteCellsFacts
<1>8. HoleCell(t) \in Cells(Nat) /\ IsHoleCell(HoleCell(t))
  BY <1>2, CellFacts
<1> HIDE DEF b
<1>9. Pending = (x \o << HoleCell(t) >>) \o y /\ Pending' = (x \o b) \o y
  BY <1>1, <1>5, <1>6 DEF Pending
<1>10. Wire' = Wire
  BY <1>1 DEF Wire
<1> QED
  BY <1>6, <1>7, <1>8, <1>9, <1>10, FillsStream

\* outputString adds its bytes; an empty string adds none.
LEMMA OutputStringStream ==
  ASSUME IInv, NEW n \in 0..MaxLength, OutputStringCall(n)
  PROVE  Stream!Extend \/ UNCHANGED << Wire, Pending >>
PROOF
<1> DEFINE s == Bytes(nextTicket, n)
           b == ByteCells(s)
<1>1. /\ placeholders' = OutputString(placeholders, nextTicket, s)
      /\ bytesWrittenSoFar' = bytesWrittenSoFar
  BY DEF OutputStringCall
<1>2. placeholders \in Deques(Nat) /\ nextTicket \in Nat
  BY IInvFacts
<1>3. s \in Seq(Nat)
  BY <1>2, BytesAreOfTicket DEF IsBytesOf
<1> HIDE DEF s
<1>4. Pending' = Pending \o b
  BY <1>1, <1>2, <1>3, OutputStringCells DEF Pending
<1>5. Wire' = Wire
  BY <1>1 DEF Wire
<1>6. b \in Seq(Cells(Nat)) /\ \A i \in 1..Len(b) : ~IsHoleCell(b[i])
  BY <1>3, ByteCellsFacts
<1>7. Pending \in Seq(Cells(Nat))
  BY StreamFacts
<1> HIDE DEF b
<1>8. CASE b # << >>
  BY <1>4, <1>5, <1>6, <1>7, <1>8, ExtendsStream
<1>9. CASE b = << >>
  <2>1. Pending' = Pending
    BY <1>4, <1>7, <1>9, ConcatEmptySeq
  <2> QED
    BY <1>5, <2>1
<1> QED
  BY <1>8, <1>9

\* The send loop writes the bytes of the front placeholder.
LEMMA SendFrontStream ==
  ASSUME IInv, SendFront
  PROVE  Stream!Write
PROOF
<1> DEFINE p == placeholders[1]
           rest == Tail(placeholders)
           b == ByteCells(p.contents)
<1>1. /\ placeholders # << >> /\ p.contentsKnown
      /\ bytesWrittenSoFar' = bytesWrittenSoFar \o p.contents
      /\ placeholders' = rest
  <2>1. /\ placeholders # << >> /\ p.contentsKnown
        /\ bytesWrittenSoFar' = bytesWrittenSoFar \o Head(placeholders).contents
        /\ placeholders' = rest
    BY DEF SendFront, HasKnownWritesPending
  <2>2. Head(placeholders) = p
    BY <2>1, IInvFacts DEF Deques
  <2> QED
    BY <2>1, <2>2
<1>2. /\ placeholders \in Deques(Nat) /\ bytesWrittenSoFar \in Seq(Nat)
      /\ KnownHaveBytes(placeholders)
  BY IInvFacts DEF IInv, WellPlaced
<1>3. /\ 1 \in 1..Len(placeholders) /\ Len(placeholders) \in Nat
      /\ p \in PlaceholderOf(Nat)
  <2>1. Len(placeholders) \in Nat /\ Len(placeholders) # 0
    BY <1>1, <1>2 DEF Deques
  <2>2. 1 \in 1..Len(placeholders)
    BY <2>1
  <2> QED
    BY <1>2, <2>1, <2>2, DequeElements
<1>4. p.contents \in Seq(Nat) /\ p.contents # << >>
  <2>1. p.contents \in Seq(Nat)
    BY <1>3 DEF PlaceholderOf
  <2>2. Len(p.contents) # 0
    BY <1>1, <1>3 , <1>2 DEF KnownHaveBytes
  <2> QED
    BY <2>1, <2>2
<1>5. placeholders = << p >> \o rest /\ << p >> \in Deques(Nat) /\ rest \in Deques(Nat)
  <2> DEFINE A == SubSeq(placeholders, 1, 1 - 1)
             B == SubSeq(placeholders, 1 + 1, Len(placeholders))
  <2>1. A \in Deques(Nat) /\ B \in Deques(Nat) /\ placeholders = (A \o << p >>) \o B
    BY <1>2, <1>3, Surrounded
  <2>2. A = << >>
    BY <1>2, <1>3 DEF Deques
  <2>3. B = rest
    BY <1>1, <1>2, TailIsSubSeq DEF Deques
  <2>4. << p >> \in Seq(PlaceholderOf(Nat))
    BY <1>3
  <2> HIDE DEF A, B, rest, p
  <2>5. << >> \o << p >> = << p >>
    BY <2>4, ConcatEmptySeq
  <2> QED
    BY <2>1, <2>2, <2>3, <2>4, <2>5 DEF Deques
<1> HIDE DEF rest
<1>6. CellsOfAll(placeholders) = b \o CellsOfAll(rest)
  <2>1. CellsOfAll(<< p >>) = b
    BY <1>1, <1>3, CellsOfShort DEF CellsOf
  <2>2. CellsOfAll(<< p >> \o rest) = CellsOfAll(<< p >>) \o CellsOfAll(rest)
    BY <1>5, CellsConcat, Zenon
  <2> QED
    BY <1>5, <2>1, <2>2
<1>7. /\ b \in Seq(Cells(Nat)) /\ b # << >> /\ \A i \in 1..Len(b) : ~IsHoleCell(b[i])
      /\ CellsOfAll(rest) \in Seq(Cells(Nat))
  <2>1. /\ b \in Seq(Cells(Nat)) /\ Len(b) = Len(p.contents)
        /\ \A i \in 1..Len(p.contents) : ~IsHoleCell(b[i])
    BY <1>4, ByteCellsFacts
  <2>2. Len(p.contents) # 0
    BY <1>4, EmptySeq
  <2>3. CellsOfAll(rest) \in Seq(Cells(Nat))
    BY <1>5, CellsConcat
  <2> HIDE DEF b, p
  <2>4. b # << >>
    BY <2>1, <2>2
  <2> QED
    BY <2>1, <2>3, <2>4
<1>8. Wire' = Wire \o b
  <2>1. ByteCells(bytesWrittenSoFar \o p.contents) = ByteCells(bytesWrittenSoFar) \o b
    BY <1>2, <1>4, ByteCellsConcat, Zenon
  <2> QED
    BY <1>1, <2>1 DEF Wire
<1> HIDE DEF b
<1>9. Pending = b \o CellsOfAll(rest) /\ Pending' = CellsOfAll(rest)
  BY <1>1, <1>6 DEF Pending
<1> QED
  BY <1>7, <1>8, <1>9, WritesStream

\* Every step of a SockBuf is a step of the stream of its cells, or leaves the
\* stream alone, as closing the socket and an exception do.
LEMMA StepStream ==
  ASSUME IInv, [Next]_vars
  PROVE  [Stream!Next]_<< Wire, Pending >>
PROOF
<1>1. CASE OutputPlaceholderCall
  BY <1>1, OutputPlaceholderStream DEF Stream!Next
<1>2. ASSUME NEW t \in held, NEW n \in 0..MaxLength, FulfillPlaceholderCall(t, n)
      PROVE  Stream!Next
  BY <1>2, FulfillPlaceholderStream DEF Stream!Next
<1>3. ASSUME NEW n \in 0..MaxLength, OutputStringCall(n)
      PROVE  Stream!Next \/ UNCHANGED << Wire, Pending >>
  BY <1>3, OutputStringStream DEF Stream!Next
<1>4. CASE SendFront
  BY <1>4, SendFrontStream DEF Stream!Next
<1>5. CASE ShutdownAndClose \/ Unwind \/ UNCHANGED vars
  <2>1. placeholders' = placeholders /\ bytesWrittenSoFar' = bytesWrittenSoFar
    BY <1>5 DEF ShutdownAndClose, Unwind, vars
  <2>2. UNCHANGED << Wire, Pending >>
    BY <2>1 DEF Wire, Pending
  <2> QED
    BY <2>2
<1> QED
  BY <1>1, <1>2, <1>3, <1>4, <1>5 DEF Next

\* The deque of placeholders, its merging and erasing, and the send loop
\* together are an output stream with holes: whatever the callers reserve, fill
\* and write, no byte is lost, doubled or moved, or overtakes a hole.
THEOREM SockBufIsAStreamWithHoles == Spec => ImplementsHoleStream
PROOF
<1>1. IInv /\ [Next]_vars => [Stream!Next]_(Stream!hsvars)
  BY StepStream DEF Stream!hsvars
<1> QED
  BY <1>1, InitStream, SockBufInvariant, PTL
     DEF Spec, ImplementsHoleStream, Stream!HSpec

=============================================================================
