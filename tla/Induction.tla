------------------------------ MODULE Induction ------------------------------
(***************************************************************************)
(* Induction, and what it shows of functions that are defined by recursion *)
(* and of FlattenSeq, which is one.                                        *)
(*                                                                         *)
(* Induction over the numbers has a set in the place of a predicate: the   *)
(* library's induction theorems take an operator as a parameter, which the *)
(* provers in use cannot instantiate.  It rests on the strict inclusion of *)
(* finite sets, which the library shows to be well-founded.                *)
(*                                                                         *)
(* FlattenSeq of a sequence of sequences is the last value of a recursive  *)
(* function, of which it must first be shown that there is one.  It is     *)
(* unique, so any function that adds up the members gives the flattening.  *)
(*                                                                         *)
(* With it, what SockBufProofs and ParasockProofs need of output streams:  *)
(* the cells of a deque of placeholders after each operation on it, and    *)
(* that every change of the deque, those of a whole run of a filter that   *)
(* reserves and fills holes included, extends the stream of its cells or   *)
(* fills a hole of it and extends it.                                      *)
(***************************************************************************)
EXTENDS StreamCells, FiniteSetTheorems, SequenceTheorems, TLAPS

\* Every set of numbers has a least one: of the sets 0..y, y in T, one is minimal.
LEMMA Minimum ==
  ASSUME NEW T, T \subseteq Nat, T # {}
  PROVE  \E x \in T : \A y \in T : x <= y
PROOF
<1> DEFINE R == StrictSubsetOrdering(Nat)
           Fam == { 0..y : y \in T }
<1>1. IsWellFoundedOn(R, FiniteSubsetsOf(Nat))
  BY FS_StrictSubsetOrderingWellFounded
<1>2. Fam \subseteq FiniteSubsetsOf(Nat) /\ Fam # {}
  <2>1. ASSUME NEW y \in T PROVE 0..y \in FiniteSubsetsOf(Nat)
    BY FS_Interval DEF FiniteSubsetsOf
  <2> QED
    BY <2>1
<1>3. \E F \in Fam : \A G \in Fam : ~ (<< G, F >> \in R)
  <2> HIDE DEF R, Fam
  <2> QED
    BY <1>1, <1>2, WFMin
<1>4. PICK x \in T : \A y \in T : ~ (<< 0..y, 0..x >> \in R)
  BY <1>3
<1>5. ASSUME NEW y \in T, ~(x <= y)
      PROVE  FALSE
  <2>1. x \in Nat /\ y \in Nat /\ y < x
    BY <1>5
  <2>2. 0..y \subseteq 0..x /\ x \in 0..x /\ x \notin 0..y
    BY <2>1
  <2>3. 0..y # 0..x
    BY <2>2
  <2>4. 0..y \in SUBSET Nat /\ 0..x \in SUBSET Nat
    BY <2>1
  <2>5. << 0..y, 0..x >> \in R
    BY <2>2, <2>3, <2>4 DEF StrictSubsetOrdering
  <2> QED
    BY <1>4, <2>5
<1> QED
  BY <1>5

\* Induction over the numbers, with a set in the place of the predicate.
LEMMA SetInduction ==
  ASSUME NEW P, 0 \in P, \A n \in Nat : n \in P => n + 1 \in P
  PROVE  Nat \subseteq P
PROOF
<1> SUFFICES ASSUME Nat \ P # {} PROVE FALSE
  OBVIOUS
<1>1. PICK x \in Nat \ P : \A y \in Nat \ P : x <= y
  BY Minimum
<1>2. x # 0
  OBVIOUS
<1>3. x - 1 \in Nat /\ x - 1 < x /\ x - 1 + 1 = x
  BY <1>2
<1>4. x - 1 \in P
  BY <1>1, <1>3
<1> QED
  BY <1>3, <1>4

-----------------------------------------------------------------------------
(* Cuts of sequences.                                                      *)

\* A part of a sequence, given by its members.
LEMMA Piece ==
  ASSUME NEW S, NEW s \in Seq(S), NEW u \in Seq(S), NEW m \in Nat,
         m + Len(u) <= Len(s), \A i \in 1..Len(u) : s[m + i] = u[i]
  PROVE  SubSeq(s, m + 1, m + Len(u)) = u
PROOF
<1> DEFINE n == Len(u)
           p == SubSeq(s, m + 1, m + n)
<1>1. n \in Nat /\ Len(s) \in Nat /\ \A i \in 1..Len(s) : s[i] \in S
  BY LenProperties, ElementOfSeq
<1>2. \A i \in (m + 1)..(m + n) : s[i] \in S
  BY <1>1
<1>3. /\ p \in Seq(S)
      /\ Len(p) = IF m + 1 <= m + n THEN (m + n) - (m + 1) + 1 ELSE 0
      /\ \A i \in 1..((m + n) - (m + 1) + 1) : p[i] = s[(m + 1) + i - 1]
  <2> HIDE DEF n
  <2> QED
    BY <1>1, <1>2, SubSeqProperties
<1> HIDE DEF p
<1>4. Len(p) = n
  BY <1>1, <1>3
<1>5. \A i \in 1..n : p[i] = u[i]
  <2> SUFFICES ASSUME NEW i \in 1..n PROVE p[i] = u[i]
    OBVIOUS
  <2>1. p[i] = s[(m + 1) + i - 1] /\ (m + 1) + i - 1 = m + i
    BY <1>1, <1>3
  <2> QED
    BY <2>1
<1>6. p = u
  BY <1>3, <1>4, <1>5, SeqEqual
<1> QED
  BY <1>6 DEF p

-----------------------------------------------------------------------------
(* Recursion.                                                              *)

\* On 0..n, f goes on from each value to the next by a step.
GoesOnBy(f, start, step, n) ==
    f[0] = start /\ \A j \in 1..n : f[j] = step[<< f[j - 1], j >>]

\* There is such a function, so a recursive definition has a value.
LEMMA Recursion ==
  ASSUME NEW T, NEW start \in T, NEW n \in Nat, NEW step \in [T \X (1..n) -> T]
  PROVE  \E f \in [0..n -> T] : GoesOnBy(f, start, step, n)
PROOF
<1> DEFINE Upto(f, k) == /\ f[0] = start
                         /\ \A j \in 0..k : f[j] \in T
                         /\ \A j \in 1..k : f[j] = step[<< f[j - 1], j >>]
           P == { k \in Nat : k <= n => \E f : Upto(f, k) }
<1>1. 0 \in P
  <2> DEFINE z == [j \in {0} |-> start]
  <2>1. z[0] = start /\ 0 \in Nat /\ (\A j \in 0..0 : j = 0) /\ (\A j \in 1..0 : FALSE)
    OBVIOUS
  <2> HIDE DEF z
  <2>2. Upto(z, 0)
    BY <2>1
  <2> QED
    BY <2>1, <2>2
<1>2. ASSUME NEW k \in Nat, k \in P PROVE k + 1 \in P
  <2> SUFFICES ASSUME k + 1 <= n PROVE \E f : Upto(f, k + 1)
    <3>1. k + 1 \in Nat
      OBVIOUS
    <3> HIDE DEF Upto
    <3> QED
      BY <3>1
  <2>1. PICK f : Upto(f, k)
    <3>1. k <= n
      OBVIOUS
    <3> HIDE DEF Upto
    <3> QED
      BY <1>2, <3>1
  <2> DEFINE t == step[<< f[k], k + 1 >>]
             h == [j \in 0..(k + 1) |-> IF j <= k THEN f[j] ELSE t]
  <2>2. t \in T
    <3>1. f[k] \in T /\ k + 1 \in 1..n
      BY <2>1
    <3> QED
      BY <3>1
  <2>3. h[k + 1] = t /\ \A j \in 0..k : h[j] = f[j]
    <3> HIDE DEF t
    <3> QED
      OBVIOUS
  <2>4. /\ \A j \in 0..(k + 1) : j \in 0..k \/ j = k + 1
        /\ \A j \in 1..(k + 1) : \/ j \in 1..k /\ j - 1 \in 0..k /\ j \in 0..k
                                 \/ j = k + 1 /\ j - 1 = k /\ k \in 0..k
    OBVIOUS
  <2> HIDE DEF h
  <2>5. \A j \in 0..(k + 1) : h[j] \in T
    BY <2>1, <2>2, <2>3, <2>4
  <2>6. ASSUME NEW j \in 1..(k + 1) PROVE h[j] = step[<< h[j - 1], j >>]
    <3>1. CASE j \in 1..k /\ j - 1 \in 0..k /\ j \in 0..k
      <4>1. h[j] = f[j] /\ h[j - 1] = f[j - 1]
        BY <2>3, <3>1
      <4> QED
        BY <2>1, <3>1, <4>1
    <3>2. CASE j = k + 1 /\ j - 1 = k /\ k \in 0..k
      <4>1. h[j] = t /\ h[j - 1] = f[k]
        BY <2>3, <3>2
      <4> QED
        BY <3>2, <4>1
    <3> QED
      BY <2>4, <3>1, <3>2
  <2>7. h[0] = start
    BY <2>1, <2>3
  <2>8. Upto(h, k + 1)
    BY <2>5, <2>6, <2>7
  <2> QED
    BY <2>8
<1>3. Nat \subseteq P
  <2> HIDE DEF P
  <2> QED
    BY <1>1, <1>2, SetInduction
<1>4. PICK g : Upto(g, n)
  <2>1. n \in P
    BY <1>3
  <2> HIDE DEF Upto
  <2> QED
    BY <2>1
<1> DEFINE f == [j \in 0..n |-> g[j]]
<1>5. f \in [0..n -> T] /\ \A j \in 0..n : f[j] = g[j]
  BY <1>4
<1> HIDE DEF f
<1>6. f[0] = start /\ \A j \in 1..n : f[j] = step[<< f[j - 1], j >>]
  <2>1. 0 \in 0..n /\ \A j \in 1..n : j \in 0..n /\ j - 1 \in 0..n
    OBVIOUS
  <2> QED
    BY <1>4, <1>5, <2>1
<1> QED
  BY <1>5, <1>6 DEF GoesOnBy

-----------------------------------------------------------------------------
(* The flattening of a sequence of sequences.                              *)

\* The concatenation of two sequences, with a name that keeps it opaque.
Cat(s, t) == s \o t

\* Up to n, g adds up the members of c.
Adds(g, c, n) == \A i \in 1..n : g[i] = Cat(g[i - 1], c[i])

\* Sums that start alike and add the same are the same.
LEMMA SumsAreUnique ==
  ASSUME NEW n \in Nat, NEW c, NEW g, NEW h, g[0] = h[0],
         Adds(g, c, n), Adds(h, c, n)
  PROVE  \A i \in 0..n : g[i] = h[i]
PROOF
<1> DEFINE P == { i \in Nat : i <= n => g[i] = h[i] }
<1>1. 0 \in P
  OBVIOUS
<1>2. ASSUME NEW i \in Nat, i \in P PROVE i + 1 \in P
  <2>1. CASE i + 1 <= n
    <3>1. i + 1 \in 1..n /\ (i + 1) - 1 = i /\ i <= n
      BY <2>1
    <3>2. g[i + 1] = Cat(g[i], c[i + 1]) /\ h[i + 1] = Cat(h[i], c[i + 1])
      BY <3>1 DEF Adds
    <3>3. g[i] = h[i]
      BY <1>2, <3>1
    <3> QED
      BY <3>2, <3>3
  <2>2. CASE ~(i + 1 <= n)
    BY <2>2
  <2> QED
    BY <2>1, <2>2
<1>3. Nat \subseteq P
  <2> HIDE DEF P
  <2> QED
    BY <1>1, <1>2, SetInduction
<1> QED
  BY <1>3

\* g is the sums of the beginnings of c, a sequence of members of T.
SumsOf(g, c, T) ==
  /\ g[0] = << >>
  /\ \A i \in 0..Len(c) : g[i] \in T
  /\ Adds(g, c, Len(c))

\* Every sequence of members of T has its sums.
LEMMA SumsExist ==
  ASSUME NEW T, NEW c, Len(c) \in Nat, \A i \in 1..Len(c) : c[i] \in T,
         << >> \in T, \A s, t \in T : Cat(s, t) \in T
  PROVE  \E g : SumsOf(g, c, T)
PROOF
<1> DEFINE Sums(g, n) == /\ g[0] = << >>
                         /\ \A i \in 0..n : g[i] \in T
                         /\ \A i \in 1..n : g[i] = Cat(g[i - 1], c[i])
           P == { n \in Nat : n <= Len(c) => \E g : Sums(g, n) }
<1>1. 0 \in P
  <2> DEFINE z == [i \in {0} |-> << >>]
  <2>1. z[0] = << >> /\ 0 \in Nat /\ (\A i \in 0..0 : i = 0) /\ (\A i \in 1..0 : FALSE)
    OBVIOUS
  <2> HIDE DEF z
  <2>2. Sums(z, 0)
    BY <2>1
  <2> QED
    BY <2>1, <2>2
<1>2. ASSUME NEW n \in Nat, n \in P PROVE n + 1 \in P
  <2> SUFFICES ASSUME n + 1 <= Len(c) PROVE \E g : Sums(g, n + 1)
    <3>1. n + 1 \in Nat
      OBVIOUS
    <3> HIDE DEF Sums
    <3> QED
      BY <3>1
  <2>1. PICK g : Sums(g, n)
    <3>1. n <= Len(c)
      OBVIOUS
    <3> HIDE DEF Sums
    <3> QED
      BY <1>2, <3>1
  <2> DEFINE t == Cat(g[n], c[n + 1])
             h == [i \in 0..(n + 1) |-> IF i <= n THEN g[i] ELSE t]
  <2>2. t \in T
    BY <2>1
  <2>3. h[n + 1] = t /\ \A i \in 0..n : h[i] = g[i]
    <3> HIDE DEF t
    <3> QED
      OBVIOUS
  <2>4. \A i \in 0..(n + 1) : i \in 0..n \/ i = n + 1
    OBVIOUS
  <2>5. \A i \in 1..(n + 1) : \/ i \in 1..n /\ i - 1 \in 0..n /\ i \in 0..n
                              \/ i = n + 1 /\ i - 1 = n /\ n \in 0..n
    OBVIOUS
  <2> HIDE DEF h
  <2>6. \A i \in 0..(n + 1) : h[i] \in T
    BY <2>1, <2>2, <2>3, <2>4
  <2>7. ASSUME NEW i \in 1..(n + 1) PROVE h[i] = Cat(h[i - 1], c[i])
    <3>1. CASE i \in 1..n /\ i - 1 \in 0..n /\ i \in 0..n
      <4>1. h[i] = g[i] /\ h[i - 1] = g[i - 1] /\ g[i] = Cat(g[i - 1], c[i])
        BY <2>1, <2>3, <3>1
      <4> QED
        BY <4>1
    <3>2. CASE i = n + 1 /\ i - 1 = n /\ n \in 0..n
      <4>1. h[i] = t /\ h[i - 1] = g[n] /\ c[i] = c[n + 1]
        BY <2>3, <3>2
      <4> QED
        BY <4>1
    <3> QED
      BY <2>5, <3>1, <3>2
  <2>8. h[0] = << >>
    BY <2>1, <2>3
  <2>9. Sums(h, n + 1)
    BY <2>6, <2>7, <2>8
  <2> QED
    BY <2>9
<1>3. Nat \subseteq P
  <2> HIDE DEF P
  <2> QED
    BY <1>1, <1>2, SetInduction
<1>4. Len(c) \in P
  BY <1>3
<1>5. PICK g : Sums(g, Len(c))
  <2> HIDE DEF Sums
  <2> QED
    BY <1>4
<1> QED
  BY <1>5 DEF SumsOf, Adds

\* Concatenation with the empty sequence, and the types of what is flattened.
LEMMA CatFacts ==
  ASSUME NEW S
  PROVE  /\ << >> \in Seq(S)
         /\ \A s, t \in Seq(S) : Cat(s, t) \in Seq(S)
         /\ \A s \in Seq(S) : Cat(<< >>, s) = s /\ Cat(s, << >>) = s
         /\ \A s, t, u \in Seq(S) : Cat(s, Cat(t, u)) = Cat(Cat(s, t), u)
PROOF
<1>1. \A s, t \in Seq(S) : Cat(s, t) \in Seq(S)
  BY ConcatProperties DEF Cat
<1>2. \A s \in Seq(S) : Cat(<< >>, s) = s /\ Cat(s, << >>) = s
  BY ConcatEmptySeq DEF Cat
<1>3. ASSUME NEW s \in Seq(S), NEW t \in Seq(S), NEW u \in Seq(S)
      PROVE  Cat(s, Cat(t, u)) = Cat(Cat(s, t), u)
  BY ConcatAssociative DEF Cat
<1> QED
  BY <1>1, <1>2, <1>3, EmptySeq

\* The flattening is the last of the sums.
LEMMA FlattenIsSum ==
  ASSUME NEW S, NEW c \in Seq(Seq(S)), NEW g, SumsOf(g, c, Seq(S))
  PROVE  Seqs!FlattenSeq(c) = g[Len(c)]
PROOF
<1> DEFINE n == Len(c)
<1>0. n \in Nat /\ \A i \in 1..n : c[i] \in Seq(S)
  BY LenProperties, ElementOfSeq
<1>1. CASE n = 0
  <2>1. Seqs!FlattenSeq(c) = c
    BY <1>1, Zenon DEF Seqs!FlattenSeq
  <2> QED
    BY <1>1, <2>1, EmptySeq DEF SumsOf, Adds
<1>2. CASE n # 0
  <2> DEFINE flatten[i \in 1..n] == IF i = 1 THEN c[i] ELSE flatten[i - 1] \o c[i]
             f == [i \in 1..n |-> g[i]]
  <2>1. Seqs!FlattenSeq(c) = flatten[n]
    BY <1>2, Zenon DEF Seqs!FlattenSeq
  <2>2. flatten = CHOOSE h : h = [i \in 1..n |-> IF i = 1 THEN c[i] ELSE h[i - 1] \o c[i]]
    OBVIOUS
  <2> HIDE DEF flatten
  <2>a. /\ g[0] = << >>
        /\ \A i \in 1..n : g[i] = Cat(g[i - 1], c[i])
    BY DEF SumsOf, Adds
  <2> HIDE DEF n
  <2>3. f = [i \in 1..n |-> IF i = 1 THEN c[i] ELSE f[i - 1] \o c[i]]
    <3>1. ASSUME NEW i \in 1..n PROVE g[i] = IF i = 1 THEN c[i] ELSE Cat(f[i - 1], c[i])
      <4>1. g[i] = Cat(g[i - 1], c[i])
        BY <2>a
      <4>2. CASE i = 1
        <5>1. g[i - 1] = << >> /\ c[i] \in Seq(S)
          BY <1>0, <2>a, <4>2
        <5> QED
          BY <4>1, <4>2, <5>1, CatFacts
      <4>3. CASE i # 1
        <5>1. i - 1 \in 1..n
          BY <1>0, <4>3
        <5>2. f[i - 1] = g[i - 1]
          BY <5>1
        <5> QED
          BY <4>1, <4>3, <5>2
      <4> QED
        BY <4>2, <4>3
    <3>2. f = [i \in 1..n |-> IF i = 1 THEN c[i] ELSE Cat(f[i - 1], c[i])]
      BY <3>1
    <3> QED
      BY <3>2, Zenon DEF Cat
  <2> HIDE DEF f
  <2>4. flatten = [i \in 1..n |-> IF i = 1 THEN c[i] ELSE flatten[i - 1] \o c[i]]
    BY <2>2, <2>3, Zenon
  <2>b. flatten = [i \in 1..n |-> IF i = 1 THEN c[i] ELSE Cat(flatten[i - 1], c[i])]
    BY <2>4, Zenon DEF Cat
  <2> DEFINE h == [i \in 0..n |-> IF i = 0 THEN << >> ELSE flatten[i]]
  <2>5. ASSUME NEW i \in 1..n PROVE h[i] = Cat(h[i - 1], c[i])
    <3>1. i \in 0..n /\ i - 1 \in 0..n /\ i # 0
      BY <1>0
    <3>2. h[i] = flatten[i]
      BY <3>1
    <3>3. flatten[i] = IF i = 1 THEN c[i] ELSE Cat(flatten[i - 1], c[i])
      BY <2>b
    <3>4. CASE i = 1
      <4>1. h[i - 1] = << >> /\ flatten[i] = c[i] /\ c[i] \in Seq(S)
        BY <1>0, <3>1, <3>3, <3>4
      <4> QED
        BY <3>2, <4>1, CatFacts
    <3>5. CASE i # 1
      <4>1. h[i - 1] = flatten[i - 1]
        BY <3>1, <3>5
      <4> QED
        BY <3>2, <3>3, <3>5, <4>1
    <3> QED
      BY <3>4, <3>5
  <2>6. h[0] = << >> /\ h[n] = flatten[n]
    BY <1>0, <1>2
  <2> HIDE DEF h
  <2>7. \A i \in 0..n : g[i] = h[i]
    <3>1. g[0] = h[0]
      BY <2>6, <2>a
    <3>2. n \in Nat
      BY <1>0
    <3>3. Adds(g, c, n) /\ Adds(h, c, n)
      BY <2>5, <2>a DEF Adds
    <3> QED
      BY <3>1, <3>2, <3>3, SumsAreUnique
  <2>8. n \in 0..n
    BY <1>0
  <2> QED
    BY <2>1, <2>6, <2>7, <2>8 DEF n
<1> QED
  BY <1>1, <1>2

\* The flattening has the elements of the parts, and flattens beginning and end apart.
LEMMA FlattenConcat ==
  ASSUME NEW S, NEW a \in Seq(Seq(S)), NEW b \in Seq(Seq(S))
  PROVE  /\ Seqs!FlattenSeq(a) \in Seq(S)
         /\ Seqs!FlattenSeq(a \o b) = Seqs!FlattenSeq(a) \o Seqs!FlattenSeq(b)
PROOF
<1> DEFINE m == Len(a)
           n == Len(b)
           c == a \o b
           T == Seq(S)
<1>0. \A s \in Seq(T) : Len(s) \in Nat /\ \A i \in 1..Len(s) : s[i] \in T
  BY LenProperties, ElementOfSeq
<1>1. /\ c \in Seq(T) /\ Len(c) = m + n /\ m \in Nat /\ n \in Nat
      /\ \A i \in 1..m : c[i] = a[i]
      /\ \A i \in 1..n : c[m + i] = b[i] /\ b[i] \in T
  <2>1. \A i \in 1..(m + n) : c[i] = IF i <= m THEN a[i] ELSE b[i - m]
    BY ConcatProperties
  <2>2. m \in Nat /\ n \in Nat /\ \A i \in 1..n : b[i] \in T
    BY <1>0
  <2>3. \A i \in 1..n : m + i \in 1..(m + n) /\ ~(m + i <= m) /\ (m + i) - m = i
    BY <2>2
  <2>4. \A i \in 1..m : i \in 1..(m + n) /\ i <= m
    BY <2>2
  <2>5. c \in Seq(T) /\ Len(c) = m + n
    BY ConcatProperties
  <2> HIDE DEF c, m, n, T
  <2> QED
    BY <2>1, <2>2, <2>3, <2>4, <2>5
<1> HIDE DEF c
<1>a. /\ << >> \in T /\ \A s, t \in T : Cat(s, t) \in T
      /\ \A s \in T : Cat(s, << >>) = s
      /\ \A s, t, u \in T : Cat(s, Cat(t, u)) = Cat(Cat(s, t), u)
  BY CatFacts
<1>b. \A s \in Seq(T) : \E g : SumsOf(g, s, T)
  <2> SUFFICES ASSUME NEW s \in Seq(T) PROVE \E g : SumsOf(g, s, T)
    OBVIOUS
  <2>1. Len(s) \in Nat /\ \A i \in 1..Len(s) : s[i] \in T
    BY <1>0
  <2> HIDE DEF T
  <2> QED
    BY <1>a, <2>1, SumsExist
<1>2. PICK f : SumsOf(f, a, T)
  BY <1>b
<1>3. PICK g : SumsOf(g, b, T)
  BY <1>b
<1>4. PICK h : SumsOf(h, c, T)
  BY <1>1, <1>b
<1>5. /\ Seqs!FlattenSeq(a) = f[m] /\ Seqs!FlattenSeq(b) = g[n] /\ Seqs!FlattenSeq(c) = h[m + n]
  BY <1>1, <1>2, <1>3, <1>4, FlattenIsSum
<1> HIDE DEF T
<1>c. /\ f[0] = << >> /\ (\A i \in 0..m : f[i] \in T)
      /\ \A i \in 1..m : f[i] = Cat(f[i - 1], a[i])
  BY <1>2 DEF SumsOf, Adds
<1>d. /\ g[0] = << >> /\ (\A i \in 0..n : g[i] \in T)
      /\ \A i \in 1..n : g[i] = Cat(g[i - 1], b[i])
  BY <1>3 DEF SumsOf, Adds
<1>e. /\ h[0] = << >>
      /\ \A i \in 1..(m + n) : h[i] = Cat(h[i - 1], c[i])
  BY <1>1, <1>4 DEF SumsOf, Adds
<1> HIDE DEF m, n
<1>6. f[m] = h[m] /\ f[m] \in T
  <2>1. \A i \in 1..m : f[i] = Cat(f[i - 1], a[i]) /\ h[i] = Cat(h[i - 1], a[i])
    BY <1>1, <1>c, <1>e
  <2>2. f[0] = h[0] /\ m \in 0..m
    BY <1>1, <1>c, <1>e
  <2>3. \A i \in 0..m : f[i] = h[i]
    <3>1. m \in Nat
      BY <1>1
    <3>2. Adds(f, a, m) /\ Adds(h, a, m)
      BY <2>1 DEF Adds
    <3> QED
      BY <2>2, <3>1, <3>2, SumsAreUnique
  <2> QED
    BY <1>c, <2>2, <2>3
<1>7. Cat(f[m], g[n]) = h[m + n]
  <2> DEFINE p == [i \in 0..n |-> Cat(f[m], g[i])]
             q == [i \in 0..n |-> h[m + i]]
  <2>1. p[0] = q[0]
    <3>1. 0 \in 0..n /\ m + 0 = m
      BY <1>1
    <3>2. p[0] = Cat(f[m], << >>) /\ q[0] = h[m]
      BY <1>d, <3>1
    <3> QED
      BY <1>6, <1>a, <3>2
  <2>2. ASSUME NEW i \in 1..n
        PROVE  p[i] = Cat(p[i - 1], b[i]) /\ q[i] = Cat(q[i - 1], b[i])
    <3>1. i \in 0..n /\ i - 1 \in 0..n /\ m + i \in 1..(m + n) /\ (m + i) - 1 = m + (i - 1)
      BY <1>1
    <3>2. g[i] = Cat(g[i - 1], b[i]) /\ g[i - 1] \in T /\ b[i] \in T
      BY <1>1, <1>d, <3>1
    <3>3. Cat(f[m], g[i]) = Cat(Cat(f[m], g[i - 1]), b[i])
      <4>1. Cat(f[m], Cat(g[i - 1], b[i])) = Cat(Cat(f[m], g[i - 1]), b[i])
        BY <1>6, <1>a, <3>2, Zenon
      <4> QED
        BY <3>2, <4>1
    <3>4. h[m + i] = Cat(h[m + (i - 1)], b[i])
      BY <1>1, <1>e, <3>1
    <3>5. p[i] = Cat(f[m], g[i]) /\ p[i - 1] = Cat(f[m], g[i - 1])
      BY <3>1
    <3>6. q[i] = h[m + i] /\ q[i - 1] = h[m + (i - 1)]
      BY <3>1
    <3> QED
      BY <3>3, <3>4, <3>5, <3>6
  <2>3. n \in 0..n /\ p[n] = Cat(f[m], g[n]) /\ q[n] = h[m + n]
    BY <1>1
  <2> HIDE DEF p, q
  <2>4. \A i \in 0..n : p[i] = q[i]
    <3>1. n \in Nat
      BY <1>1
    <3>2. Adds(p, b, n) /\ Adds(q, b, n)
      BY <2>2 DEF Adds
    <3> QED
      BY <2>1, <3>1, <3>2, SumsAreUnique
  <2> QED
    BY <2>3, <2>4
<1> QED
  BY <1>5, <1>6, <1>7, Zenon DEF c, T, Cat

\* Nothing flattens to nothing, and a sequence of one to that one.
LEMMA FlattenShort ==
  ASSUME NEW S, NEW s \in Seq(S)
  PROVE  Seqs!FlattenSeq(<< >>) = << >> /\ Seqs!FlattenSeq(<< s >>) = s
PROOF
<1>1. Seqs!FlattenSeq(<< >>) = << >>
  <2>1. Len(<< >>) = 0
    OBVIOUS
  <2> QED
    BY <2>1, Zenon DEF Seqs!FlattenSeq
<1>2. Seqs!FlattenSeq(<< s >>) = s
  <2> DEFINE c == << s >>
             g == [i \in 0..1 |-> IF i = 0 THEN << >> ELSE s]
  <2>1. c \in Seq(Seq(S)) /\ Len(c) = 1 /\ c[1] = s
    OBVIOUS
  <2>2. g[0] = << >> /\ g[1] = s
    OBVIOUS
  <2>3. \A i \in 0..1 : g[i] \in Seq(S)
    BY EmptySeq
  <2> HIDE DEF c, g
  <2>4. Cat(g[0], c[1]) = s
    BY <2>1, <2>2, CatFacts
  <2>5. \A i \in 1..1 : i = 1 /\ i - 1 = 0
    OBVIOUS
  <2>6. Adds(g, c, 1)
    BY <2>2, <2>4, <2>5 DEF Adds
  <2>7. SumsOf(g, c, Seq(S))
    BY <2>1, <2>2, <2>3, <2>6 DEF SumsOf
  <2>8. Seqs!FlattenSeq(c) = g[1]
    BY <2>1, <2>7, FlattenIsSum
  <2> QED
    BY <2>2, <2>8 DEF c
<1> QED
  BY <1>1, <1>2

-----------------------------------------------------------------------------
(* Deques of placeholders whose contents are bytes of some set.            *)

Deques(Byte) == Seq(PlaceholderOf(Byte))

\* The placeholders were made before the ticket next was given away.
IdsBelow(phs, next) == \A k \in 1..Len(phs) : phs[k].id < next

\* The fields of a placeholder of a deque have their types.
LEMMA DequeElements ==
  ASSUME NEW Byte, NEW phs \in Deques(Byte)
  PROVE  /\ Len(phs) \in Nat
         /\ DOMAIN phs = 1..Len(phs)
         /\ \A k \in 1..Len(phs) :
              /\ phs[k] \in PlaceholderOf(Byte)
              /\ phs[k].id \in Nat
              /\ phs[k].contentsKnown \in BOOLEAN
              /\ phs[k].contents \in Seq(Byte)
              /\ Len(phs[k].contents) \in Nat
              /\ \A c \in 1..Len(phs[k].contents) : phs[k].contents[c] \in Byte
<1>1. \A k \in 1..Len(phs) : phs[k] \in PlaceholderOf(Byte)
  BY DEF Deques
<1>2. \A s \in Seq(Byte) : Len(s) \in Nat /\ \A c \in 1..Len(s) : s[c] \in Byte
  OBVIOUS
<1> QED BY <1>1, <1>2 DEF Deques, PlaceholderOf

-----------------------------------------------------------------------------
(* The stream of cells.                                                    *)

\* The cells of places with a ticket below next.
CellsBelow(Byte, next) == { ByteCell(t) : t \in Byte }
                         \union { HoleCell(t) : t \in { i \in Nat : i < next } }
Cells(Byte) == { ByteCell(t) : t \in Byte } \union { HoleCell(t) : t \in Nat }

-----------------------------------------------------------------------------
(* Cuts of sequences.                                                      *)

\* The cuts of three sequences one behind the other.
LEMMA Cuts ==
  ASSUME NEW S, NEW u \in Seq(S), NEW v \in Seq(S), NEW w \in Seq(S), NEW s,
         s = (u \o v) \o w
  PROVE  /\ s \in Seq(S)
         /\ Len(u) \in Nat /\ Len(v) \in Nat /\ Len(w) \in Nat
         /\ Len(s) = Len(u) + Len(v) + Len(w)
         /\ SubSeq(s, 1, Len(u)) = u
         /\ SubSeq(s, Len(u) + 1, Len(u) + Len(v)) = v
         /\ SubSeq(s, Len(u) + Len(v) + 1, Len(s)) = w
         /\ \A i \in 1..Len(v) : s[Len(u) + i] = v[i]
PROOF
<1> DEFINE l == Len(u)
           m == Len(v)
           n == Len(w)
           t == u \o v
<1>1. l \in Nat /\ m \in Nat /\ n \in Nat
  BY LenProperties
<1>2. /\ t \in Seq(S) /\ Len(t) = l + m
      /\ \A i \in 1..(l + m) : t[i] = IF i <= l THEN u[i] ELSE v[i - l]
  BY ConcatProperties
<1> HIDE DEF t
<1>3. s = t \o w
  BY DEF t
<1>4. /\ s \in Seq(S) /\ Len(s) = (l + m) + n
      /\ \A i \in 1..((l + m) + n) : s[i] = IF i <= l + m THEN t[i] ELSE w[i - (l + m)]
  <2>1. /\ t \o w \in Seq(S) /\ Len(t \o w) = Len(t) + Len(w)
        /\ \A i \in 1..(Len(t) + Len(w)) :
             (t \o w)[i] = IF i <= Len(t) THEN t[i] ELSE w[i - Len(t)]
    <3>1. t \in Seq(S)
      BY <1>2
    <3> QED
      BY <3>1, ConcatProperties, Zenon
  <2> QED
    BY <1>2, <1>3, <2>1
<1> HIDE DEF l, m, n
<1>5. \A i \in 1..l : s[0 + i] = u[i]
  <2> SUFFICES ASSUME NEW i \in 1..l PROVE s[0 + i] = u[i]
    OBVIOUS
  <2>1. i \in 1..(l + m) /\ i \in 1..((l + m) + n) /\ i <= l /\ i <= l + m /\ 0 + i = i
    BY <1>1
  <2> QED
    BY <1>2, <1>4, <2>1
<1>6. \A i \in 1..m : s[l + i] = v[i]
  <2> SUFFICES ASSUME NEW i \in 1..m PROVE s[l + i] = v[i]
    OBVIOUS
  <2>1. /\ l + i \in 1..(l + m) /\ l + i \in 1..((l + m) + n)
        /\ ~(l + i <= l) /\ l + i <= l + m /\ (l + i) - l = i
    BY <1>1
  <2> QED
    BY <1>2, <1>4, <2>1
<1>7. \A i \in 1..n : s[(l + m) + i] = w[i]
  <2> SUFFICES ASSUME NEW i \in 1..n PROVE s[(l + m) + i] = w[i]
    OBVIOUS
  <2>1. /\ (l + m) + i \in 1..((l + m) + n)
        /\ ~((l + m) + i <= l + m) /\ ((l + m) + i) - (l + m) = i
    BY <1>1
  <2> QED
    BY <1>4, <2>1
<1>8. SubSeq(s, 0 + 1, 0 + l) = u
  <2>1. 0 + l <= Len(s) /\ 0 \in Nat
    BY <1>1, <1>4
  <2> QED
    BY <1>4, <1>5, <2>1, Piece DEF l
<1>9. SubSeq(s, l + 1, l + m) = v
  <2>1. l + m <= Len(s)
    BY <1>1, <1>4
  <2> QED
    BY <1>1, <1>4, <1>6, <2>1, Piece DEF m
<1>10. SubSeq(s, (l + m) + 1, (l + m) + n) = w
  <2>1. (l + m) + n <= Len(s) /\ l + m \in Nat
    BY <1>1, <1>4
  <2> QED
    BY <1>4, <1>7, <2>1, Piece DEF n
<1>11. 0 + 1 = 1 /\ 0 + l = l
  BY <1>1
<1> QED
  BY <1>1, <1>4, <1>6, <1>8, <1>9, <1>10, <1>11 DEF l, m, n

\* A deque is what is in front of a placeholder, the placeholder, and what is behind it.
LEMMA Surrounded ==
  ASSUME NEW Byte, NEW phs \in Deques(Byte), NEW k \in 1..Len(phs), NEW p \in PlaceholderOf(Byte)
  PROVE  LET front == SubSeq(phs, 1, k - 1)
             behind == SubSeq(phs, k + 1, Len(phs))
         IN  /\ front \in Deques(Byte) /\ behind \in Deques(Byte)
             /\ phs = (front \o << phs[k] >>) \o behind
             /\ [phs EXCEPT ![k] = p] = (front \o << p >>) \o behind
             /\ Erase(phs, k) = front \o behind
             /\ k = Len(phs) => behind = << >>
PROOF
<1> DEFINE n == Len(phs)
           A == SubSeq(phs, 1, k - 1)
           B == SubSeq(phs, k + 1, n)
           R == PlaceholderOf(Byte)
<1>1. /\ n \in Nat /\ phs \in Seq(R) /\ DOMAIN phs = 1..n
      /\ \A i \in 1..n : phs[i] \in R
  BY DequeElements DEF Deques
<1>4. k \in 1..n
  OBVIOUS
<1> HIDE DEF n, R
<1>2. A \in Seq(R) /\ Len(A) = k - 1 /\ \A i \in 1..(k - 1) : A[i] = phs[i]
  <2>1. \A i \in 1..(k - 1) : phs[i] \in R
    BY <1>1
  <2>2. k - 1 \in Int /\ 1 \in Int
    BY <1>1
  <2>3. /\ A \in Seq(R) /\ Len(A) = IF 1 <= k - 1 THEN (k - 1) - 1 + 1 ELSE 0
        /\ \A i \in 1..((k - 1) - 1 + 1) : A[i] = phs[1 + i - 1]
    BY <2>1, <2>2, SubSeqProperties
  <2> HIDE DEF A
  <2>4. \A i \in 1..(k - 1) : A[i] = phs[1 + i - 1] /\ 1 + i - 1 = i
    BY <2>3
  <2> QED
    BY <2>3, <2>4
<1>3. B \in Seq(R) /\ Len(B) = n - k /\ \A i \in 1..(n - k) : B[i] = phs[k + i]
  <2>1. \A i \in (k + 1)..n : phs[i] \in R
    BY <1>1
  <2>2. k + 1 \in Int /\ n \in Int
    BY <1>1
  <2>3. /\ B \in Seq(R) /\ Len(B) = IF k + 1 <= n THEN n - (k + 1) + 1 ELSE 0
        /\ \A i \in 1..(n - (k + 1) + 1) : B[i] = phs[(k + 1) + i - 1]
    BY <2>1, <2>2, SubSeqProperties
  <2> HIDE DEF B
  <2>4. \A i \in 1..(n - k) : B[i] = phs[(k + 1) + i - 1] /\ (k + 1) + i - 1 = k + i
    BY <1>1, <1>4, <2>3
  <2>5. Len(B) = n - k
    BY <1>1, <1>4, <2>3
  <2> QED
    BY <2>3, <2>4, <2>5
<1> HIDE DEF A, B
<1>5. ASSUME NEW q \in R
      PROVE  /\ (A \o << q >>) \o B \in Seq(R)
             /\ Len((A \o << q >>) \o B) = n
             /\ \A i \in 1..n : ((A \o << q >>) \o B)[i] = IF i = k THEN q ELSE phs[i]
  <2> DEFINE c == A \o << q >>
             d == c \o B
  <2>1. << q >> \in Seq(R) /\ Len(<< q >>) = 1 /\ << q >>[1] = q
    OBVIOUS
  <2>2. /\ c \in Seq(R) /\ Len(c) = (k - 1) + 1
        /\ \A i \in 1..((k - 1) + 1) : c[i] = IF i <= k - 1 THEN A[i] ELSE << q >>[i - (k - 1)]
    BY <1>2, <2>1, ConcatProperties
  <2> HIDE DEF c
  <2>3. Len(c) = k /\ \A i \in 1..k : c[i] = IF i = k THEN q ELSE phs[i]
    <3>1. ASSUME NEW i \in 1..k PROVE c[i] = IF i = k THEN q ELSE phs[i]
      <4>1. c[i] = IF i <= k - 1 THEN A[i] ELSE << q >>[i - (k - 1)]
        BY <2>2
      <4>2. CASE i = k
        <5>1. ~(i <= k - 1) /\ i - (k - 1) = 1
          BY <4>2
        <5> QED
          BY <2>1, <4>1, <4>2, <5>1
      <4>3. CASE i # k
        <5>1. i <= k - 1 /\ i \in 1..(k - 1)
          BY <4>3
        <5> QED
          BY <1>2, <4>1, <4>3, <5>1
      <4> QED
        BY <4>2, <4>3
    <3> QED
      BY <2>2, <3>1
  <2>4. /\ d \in Seq(R) /\ Len(d) = k + (n - k)
        /\ \A i \in 1..(k + (n - k)) : d[i] = IF i <= k THEN c[i] ELSE B[i - k]
    <3>1. /\ d \in Seq(R) /\ Len(d) = Len(c) + Len(B)
          /\ \A i \in 1..(Len(c) + Len(B)) : d[i] = IF i <= Len(c) THEN c[i] ELSE B[i - Len(c)]
      BY <1>3, <2>2, ConcatProperties
    <3> HIDE DEF d
    <3> QED
      BY <1>3, <2>3, <3>1
  <2> HIDE DEF d
  <2>5. k + (n - k) = n
    BY <1>1, <1>4
  <2>6. ASSUME NEW i \in 1..n PROVE d[i] = IF i = k THEN q ELSE phs[i]
    <3>1. d[i] = IF i <= k THEN c[i] ELSE B[i - k]
      BY <2>4, <2>5
    <3>2. CASE i <= k
      <4>1. i \in 1..k
        BY <3>2
      <4> QED
        BY <2>3, <3>1, <3>2, <4>1
    <3>3. CASE ~(i <= k)
      <4>1. i - k \in 1..(n - k) /\ k + (i - k) = i /\ i # k
        BY <1>1, <1>4, <3>3
      <4> QED
        BY <1>3, <3>1, <3>3, <4>1
    <3> QED
      BY <3>2, <3>3
  <2> QED
    BY <2>4, <2>5, <2>6 DEF c, d
<1>6. phs = (A \o << phs[k] >>) \o B
  <2>1. phs[k] \in R
    BY <1>1, <1>4
  <2> DEFINE d == (A \o << phs[k] >>) \o B
  <2>2. d \in Seq(R) /\ Len(d) = n /\ \A i \in 1..n : d[i] = IF i = k THEN phs[k] ELSE phs[i]
    BY <1>5, <2>1
  <2> HIDE DEF d
  <2>3. Len(phs) = Len(d) /\ \A i \in 1..Len(phs) : phs[i] = d[i]
    BY <2>2 DEF n
  <2>4. phs = d
    BY <1>1, <2>2, <2>3, SeqEqual
  <2> QED
    BY <2>4 DEF d
<1>7. [phs EXCEPT ![k] = p] = (A \o << p >>) \o B
  <2> DEFINE d == (A \o << p >>) \o B
             e == [phs EXCEPT ![k] = p]
  <2>1. d \in Seq(R) /\ Len(d) = n /\ \A i \in 1..n : d[i] = IF i = k THEN p ELSE phs[i]
    BY <1>5 DEF R
  <2>2. /\ e \in Seq(R) /\ Len(e) = Len(phs)
        /\ \A i \in 1..Len(phs) : e[i] = IF i = k THEN p ELSE phs[i]
    BY <1>1, ExceptSeq DEF R
  <2> HIDE DEF d, e
  <2>3. Len(e) = Len(d) /\ \A i \in 1..Len(e) : e[i] = d[i]
    BY <2>1, <2>2 DEF n
  <2>4. e = d
    BY <2>1, <2>2, <2>3, SeqEqual
  <2> QED
    BY <2>4 DEF d, e
<1>8. Erase(phs, k) = A \o B
  <2> DEFINE d == A \o B
             e == Erase(phs, k)
  <2>1. /\ d \in Seq(R) /\ Len(d) = (k - 1) + (n - k)
        /\ \A i \in 1..((k - 1) + (n - k)) : d[i] = IF i <= k - 1 THEN A[i] ELSE B[i - (k - 1)]
    BY <1>2, <1>3, ConcatProperties
  <2>2. e = [i \in 1..(n - 1) |-> IF i < k THEN phs[i] ELSE phs[i + 1]]
    BY DEF Erase, n
  <2> HIDE DEF d, e
  <2>3. (k - 1) + (n - k) = n - 1 /\ n - 1 \in Nat
    BY <1>1, <1>4
  <2>4. \A i \in 1..(n - 1) : (IF i < k THEN phs[i] ELSE phs[i + 1]) \in R
    BY <1>1, <1>4
  <2>5. e \in Seq(R) /\ Len(e) = n - 1
    BY <2>2, <2>3, <2>4
  <2>6. ASSUME NEW i \in 1..(n - 1) PROVE e[i] = d[i]
    <3>1. /\ d[i] = IF i <= k - 1 THEN A[i] ELSE B[i - (k - 1)]
          /\ e[i] = IF i < k THEN phs[i] ELSE phs[i + 1]
      BY <2>1, <2>2, <2>3
    <3>2. CASE i < k
      <4>1. i <= k - 1 /\ i \in 1..(k - 1)
        BY <3>2
      <4> QED
        BY <1>2, <3>1, <3>2, <4>1
    <3>3. CASE ~(i < k)
      <4>1. ~(i <= k - 1) /\ i - (k - 1) \in 1..(n - k) /\ k + (i - (k - 1)) = i + 1
        BY <1>1, <1>4, <3>3
      <4> QED
        BY <1>3, <3>1, <3>3, <4>1
    <3> QED
      BY <3>2, <3>3
  <2>7. Len(e) = Len(d) /\ \A i \in 1..Len(e) : e[i] = d[i]
    BY <2>1, <2>3, <2>5, <2>6
  <2>8. e = d
    BY <2>1, <2>5, <2>7, SeqEqual
  <2> QED
    BY <2>8 DEF d, e
<1>9. k = n => B = << >>
  <2> SUFFICES ASSUME k = n PROVE B = << >>
    OBVIOUS
  <2>1. Len(B) = 0
    BY <1>1, <1>3
  <2> QED
    BY <1>3, <2>1, EmptySeq
<1> QED
  BY <1>2, <1>3, <1>6, <1>7, <1>8, <1>9 DEF A, B, n, R, Deques

-----------------------------------------------------------------------------
(* The cells of a deque.                                                   *)

\* Bytes and holes are cells, told apart by IsHoleCell.
LEMMA CellFacts ==
  ASSUME NEW Byte
  PROVE  /\ \A t \in Byte : ByteCell(t) \in Cells(Byte) /\ ~IsHoleCell(ByteCell(t))
         /\ \A t \in Nat : HoleCell(t) \in Cells(Byte) /\ IsHoleCell(HoleCell(t))
         /\ \A t, u : HoleCell(t) = HoleCell(u) => t = u
BY DEF Cells, ByteCell, HoleCell, IsHoleCell

\* The bytes of a string are no holes.
LEMMA ByteCellsFacts ==
  ASSUME NEW Byte, NEW s \in Seq(Byte)
  PROVE  /\ ByteCells(s) \in Seq(Cells(Byte)) /\ Len(ByteCells(s)) = Len(s)
         /\ DOMAIN ByteCells(s) = 1..Len(s)
         /\ \A i \in 1..Len(s) : ByteCells(s)[i] = ByteCell(s[i])
                                 /\ ~IsHoleCell(ByteCells(s)[i])
PROOF
<1>1. /\ Len(s) \in Nat /\ DOMAIN s = 1..Len(s) /\ \A i \in 1..Len(s) : s[i] \in Byte
  BY LenProperties, ElementOfSeq
<1>2. ByteCells(s) = [i \in 1..Len(s) |-> ByteCell(s[i])]
  BY <1>1 DEF ByteCells
<1>3. \A i \in 1..Len(s) : ByteCell(s[i]) \in Cells(Byte) /\ ~IsHoleCell(ByteCell(s[i]))
  BY <1>1, CellFacts
<1> QED
  BY <1>1, <1>2, <1>3

\* The cells of two strings, one behind the other, are those of each.
LEMMA ByteCellsConcat ==
  ASSUME NEW Byte, NEW s \in Seq(Byte), NEW t \in Seq(Byte)
  PROVE  ByteCells(s \o t) = ByteCells(s) \o ByteCells(t)
PROOF
<1> DEFINE m == Len(s)
           n == Len(t)
           b == ByteCells(s \o t)
           c == ByteCells(s) \o ByteCells(t)
<1>1. m \in Nat /\ n \in Nat
  BY LenProperties
<1>2. /\ s \o t \in Seq(Byte) /\ Len(s \o t) = m + n
      /\ \A i \in 1..(m + n) : (s \o t)[i] = IF i <= m THEN s[i] ELSE t[i - m]
  BY ConcatProperties
<1>3. /\ b \in Seq(Cells(Byte)) /\ Len(b) = m + n
      /\ \A i \in 1..(m + n) : b[i] = ByteCell((s \o t)[i])
  BY <1>2, ByteCellsFacts
<1>4. /\ ByteCells(s) \in Seq(Cells(Byte)) /\ Len(ByteCells(s)) = m
      /\ ByteCells(t) \in Seq(Cells(Byte)) /\ Len(ByteCells(t)) = n
      /\ \A i \in 1..m : ByteCells(s)[i] = ByteCell(s[i])
      /\ \A i \in 1..n : ByteCells(t)[i] = ByteCell(t[i])
  BY ByteCellsFacts
<1>5. /\ c \in Seq(Cells(Byte)) /\ Len(c) = m + n
      /\ \A i \in 1..(m + n) : c[i] = IF i <= m THEN ByteCells(s)[i] ELSE ByteCells(t)[i - m]
  <2>1. /\ c \in Seq(Cells(Byte)) /\ Len(c) = Len(ByteCells(s)) + Len(ByteCells(t))
        /\ \A i \in 1..(Len(ByteCells(s)) + Len(ByteCells(t))) :
             c[i] = IF i <= Len(ByteCells(s)) THEN ByteCells(s)[i]
                    ELSE ByteCells(t)[i - Len(ByteCells(s))]
    <3>1. ByteCells(s) \in Seq(Cells(Byte)) /\ ByteCells(t) \in Seq(Cells(Byte))
      BY <1>4
    <3> QED
      BY <3>1, ConcatProperties, Zenon
  <2> HIDE DEF c, m, n
  <2> QED
    BY <1>4, <2>1
<1> HIDE DEF b, c, m, n
<1>6. ASSUME NEW i \in 1..(m + n) PROVE b[i] = c[i]
  <2>1. CASE i <= m
    <3>1. i \in 1..m
      BY <2>1
    <3>2. b[i] = ByteCell(s[i])
      BY <1>2, <1>3, <2>1
    <3>3. c[i] = ByteCell(s[i])
      BY <1>4, <1>5, <2>1, <3>1
    <3> QED
      BY <3>2, <3>3
  <2>2. CASE ~(i <= m)
    <3>1. i - m \in 1..n
      BY <1>1, <2>2
    <3>2. b[i] = ByteCell(t[i - m])
      BY <1>2, <1>3, <2>2
    <3>3. c[i] = ByteCell(t[i - m])
      BY <1>4, <1>5, <2>2, <3>1
    <3> QED
      BY <3>2, <3>3
  <2> QED
    BY <2>1, <2>2
<1>7. b = c
  BY <1>3, <1>5, <1>6, SeqEqual
<1> QED
  BY <1>7 DEF b, c

\* The parts of a deque's stream, one for each placeholder.
PartsOf(phs) == [k \in DOMAIN phs |-> CellsOf(phs[k])]

\* The cells of a placeholder whose ticket is below next.
LEMMA CellsOfTyped ==
  ASSUME NEW Byte, NEW p \in PlaceholderOf(Byte), NEW next \in Nat, p.id < next
  PROVE  CellsOf(p) \in Seq(CellsBelow(Byte, next))
PROOF
<1>1. p.id \in Nat /\ p.contents \in Seq(Byte)
  BY DEF PlaceholderOf
<1>2. CASE p.contentsKnown
  <2>1. Len(p.contents) \in Nat /\ DOMAIN p.contents = 1..Len(p.contents)
    BY <1>1, LenProperties
  <2>2. \A i \in 1..Len(p.contents) : p.contents[i] \in Byte
    BY <1>1, ElementOfSeq
  <2>3. \A i \in 1..Len(p.contents) : ByteCell(p.contents[i]) \in CellsBelow(Byte, next)
    BY <2>2 DEF CellsBelow
  <2>4. CellsOf(p) = [i \in 1..Len(p.contents) |-> ByteCell(p.contents[i])]
    BY <1>2, <2>1 DEF CellsOf, ByteCells
  <2> QED
    BY <2>1, <2>3, <2>4
<1>3. CASE ~p.contentsKnown
  <2>1. HoleCell(p.id) \in CellsBelow(Byte, next)
    BY <1>1 DEF CellsBelow
  <2>2. CellsOf(p) = << HoleCell(p.id) >>
    BY <1>3 DEF CellsOf
  <2> QED
    BY <2>1, <2>2
<1> QED
  BY <1>2, <1>3

\* The cells of a deque are bytes, and holes with tickets below next.
LEMMA CellsTyped ==
  ASSUME NEW Byte, NEW phs \in Deques(Byte), NEW next \in Nat, IdsBelow(phs, next)
  PROVE  /\ PartsOf(phs) \in Seq(Seq(CellsBelow(Byte, next)))
         /\ CellsOfAll(phs) \in Seq(CellsBelow(Byte, next))
PROOF
<1>1. /\ Len(phs) \in Nat /\ DOMAIN phs = 1..Len(phs)
      /\ \A k \in 1..Len(phs) : phs[k] \in PlaceholderOf(Byte)
  BY DequeElements
<1>2. \A k \in 1..Len(phs) : CellsOf(phs[k]) \in Seq(CellsBelow(Byte, next))
  BY <1>1, CellsOfTyped DEF IdsBelow
<1>3. PartsOf(phs) = [k \in 1..Len(phs) |-> CellsOf(phs[k])]
  BY <1>1 DEF PartsOf
<1>4. PartsOf(phs) \in Seq(Seq(CellsBelow(Byte, next)))
  BY <1>1, <1>2, <1>3
<1>5. Seqs!FlattenSeq(PartsOf(phs)) \in Seq(CellsBelow(Byte, next))
  BY <1>4, FlattenConcat
<1> QED
  BY <1>4, <1>5 DEF CellsOfAll, PartsOf

\* The cells of two deques, one behind the other, are those of each.
LEMMA CellsConcat ==
  ASSUME NEW Byte, NEW a \in Deques(Byte), NEW b \in Deques(Byte)
  PROVE  /\ CellsOfAll(a) \in Seq(Cells(Byte))
         /\ CellsOfAll(a \o b) = CellsOfAll(a) \o CellsOfAll(b)
PROOF
<1> DEFINE c == a \o b
           m == Len(a)
           n == Len(b)
<1>1. ASSUME NEW p \in PlaceholderOf(Byte) PROVE CellsOf(p) \in Seq(Cells(Byte))
  <2>1. p.id \in Nat /\ p.id + 1 \in Nat /\ p.id < p.id + 1
    BY DEF PlaceholderOf
  <2>2. CellsOf(p) \in Seq(CellsBelow(Byte, p.id + 1))
    BY <2>1, CellsOfTyped
  <2>3. CellsBelow(Byte, p.id + 1) \subseteq Cells(Byte)
    BY DEF CellsBelow, Cells
  <2> QED
    BY <2>2, <2>3, SeqMonotonic
<1>2. ASSUME NEW d \in Deques(Byte)
      PROVE  /\ PartsOf(d) \in Seq(Seq(Cells(Byte))) /\ Len(PartsOf(d)) = Len(d)
             /\ \A k \in 1..Len(d) : PartsOf(d)[k] = CellsOf(d[k])
  <2>1. /\ Len(d) \in Nat /\ DOMAIN d = 1..Len(d)
        /\ \A k \in 1..Len(d) : d[k] \in PlaceholderOf(Byte)
    BY DequeElements
  <2>2. \A k \in 1..Len(d) : CellsOf(d[k]) \in Seq(Cells(Byte))
    BY <1>1, <2>1
  <2>3. PartsOf(d) = [k \in 1..Len(d) |-> CellsOf(d[k])]
    BY <2>1 DEF PartsOf
  <2> QED
    BY <2>1, <2>2, <2>3
<1>3. /\ m \in Nat /\ n \in Nat /\ c \in Deques(Byte) /\ Len(c) = m + n
      /\ \A i \in 1..(m + n) : c[i] = IF i <= m THEN a[i] ELSE b[i - m]
  BY ConcatProperties, LenProperties DEF Deques
<1> HIDE DEF c
<1>4. /\ PartsOf(a) \in Seq(Seq(Cells(Byte))) /\ Len(PartsOf(a)) = m
      /\ PartsOf(b) \in Seq(Seq(Cells(Byte))) /\ Len(PartsOf(b)) = n
      /\ PartsOf(c) \in Seq(Seq(Cells(Byte))) /\ Len(PartsOf(c)) = m + n
      /\ \A i \in 1..m : PartsOf(a)[i] = CellsOf(a[i])
      /\ \A i \in 1..n : PartsOf(b)[i] = CellsOf(b[i])
      /\ \A i \in 1..(m + n) : PartsOf(c)[i] = CellsOf(c[i])
  BY <1>2, <1>3
<1> HIDE DEF m, n
<1> DEFINE d == PartsOf(a) \o PartsOf(b)
<1>5. /\ d \in Seq(Seq(Cells(Byte))) /\ Len(d) = m + n
      /\ \A i \in 1..(m + n) : d[i] = IF i <= m THEN PartsOf(a)[i] ELSE PartsOf(b)[i - m]
  <2>1. /\ d \in Seq(Seq(Cells(Byte))) /\ Len(d) = Len(PartsOf(a)) + Len(PartsOf(b))
        /\ \A i \in 1..(Len(PartsOf(a)) + Len(PartsOf(b))) :
             d[i] = IF i <= Len(PartsOf(a)) THEN PartsOf(a)[i]
                    ELSE PartsOf(b)[i - Len(PartsOf(a))]
    BY <1>4, ConcatProperties
  <2> HIDE DEF d
  <2> QED
    BY <1>4, <2>1
<1> HIDE DEF d
<1>6. ASSUME NEW i \in 1..(m + n) PROVE PartsOf(c)[i] = d[i]
  <2>1. CASE i <= m
    <3>1. i \in 1..m
      BY <2>1
    <3>2. d[i] = PartsOf(a)[i] /\ PartsOf(a)[i] = CellsOf(a[i])
      BY <1>4, <1>5, <2>1, <3>1
    <3>3. PartsOf(c)[i] = CellsOf(c[i]) /\ c[i] = a[i]
      BY <1>3, <1>4, <2>1
    <3> QED
      BY <3>2, <3>3
  <2>2. CASE ~(i <= m)
    <3>1. i - m \in 1..n
      BY <1>3, <2>2
    <3>2. d[i] = PartsOf(b)[i - m] /\ PartsOf(b)[i - m] = CellsOf(b[i - m])
      BY <1>4, <1>5, <2>2, <3>1
    <3>3. PartsOf(c)[i] = CellsOf(c[i]) /\ c[i] = b[i - m]
      BY <1>3, <1>4, <2>2
    <3> QED
      BY <3>2, <3>3
  <2> QED
    BY <2>1, <2>2
<1>7. PartsOf(c) = d
  BY <1>4, <1>5, <1>6, SeqEqual
<1>8. /\ Seqs!FlattenSeq(PartsOf(a)) \in Seq(Cells(Byte))
      /\ Seqs!FlattenSeq(d) = Seqs!FlattenSeq(PartsOf(a)) \o Seqs!FlattenSeq(PartsOf(b))
  BY <1>4, FlattenConcat DEF d
<1> QED
  BY <1>7, <1>8, Zenon DEF CellsOfAll, PartsOf, c

\* The cells of one placeholder, and of none.
LEMMA CellsOfShort ==
  ASSUME NEW Byte, NEW p \in PlaceholderOf(Byte)
  PROVE  CellsOfAll(<< p >>) = CellsOf(p) /\ CellsOfAll(<< >>) = << >>
PROOF
<1>1. p.id \in Nat /\ p.id + 1 \in Nat /\ p.id < p.id + 1
  BY DEF PlaceholderOf
<1>2. CellsOf(p) \in Seq(CellsBelow(Byte, p.id + 1))
  BY <1>1, CellsOfTyped
<1>3. [k \in DOMAIN << p >> |-> CellsOf(<< p >>[k])] = << CellsOf(p) >>
  OBVIOUS
<1>4. [k \in DOMAIN << >> |-> CellsOf(<< >>[k])] = << >>
  OBVIOUS
<1>5. Seqs!FlattenSeq(<< CellsOf(p) >>) = CellsOf(p) /\ Seqs!FlattenSeq(<< >>) = << >>
  BY <1>2, FlattenShort
<1> QED
  BY <1>3, <1>4, <1>5 DEF CellsOfAll

\* The cells of the placeholders before the k-th, and of those behind it.
CellsBefore(phs, k) == CellsOfAll(SubSeq(phs, 1, k - 1))
CellsBehind(phs, k) == CellsOfAll(SubSeq(phs, k + 1, Len(phs)))

\* The cells of the deque, with cells in the place of those of the k-th.
CellsWith(phs, k, cells) == (CellsBefore(phs, k) \o cells) \o CellsBehind(phs, k)

\* Replacing a placeholder, and erasing one, in the cells of the deque.
AreAround(Byte, phs, k, p) ==
  /\ CellsBefore(phs, k) \in Seq(Cells(Byte))
  /\ CellsBehind(phs, k) \in Seq(Cells(Byte))
  /\ CellsOfAll(phs) = CellsWith(phs, k, CellsOf(phs[k]))
  /\ CellsOfAll([phs EXCEPT ![k] = p]) = CellsWith(phs, k, CellsOf(p))
  /\ CellsOfAll(Erase(phs, k)) = CellsBefore(phs, k) \o CellsBehind(phs, k)
  /\ k = Len(phs) => CellsBehind(phs, k) = << >>

\* The cells of a deque are those before, of and behind each placeholder.
LEMMA CellsAround ==
  ASSUME NEW Byte, NEW phs \in Deques(Byte), NEW k \in 1..Len(phs), NEW p \in PlaceholderOf(Byte)
  PROVE  AreAround(Byte, phs, k, p)
PROOF
<1> DEFINE A == SubSeq(phs, 1, k - 1)
           B == SubSeq(phs, k + 1, Len(phs))
<1>1. /\ A \in Deques(Byte) /\ B \in Deques(Byte)
      /\ phs = (A \o << phs[k] >>) \o B
      /\ [phs EXCEPT ![k] = p] = (A \o << p >>) \o B
      /\ Erase(phs, k) = A \o B
      /\ k = Len(phs) => B = << >>
  BY Surrounded
<1> HIDE DEF A, B
<1>2. ASSUME NEW q \in PlaceholderOf(Byte)
      PROVE  CellsOfAll((A \o << q >>) \o B)
               = (CellsOfAll(A) \o CellsOf(q)) \o CellsOfAll(B)
  <2>1. << q >> \in Deques(Byte)
    BY DEF Deques
  <2>2. A \o << q >> \in Deques(Byte)
    BY <1>1, <2>1, ConcatProperties DEF Deques
  <2>3. CellsOfAll((A \o << q >>) \o B) = CellsOfAll(A \o << q >>) \o CellsOfAll(B)
    BY <1>1, <2>2, CellsConcat, Zenon
  <2>4. CellsOfAll(A \o << q >>) = CellsOfAll(A) \o CellsOfAll(<< q >>)
    BY <1>1, <2>1, CellsConcat, Zenon
  <2>5. CellsOfAll(<< q >>) = CellsOf(q)
    BY CellsOfShort
  <2> QED
    BY <2>3, <2>4, <2>5
<1>3. phs[k] \in PlaceholderOf(Byte)
  BY DequeElements
<1>4. CellsOfAll(phs) = (CellsOfAll(A) \o CellsOf(phs[k])) \o CellsOfAll(B)
  BY <1>1, <1>2, <1>3, Zenon
<1>5. CellsOfAll([phs EXCEPT ![k] = p]) = (CellsOfAll(A) \o CellsOf(p)) \o CellsOfAll(B)
  BY <1>1, <1>2, Zenon
<1>6. /\ CellsOfAll(Erase(phs, k)) = CellsOfAll(A) \o CellsOfAll(B)
      /\ CellsOfAll(A) \in Seq(Cells(Byte)) /\ CellsOfAll(B) \in Seq(Cells(Byte))
  BY <1>1, CellsConcat
<1>7. k = Len(phs) => CellsOfAll(B) = << >>
  BY <1>1, CellsOfShort
<1> QED
  BY <1>4, <1>5, <1>6, <1>7, Zenon DEF A, B, CellsBefore, CellsBehind, CellsWith, AreAround

\* fulfillPlaceholder puts the bytes of its string, none or some, where the
\* placeholder was.
LEMMA FulfillCells ==
  ASSUME NEW Byte, NEW phs \in Deques(Byte), NEW k \in 1..Len(phs), NEW s \in Seq(Byte)
  PROVE  /\ CellsBefore(phs, k) \in Seq(Cells(Byte))
         /\ CellsBehind(phs, k) \in Seq(Cells(Byte))
         /\ CellsOfAll(phs) = CellsWith(phs, k, CellsOf(phs[k]))
         /\ CellsOfAll(FulfillAt(phs, k, s)) = CellsWith(phs, k, ByteCells(s))
         /\ k = Len(phs) => CellsBehind(phs, k) = << >>
PROOF
<1> DEFINE p == [phs[k] EXCEPT !.contentsKnown = TRUE, !.contents = s]
<1>1. phs[k] \in PlaceholderOf(Byte)
  BY DequeElements
<1>2. p \in PlaceholderOf(Byte) /\ p.contentsKnown = TRUE /\ p.contents = s
  BY <1>1 DEF PlaceholderOf
<1>3. CellsOf(p) = ByteCells(s)
  BY <1>2 DEF CellsOf
<1>4. s # << >> => FulfillAt(phs, k, s) = [phs EXCEPT ![k] = p]
  BY DEF FulfillAt
<1>5. s = << >> => FulfillAt(phs, k, s) = Erase(phs, k)
  BY DEF FulfillAt
<1> HIDE DEF p
<1>6. AreAround(Byte, phs, k, p)
  BY <1>2, CellsAround
<1>7. /\ CellsBefore(phs, k) \in Seq(Cells(Byte))
      /\ CellsBehind(phs, k) \in Seq(Cells(Byte))
      /\ k = Len(phs) => CellsBehind(phs, k) = << >>
      /\ CellsOfAll(phs) = CellsWith(phs, k, CellsOf(phs[k]))
  BY <1>6, Zenon DEF AreAround
<1>8. CellsOfAll([phs EXCEPT ![k] = p]) = CellsWith(phs, k, CellsOf(p))
  BY <1>6, Zenon DEF AreAround
<1>9. CellsOfAll(Erase(phs, k)) = CellsBefore(phs, k) \o CellsBehind(phs, k)
  BY <1>6, Zenon DEF AreAround
<1>10. CellsOfAll(FulfillAt(phs, k, s)) = CellsWith(phs, k, ByteCells(s))
  <2>1. CASE s # << >>
    BY <1>3, <1>4, <1>8, <2>1
  <2>2. CASE s = << >>
    <3>1. ByteCells(s) = << >>
      BY <2>2 DEF ByteCells
    <3>2. CellsBefore(phs, k) \o << >> = CellsBefore(phs, k)
      BY <1>6, ConcatEmptySeq
    <3> QED
      BY <1>5, <1>9, <2>2, <3>1, <3>2 DEF CellsWith
  <2> QED
    BY <2>1, <2>2
<1> QED
  BY <1>6, <1>7, <1>10, Zenon

\* Cells(Byte) in three pieces, grouped either way.
LEMMA Regroup ==
  ASSUME NEW Byte, NEW x \in Seq(Cells(Byte)), NEW y \in Seq(Cells(Byte)), NEW z \in Seq(Cells(Byte))
  PROVE  x \o (y \o z) = (x \o y) \o z
BY ConcatAssociative, SMTT(30)

\* outputString puts its bytes behind all other cells.
LEMMA OutputStringCells ==
  ASSUME NEW Byte, NEW phs \in Deques(Byte), NEW next \in Nat, NEW s \in Seq(Byte)
  PROVE  CellsOfAll(OutputString(phs, next, s)) = CellsOfAll(phs) \o ByteCells(s)
PROOF
<1> DEFINE n == Len(phs)
<1>0. /\ n \in Nat /\ CellsOfAll(phs) \in Seq(Cells(Byte)) /\ ByteCells(s) \in Seq(Cells(Byte))
      /\ \A i \in 1..n : phs[i] \in PlaceholderOf(Byte)
  BY DequeElements, CellsConcat, ByteCellsFacts
<1>1. CASE LastIsKnown(phs)
  <2> DEFINE t == phs[n].contents \o s
             p == [phs[n] EXCEPT !.contents = t]
  <2>1. n \in 1..n /\ phs[n].contentsKnown
    BY <1>0, <1>1 DEF LastIsKnown, Deques
  <2>2. phs[n] \in PlaceholderOf(Byte) /\ phs[n].contents \in Seq(Byte)
    BY <1>0, <2>1 DEF PlaceholderOf
  <2>3. t \in Seq(Byte)
    BY <2>2, ConcatProperties
  <2>4. OutputString(phs, next, s) = [phs EXCEPT ![n] = p]
    BY <1>1, Zenon DEF OutputString
  <2>5. ByteCells(t) = ByteCells(phs[n].contents) \o ByteCells(s)
    BY <2>2, ByteCellsConcat, Zenon
  <2>6. ByteCells(phs[n].contents) \in Seq(Cells(Byte))
    BY <2>2, ByteCellsFacts
  <2> DEFINE r == phs[n]
  <2> HIDE DEF t
  <2>7. p \in PlaceholderOf(Byte) /\ p.contentsKnown = r.contentsKnown /\ p.contents = t
    <3>1. r \in PlaceholderOf(Byte)
      BY <2>2
    <3>2. p = [r EXCEPT !.contents = t]
      OBVIOUS
    <3> HIDE DEF r, p
    <3> QED
      BY <2>3, <3>1, <3>2 DEF PlaceholderOf
  <2>8. CellsOf(p) = ByteCells(phs[n].contents) \o ByteCells(s)
    BY <2>1, <2>5, <2>7 DEF CellsOf
  <2>9. CellsOf(phs[n]) = ByteCells(phs[n].contents)
    BY <2>1 DEF CellsOf
  <2> HIDE DEF p, n, r
  <2> DEFINE x == CellsBefore(phs, n)
             y == CellsBehind(phs, n)
  <2>10. /\ x \in Seq(Cells(Byte))
         /\ CellsOfAll(phs) = (x \o CellsOf(phs[n])) \o y
         /\ CellsOfAll([phs EXCEPT ![n] = p]) = (x \o CellsOf(p)) \o y
         /\ y = << >>
    <3>1. n \in 1..Len(phs) /\ n = Len(phs)
      BY <2>1 DEF n
    <3>2. AreAround(Byte, phs, n, p)
      BY <2>7, <3>1, CellsAround
    <3> QED
      BY <3>1, <3>2, Zenon DEF AreAround, CellsWith
  <2> HIDE DEF x, y
  <2>11. /\ CellsOfAll(phs) = x \o ByteCells(phs[n].contents)
         /\ CellsOfAll([phs EXCEPT ![n] = p])
              = x \o (ByteCells(phs[n].contents) \o ByteCells(s))
    <3>1. ASSUME NEW z \in Seq(Cells(Byte)) PROVE (x \o z) \o << >> = x \o z
      <4>1. x \o z \in Seq(Cells(Byte))
        BY <2>10, ConcatProperties
      <4> QED
        BY <4>1, ConcatEmptySeq
    <3>2. ByteCells(phs[n].contents) \o ByteCells(s) \in Seq(Cells(Byte))
      BY <1>0, <2>6, ConcatProperties
    <3> QED
      BY <2>6, <2>8, <2>9, <2>10, <3>1, <3>2
  <2>12. x \o (ByteCells(phs[n].contents) \o ByteCells(s))
           = (x \o ByteCells(phs[n].contents)) \o ByteCells(s)
    <3>1. /\ x \in Seq(Cells(Byte)) /\ ByteCells(s) \in Seq(Cells(Byte))
          /\ ByteCells(phs[n].contents) \in Seq(Cells(Byte))
      BY <1>0, <2>6, <2>10
    <3> DEFINE u == ByteCells(phs[n].contents)
               v == ByteCells(s)
    <3> HIDE DEF u, v
    <3>2. x \in Seq(Cells(Byte)) /\ u \in Seq(Cells(Byte)) /\ v \in Seq(Cells(Byte))
      BY <3>1 DEF u, v
    <3>3. x \o (u \o v) = (x \o u) \o v
      BY <3>2, Regroup
    <3> QED
      BY <3>3 DEF u, v
  <2> QED
    BY <2>4, <2>11, <2>12
<1>2. CASE ~LastIsKnown(phs)
  <2> DEFINE mid == OutputPlaceholder(phs, next)
  <2>1. Hole(next) \in PlaceholderOf(Byte) /\ Hole(next).contentsKnown = FALSE
    BY DEF Hole, PlaceholderOf
  <2>2. /\ mid \in Deques(Byte) /\ Len(mid) = n + 1 /\ mid[n + 1] = Hole(next)
    BY <2>1, AppendProperties DEF OutputPlaceholder, Deques
  <2>3. mid = phs \o << Hole(next) >>
    BY <2>1, AppendIsConcat DEF OutputPlaceholder, Deques
  <2>4. OutputString(phs, next, s) = FulfillAt(mid, n + 1, s)
    BY <1>2 DEF OutputString
  <2> HIDE DEF mid, n
  <2>5. n + 1 \in 1..Len(mid) /\ n + 1 = Len(mid)
    BY <1>0, <2>2
  <2> DEFINE x == CellsBefore(mid, n + 1)
             y == CellsBehind(mid, n + 1)
  <2>6. /\ x \in Seq(Cells(Byte))
        /\ CellsOfAll(mid) = (x \o CellsOf(mid[n + 1])) \o y
        /\ CellsOfAll(FulfillAt(mid, n + 1, s)) = (x \o ByteCells(s)) \o y
        /\ y = << >>
    <3> DEFINE m == n + 1
    <3>1. m \in 1..Len(mid) /\ m = Len(mid)
      BY <2>5
    <3> HIDE DEF m
    <3>2. mid \in Deques(Byte)
      BY <2>2
    <3>3. /\ CellsBefore(mid, m) \in Seq(Cells(Byte))
          /\ CellsBehind(mid, m) = << >>
      BY <3>1, <3>2, FulfillCells
    <3>4. CellsOfAll(mid) = CellsWith(mid, m, CellsOf(mid[m]))
      BY <3>1, <3>2, FulfillCells
    <3>5. CellsOfAll(FulfillAt(mid, m, s)) = CellsWith(mid, m, ByteCells(s))
      BY <3>1, <3>2, FulfillCells
    <3> QED
      BY <3>3, <3>4, <3>5, Zenon DEF m, CellsWith
  <2> HIDE DEF x, y
  <2> DEFINE h == CellsOf(Hole(next))
  <2>7. << Hole(next) >> \in Deques(Byte) /\ h \in Seq(Cells(Byte)) /\ CellsOfAll(<< Hole(next) >>) = h
    <3>1. << Hole(next) >> \in Deques(Byte)
      BY <2>1 DEF Deques
    <3>2. CellsOfAll(<< Hole(next) >>) = h
      BY <2>1, CellsOfShort
    <3> QED
      BY <3>1, <3>2, CellsConcat
  <2>8. CellsOfAll(mid) = CellsOfAll(phs) \o h
    BY <2>3, <2>7, CellsConcat, Zenon
  <2> HIDE DEF h
  <2>9. ASSUME NEW z \in Seq(Cells(Byte)) PROVE (x \o z) \o << >> = x \o z
    <3>1. x \o z \in Seq(Cells(Byte))
      BY <2>6, ConcatProperties
    <3> QED
      BY <3>1, ConcatEmptySeq
  <2>10. x \o h = CellsOfAll(phs) \o h
    BY <2>2, <2>6, <2>7, <2>8, <2>9 DEF h
  <2>11. x = CellsOfAll(phs)
    <3> DEFINE c == CellsOfAll(phs)
    <3>1. c \in Seq(Cells(Byte)) /\ x \o h = c \o h
      BY <1>0, <2>10
    <3> HIDE DEF c
    <3>2. x \in Seq(Cells(Byte)) /\ h \in Seq(Cells(Byte))
      BY <2>6, <2>7
    <3>3. x = c
      BY <3>1, <3>2, ConcatSimplifications
    <3> QED
      BY <3>3 DEF c
  <2> QED
    BY <1>0, <2>4, <2>6, <2>9, <2>11
<1> QED
  BY <1>1, <1>2


-----------------------------------------------------------------------------
(* The steps of HoleStream, by the cells pending before and after.         *)

HolesAreNew(q, n) ==
  \A k \in (n + 1)..Len(q), j \in 1..Len(q) : IsHoleCell(q[k]) /\ j # k => q[j] # q[k]

NoHoles(cells) == \A k \in DOMAIN cells : ~IsHoleCell(cells[k])

IsExtended(p, q) ==
  /\ Len(q) > Len(p)
  /\ SubSeq(q, 1, Len(p)) = p
  /\ HolesAreNew(q, Len(p))

IsFilled(p, q) ==
  \E k \in DOMAIN p, n \in 0..Len(q) :
    LET behind == SubSeq(p, k + 1, Len(p))
        end == k - 1 + n + Len(behind)
    IN  /\ IsHoleCell(p[k])
        /\ end <= Len(q)
        /\ SubSeq(q, 1, k - 1) = SubSeq(p, 1, k - 1)
        /\ NoHoles(SubSeq(q, k, k - 1 + n))
        /\ SubSeq(q, k + n, end) = behind
        /\ HolesAreNew(q, end)

IsWritten(p, b, q) ==
  \E n \in DOMAIN p :
    /\ NoHoles(SubSeq(p, 1, n))
    /\ b = SubSeq(p, 1, n)
    /\ q = SubSeq(p, n + 1, Len(p))

\* The holes of e are in e once, and not in front.
NewBehind(front, e) ==
  \A i \in 1..Len(e) :
    IsHoleCell(e[i]) => /\ \A j \in 1..Len(front) : front[j] # e[i]
                        /\ \A j \in 1..Len(e) : j # i => e[j] # e[i]

LEMMA BehindAreNew ==
  ASSUME NEW S, NEW front \in Seq(S), NEW e \in Seq(S), NewBehind(front, e)
  PROVE  HolesAreNew(front \o e, Len(front))
PROOF
<1> DEFINE q == front \o e
           n == Len(front)
           m == Len(e)
<1>1. /\ n \in Nat /\ m \in Nat /\ Len(q) = n + m
      /\ \A i \in 1..(n + m) : q[i] = IF i <= n THEN front[i] ELSE e[i - n]
  BY ConcatProperties, LenProperties
<1> HIDE DEF q, n, m
<1>2. ASSUME NEW k \in (n + 1)..Len(q), NEW j \in 1..Len(q), IsHoleCell(q[k]), j # k
      PROVE  q[j] # q[k]
  <2>1. k - n \in 1..m /\ k \in 1..(n + m) /\ ~(k <= n) /\ j \in 1..(n + m)
    BY <1>1
  <2>2. q[k] = e[k - n]
    BY <1>1, <2>1
  <2>3. IsHoleCell(e[k - n])
    BY <1>2, <2>2
  <2>4. CASE j <= n
    <3>1. q[j] = front[j] /\ j \in 1..n
      BY <1>1, <2>1, <2>4
    <3> QED
      BY <2>1, <2>2, <2>3, <3>1 DEF NewBehind, n, m
  <2>5. CASE ~(j <= n)
    <3>1. q[j] = e[j - n] /\ j - n \in 1..m /\ j - n # k - n
      BY <1>1, <1>2, <2>1, <2>5
    <3> QED
      BY <2>1, <2>2, <2>3, <3>1 DEF NewBehind, m
  <2> QED
    BY <2>4, <2>5
<1> QED
  BY <1>2 DEF HolesAreNew, q, n

\* Cells behind all others.
LEMMA ExtendedCells ==
  ASSUME NEW S, NEW p \in Seq(S), NEW e \in Seq(S), e # << >>, NewBehind(p, e)
  PROVE  IsExtended(p, p \o e)
PROOF
<1> DEFINE q == p \o e
           n == Len(p)
<1>1. /\ n \in Nat /\ Len(e) \in Nat /\ Len(e) # 0 /\ q \in Seq(S) /\ Len(q) = n + Len(e)
      /\ \A i \in 1..(n + Len(e)) : q[i] = IF i <= n THEN p[i] ELSE e[i - n]
  BY ConcatProperties, LenProperties, EmptySeq
<1>2. HolesAreNew(q, n)
  BY BehindAreNew
<1> HIDE DEF q
<1>3. SubSeq(q, 1, n) = p
  <2>1. \A i \in 1..Len(p) : q[0 + i] = p[i]
    BY <1>1
  <2>2. 0 + Len(p) <= Len(q) /\ 0 \in Nat
    BY <1>1
  <2>3. SubSeq(q, 0 + 1, 0 + Len(p)) = p
    BY <1>1, <2>1, <2>2, Piece
  <2> QED
    BY <1>1, <2>3
<1>4. Len(q) > n
  BY <1>1
<1> QED
  BY <1>2, <1>3, <1>4 DEF IsExtended, q

\* Bytes in the place of a hole, and more cells behind all others.
LEMMA FilledCells ==
  ASSUME NEW S, NEW x \in Seq(S), NEW h \in S, NEW y \in Seq(S), NEW b \in Seq(S),
         NEW e \in Seq(S), IsHoleCell(h), NoHoles(b), NewBehind((x \o b) \o y, e)
  PROVE  IsFilled((x \o << h >>) \o y, ((x \o b) \o y) \o e)
PROOF
<1> DEFINE p == (x \o << h >>) \o y
           f == (x \o b) \o y
           q == f \o e
           k == Len(x) + 1
           n == Len(b)
           l == Len(y)
<1>1. << h >> \in Seq(S) /\ Len(<< h >>) = 1 /\ << h >>[1] = h
  OBVIOUS
<1>2. /\ p \in Seq(S) /\ Len(x) \in Nat /\ l \in Nat
      /\ Len(p) = Len(x) + 1 + l
      /\ SubSeq(p, 1, Len(x)) = x
      /\ SubSeq(p, Len(x) + 1 + 1, Len(p)) = y
      /\ p[Len(x) + 1] = h
  <2>1. /\ p \in Seq(S) /\ Len(x) \in Nat /\ Len(<< h >>) \in Nat /\ l \in Nat
        /\ Len(p) = Len(x) + Len(<< h >>) + l
        /\ SubSeq(p, 1, Len(x)) = x
        /\ SubSeq(p, Len(x) + Len(<< h >>) + 1, Len(p)) = y
        /\ \A i \in 1..Len(<< h >>) : p[Len(x) + i] = << h >>[i]
    BY <1>1, Cuts
  <2> QED
    BY <1>1, <2>1
<1>3. /\ f \in Seq(S) /\ n \in Nat
      /\ Len(f) = Len(x) + n + l
      /\ SubSeq(f, 1, Len(x)) = x
      /\ SubSeq(f, Len(x) + 1, Len(x) + n) = b
      /\ SubSeq(f, Len(x) + n + 1, Len(f)) = y
  BY Cuts
<1>4. HolesAreNew(q, Len(f))
  <2>1. f \in Seq(S) /\ NewBehind(f, e)
    BY <1>3
  <2> HIDE DEF f
  <2> QED
    BY <2>1, BehindAreNew
<1> HIDE DEF f, p
<1>5. /\ q \in Seq(S) /\ Len(q) = Len(f) + Len(e) /\ Len(e) \in Nat
      /\ \A i \in 1..(Len(f) + Len(e)) : q[i] = IF i <= Len(f) THEN f[i] ELSE e[i - Len(f)]
  <2>1. f \in Seq(S)
    BY <1>3
  <2> HIDE DEF f
  <2> QED
    BY <2>1, ConcatProperties, LenProperties
<1> HIDE DEF q
<1>6. ASSUME NEW m \in Nat, NEW u \in Seq(S), m + Len(u) <= Len(f),
             SubSeq(f, m + 1, m + Len(u)) = u
      PROVE  SubSeq(q, m + 1, m + Len(u)) = u
  <2>1. Len(u) \in Nat /\ Len(f) \in Nat
    BY <1>3, LenProperties
  <2>2. \A i \in 1..Len(u) : q[m + i] = u[i]
    <3> SUFFICES ASSUME NEW i \in 1..Len(u) PROVE q[m + i] = u[i]
      OBVIOUS
    <3>1. m + i \in 1..Len(f) /\ m + i \in 1..(Len(f) + Len(e)) /\ m + i <= Len(f)
      BY <1>5, <1>6, <2>1
    <3>2. q[m + i] = f[m + i]
      BY <1>5, <3>1
    <3>3. f[m + i] = u[i]
      <4> DEFINE r == SubSeq(f, m + 1, m + Len(u))
      <4>1. \A a \in (m + 1)..(m + Len(u)) : f[a] \in S
        <5>1. \A a \in 1..Len(f) : f[a] \in S
          BY <1>3, ElementOfSeq
        <5>2. \A a \in (m + 1)..(m + Len(u)) : a \in 1..Len(f)
          BY <1>6, <2>1
        <5> QED
          BY <5>1, <5>2
      <4>2. \A a \in 1..((m + Len(u)) - (m + 1) + 1) : r[a] = f[(m + 1) + a - 1]
        <5>1. m + 1 \in Int /\ m + Len(u) \in Int
          BY <2>1
        <5> QED
          BY <1>3, <4>1, <5>1, SubSeqProperties
      <4>3. i \in 1..((m + Len(u)) - (m + 1) + 1) /\ (m + 1) + i - 1 = m + i
        BY <2>1
      <4> HIDE DEF r
      <4>4. r[i] = f[m + i]
        BY <4>2, <4>3
      <4> QED
        BY <1>6, <4>4 DEF r
    <3> QED
      BY <3>2, <3>3
  <2>3. m + Len(u) <= Len(q)
    BY <1>5, <1>6, <2>1
  <2> QED
    BY <1>5, <2>2, <2>3, Piece
<1>7. SubSeq(q, 1, Len(x)) = x
  <2>1. 0 + 1 = 1 /\ 0 + Len(x) = Len(x) /\ 0 + Len(x) <= Len(f) /\ 0 \in Nat
    BY <1>2, <1>3
  <2>2. SubSeq(f, 0 + 1, 0 + Len(x)) = x
    BY <1>3, <2>1
  <2>3. SubSeq(q, 0 + 1, 0 + Len(x)) = x
    BY <1>6, <2>1, <2>2
  <2> QED
    BY <2>1, <2>3
<1>8. SubSeq(q, Len(x) + 1, Len(x) + n) = b
  <2>1. Len(x) + Len(b) <= Len(f)
    BY <1>2, <1>3
  <2> QED
    BY <1>2, <1>3, <1>6, <2>1
<1>9. SubSeq(q, (Len(x) + n) + 1, (Len(x) + n) + l) = y
  <2>1. Len(x) + n \in Nat /\ (Len(x) + n) + Len(y) <= Len(f) /\ Len(f) = (Len(x) + n) + Len(y)
    BY <1>2, <1>3
  <2>2. SubSeq(f, (Len(x) + n) + 1, (Len(x) + n) + Len(y)) = y
    BY <1>3, <2>1
  <2> QED
    BY <1>6, <2>1, <2>2
<1>10. /\ k \in Nat /\ k - 1 = Len(x) /\ k - 1 + n = Len(x) + n
       /\ k + n = Len(x) + n + 1 /\ k - 1 + n + l = Len(f)
       /\ k - 1 + n + l = (Len(x) + n) + l /\ Len(f) <= Len(q)
       /\ n \in 0..Len(q) /\ k \in 1..Len(p) /\ k + 1 = Len(x) + 1 + 1
  BY <1>2, <1>3, <1>5
<1>11. DOMAIN p = 1..Len(p)
  BY <1>2, LenProperties
<1> HIDE DEF n, l
<1>12. /\ k \in DOMAIN p /\ IsHoleCell(p[k])
       /\ SubSeq(p, k + 1, Len(p)) = y
       /\ SubSeq(q, 1, k - 1) = SubSeq(p, 1, k - 1)
       /\ NoHoles(SubSeq(q, k, k - 1 + n))
       /\ SubSeq(q, k + n, k - 1 + n + l) = y
       /\ HolesAreNew(q, k - 1 + n + l)
       /\ k - 1 + n + l <= Len(q)
  BY <1>2, <1>4, <1>7, <1>8, <1>9, <1>10, <1>11
<1> HIDE DEF k
<1>13. n \in 0..Len(q)
  BY <1>10
<1> QED
  BY <1>12, <1>13 DEF IsFilled, p, f, q, l

\* Bytes from the front of the stream.
LEMMA WrittenCells ==
  ASSUME NEW S, NEW b \in Seq(S), NEW y \in Seq(S), b # << >>, NoHoles(b)
  PROVE  IsWritten(b \o y, b, y)
PROOF
<1> DEFINE p == b \o y
           n == Len(b)
<1>1. p = (<< >> \o b) \o y /\ << >> \in Seq(S) /\ Len(<< >>) = 0
  BY ConcatEmptySeq
<1>2. /\ p \in Seq(S) /\ n \in Nat /\ Len(y) \in Nat
      /\ Len(p) = 0 + n + Len(y)
      /\ SubSeq(p, 0 + 1, 0 + n) = b
      /\ SubSeq(p, 0 + n + 1, Len(p)) = y
  BY <1>1, Cuts
<1>3. n # 0
  BY EmptySeq
<1>4. DOMAIN p = 1..Len(p)
  BY <1>2, LenProperties
<1>5. n \in DOMAIN p /\ SubSeq(p, 1, n) = b /\ SubSeq(p, n + 1, Len(p)) = y
  BY <1>2, <1>3, <1>4
<1> HIDE DEF p, n
<1> QED
  BY <1>5 DEF IsWritten, p

-----------------------------------------------------------------------------
(* The cells of a deque, while a filter runs.  What was there before is in *)
(* front, with one hole filled or none; behind it is what was output.      *)

\* The cells of e are new: its holes have tickets from lo on and below hi, and
\* each is in it once.
HolesFrom(e, lo, hi) ==
  /\ \A i \in 1..Len(e) :
       IsHoleCell(e[i]) => \E t \in Nat : lo <= t /\ t < hi /\ e[i] = HoleCell(t)
  /\ \A i, j \in 1..Len(e) : IsHoleCell(e[i]) /\ e[i] = e[j] => i = j

\* The cells of front are old: its holes have tickets below lo.
HolesUpTo(front, lo) ==
  \A i \in 1..Len(front) :
    IsHoleCell(front[i]) => \E t \in Nat : t < lo /\ front[i] = HoleCell(t)

\* front is p with a hole filled.
FilledOnce(Byte, p, front) ==
  \E x, b, y \in Seq(Cells(Byte)), h \in Cells(Byte) :
    /\ IsHoleCell(h) /\ NoHoles(b)
    /\ p = (x \o << h >>) \o y
    /\ front = (x \o b) \o y

\* From the cells p to the cells q, by outputs with tickets from lo to hi.
EvolvedBy(Byte, p, q, lo, hi, filled, front, e) ==
  /\ front \in Seq(Cells(Byte)) /\ e \in Seq(Cells(Byte))
  /\ q = front \o e
  /\ HolesUpTo(front, lo) /\ HolesFrom(e, lo, hi)
  /\ front = p \/ (filled /\ FilledOnce(Byte, p, front))

Evolved(Byte, p, q, lo, hi, filled) ==
  \E front, e : EvolvedBy(Byte, p, q, lo, hi, filled, front, e)

\* If a sequence is the concatenation of two in two ways, one cut is behind the
\* other, and the same lies between them.
CutBehind(S, a, b, c, d) == \E m \in Seq(S) : a = c \o m /\ d = m \o b

LEMMA TwoCuts ==
  ASSUME NEW S, NEW a \in Seq(S), NEW b \in Seq(S), NEW c \in Seq(S), NEW d \in Seq(S),
         a \o b = c \o d, Len(c) <= Len(a)
  PROVE  CutBehind(S, a, b, c, d)
PROOF
<1> DEFINE l == Len(a)
           n == Len(c)
           m == SubSeq(a, n + 1, l)
<1>1. l \in Nat /\ n \in Nat /\ n <= l /\ Len(b) \in Nat /\ Len(d) \in Nat
  BY LenProperties
<1>2. /\ m \in Seq(S) /\ Len(m) = l - n
      /\ \A i \in 1..(l - n) : m[i] = a[n + i]
  <2>1. a \in Seq(S) /\ l = Len(a)
    OBVIOUS
  <2> HIDE DEF l, n
  <2> QED
    BY <1>1, <2>1, Piece
<1> DEFINE s == a \o b
<1>3. /\ Len(s) = l + Len(b)
      /\ \A i \in 1..(l + Len(b)) : s[i] = IF i <= l THEN a[i] ELSE b[i - l]
  BY ConcatProperties
<1>4. /\ Len(s) = n + Len(d)
      /\ \A i \in 1..(n + Len(d)) : s[i] = IF i <= n THEN c[i] ELSE d[i - n]
  BY ConcatProperties
<1> HIDE DEF s, m
<1>5. a = c \o m
  <2> DEFINE t == c \o m
  <2>1. /\ t \in Seq(S) /\ Len(t) = n + (l - n)
        /\ \A i \in 1..(n + (l - n)) : t[i] = IF i <= n THEN c[i] ELSE m[i - n]
    BY <1>2, ConcatProperties
  <2> HIDE DEF t, l, n
  <2>2. Len(t) = l /\ Len(a) = l
    BY <1>1, <2>1 DEF l
  <2>3. ASSUME NEW i \in 1..l PROVE a[i] = t[i]
    <3>1. CASE i <= n
      <4>1. i \in 1..(n + Len(d)) /\ i \in 1..(l + Len(b)) /\ i \in 1..(n + (l - n))
        BY <1>1, <3>1
      <4>2. s[i] = a[i]
        BY <1>3, <4>1
      <4>3. s[i] = c[i]
        BY <1>4, <3>1, <4>1
      <4> QED
        BY <2>1, <3>1, <4>1, <4>2, <4>3
    <3>2. CASE ~(i <= n)
      <4>1. i - n \in 1..(l - n) /\ n + (i - n) = i /\ i \in 1..(n + (l - n))
        BY <1>1, <3>2
      <4>2. m[i - n] = a[n + (i - n)]
        BY <1>2, <4>1
      <4>3. t[i] = m[i - n]
        BY <2>1, <3>2, <4>1
      <4> QED
        BY <4>1, <4>2, <4>3
    <3> QED
      BY <3>1, <3>2
  <2> QED
    BY <2>1, <2>2, <2>3, SeqEqual DEF t
<1>6. d = m \o b
  <2> DEFINE t == m \o b
             k == l - n
  <2>1. /\ t \in Seq(S) /\ Len(t) = k + Len(b)
        /\ \A i \in 1..(k + Len(b)) : t[i] = IF i <= k THEN m[i] ELSE b[i - k]
    <3>1. m \in Seq(S) /\ Len(m) = k
      BY <1>2
    <3> HIDE DEF k
    <3> QED
      BY <3>1, ConcatProperties
  <2>2. k \in Nat /\ n + k = l
    BY <1>1
  <2> HIDE DEF t, l, n, k
  <2>3. Len(d) = k + Len(b)
    BY <1>1, <1>3, <1>4, <2>2
  <2>4. ASSUME NEW i \in 1..Len(d) PROVE d[i] = t[i]
    <3>1. /\ n + i \in 1..(n + Len(d)) /\ ~(n + i <= n) /\ (n + i) - n = i
          /\ n + i \in 1..(l + Len(b)) /\ i \in 1..(k + Len(b))
      BY <1>1, <2>2, <2>3
    <3>2. s[n + i] = d[i]
      BY <1>4, <3>1
    <3>3. CASE i <= k
      <4>1. n + i <= l /\ i \in 1..k
        BY <1>1, <2>2, <3>3
      <4>2. s[n + i] = a[n + i] /\ m[i] = a[n + i]
        BY <1>2, <1>3, <3>1, <4>1 DEF k
      <4> QED
        BY <2>1, <3>1, <3>2, <3>3, <4>2
    <3>4. CASE ~(i <= k)
      <4>1. ~(n + i <= l) /\ (n + i) - l = i - k
        BY <1>1, <2>2, <3>4
      <4>2. s[n + i] = b[i - k]
        BY <1>3, <3>1, <4>1
      <4> QED
        BY <2>1, <3>1, <3>2, <3>4, <4>2
    <3> QED
      BY <3>3, <3>4
  <2> QED
    BY <2>1, <2>3, <2>4, SeqEqual DEF t
<1> QED
  BY <1>2, <1>5, <1>6 DEF CutBehind

\* The elements of a concatenation.
LEMMA Joint ==
  ASSUME NEW S, NEW u \in Seq(S), NEW v \in Seq(S), NEW m, m = Len(u), NEW n, n = Len(v),
         NEW s, s = u \o v
  PROVE  /\ s \in Seq(S) /\ Len(s) = m + n
         /\ \A i \in 1..(m + n) : s[i] = IF i <= m THEN u[i] ELSE v[i - m]
BY ConcatProperties

\* New cells behind new cells.
LEMMA HolesBehind ==
  ASSUME NEW S, NEW e \in Seq(S), NEW c \in Seq(S),
         NEW lo \in Nat, NEW hi \in Nat, NEW next \in Nat, lo <= hi, hi <= next,
         HolesFrom(e, lo, hi), HolesFrom(c, hi, next)
  PROVE  HolesFrom(e \o c, lo, next)
PROOF
<1> DEFINE l == Len(e)
           n == Len(c)
           s == e \o c
<1>1. l \in Nat /\ n \in Nat
  BY LenProperties
<1>2. /\ Len(s) = l + n
      /\ \A i \in 1..(l + n) : s[i] = IF i <= l THEN e[i] ELSE c[i - l]
  BY ConcatProperties
<1>3. ASSUME NEW i \in 1..(l + n)
      PROVE  \/ i \in 1..l /\ s[i] = e[i]
             \/ i - l \in 1..n /\ i > l /\ s[i] = c[i - l]
  BY <1>1, <1>2
<1>4. \A i \in 1..l : IsHoleCell(e[i]) => \E t \in Nat : lo <= t /\ t < hi /\ e[i] = HoleCell(t)
  BY DEF HolesFrom
<1>5. \A i \in 1..n : IsHoleCell(c[i]) => \E t \in Nat : hi <= t /\ t < next /\ c[i] = HoleCell(t)
  BY DEF HolesFrom
<1>6. /\ \A i, j \in 1..l : IsHoleCell(e[i]) /\ e[i] = e[j] => i = j
      /\ \A i, j \in 1..n : IsHoleCell(c[i]) /\ c[i] = c[j] => i = j
  BY DEF HolesFrom
<1> HIDE DEF s, l, n
<1>7. ASSUME NEW i \in 1..l, NEW j \in 1..n, IsHoleCell(e[i]), IsHoleCell(c[j])
      PROVE  e[i] # c[j]
  <2>1. PICK t \in Nat : t < hi /\ e[i] = HoleCell(t)
    BY <1>4, <1>7
  <2>2. PICK u \in Nat : hi <= u /\ c[j] = HoleCell(u)
    BY <1>5, <1>7
  <2>3. t # u
    BY <2>1, <2>2
  <2> QED
    BY <2>1, <2>2, <2>3 DEF HoleCell
<1>8. ASSUME NEW i \in 1..(l + n), IsHoleCell(s[i])
      PROVE  \E t \in Nat : lo <= t /\ t < next /\ s[i] = HoleCell(t)
  <2>1. CASE i \in 1..l /\ s[i] = e[i]
    <3>1. PICK t \in Nat : lo <= t /\ t < hi /\ e[i] = HoleCell(t)
      BY <1>4, <1>8, <2>1
    <3>2. t < next
      BY <3>1
    <3> QED
      BY <2>1, <3>1, <3>2
  <2>2. CASE i - l \in 1..n /\ s[i] = c[i - l]
    <3>1. PICK t \in Nat : hi <= t /\ t < next /\ c[i - l] = HoleCell(t)
      BY <1>5, <1>8, <2>2
    <3>2. lo <= t
      BY <3>1
    <3> QED
      BY <2>2, <3>1, <3>2
  <2> QED
    BY <1>3, <2>1, <2>2
<1>9. ASSUME NEW i \in 1..(l + n), NEW j \in 1..(l + n), IsHoleCell(s[i]), s[i] = s[j]
      PROVE  i = j
  <2>1. CASE i \in 1..l /\ j \in 1..l /\ s[i] = e[i] /\ s[j] = e[j]
    BY <1>6, <1>9, <2>1
  <2>2. CASE i - l \in 1..n /\ j - l \in 1..n /\ s[i] = c[i - l] /\ s[j] = c[j - l]
    <3>1. i - l = j - l
      BY <1>6, <1>9, <2>2
    <3> QED
      BY <1>1, <3>1
  <2>3. CASE i \in 1..l /\ j - l \in 1..n /\ s[i] = e[i] /\ s[j] = c[j - l]
    BY <1>7, <1>9, <2>3
  <2>4. CASE i - l \in 1..n /\ j \in 1..l /\ s[i] = c[i - l] /\ s[j] = e[j]
    BY <1>7, <1>9, <2>4
  <2> QED
    BY <1>3, <2>1, <2>2, <2>3, <2>4
<1>10. HolesFrom(s, lo, next)
  BY <1>2, <1>8, <1>9 DEF HolesFrom
<1> QED
  BY <1>10 DEF s

\* Bytes have no holes; a new place is one.
LEMMA NewCells ==
  ASSUME NEW n \in Nat
  PROVE  /\ \A c : NoHoles(c) /\ DOMAIN c = 1..Len(c) => HolesFrom(c, n, n + 1)
         /\ HolesFrom(<< HoleCell(n) >>, n, n + 1)
PROOF
<1>1. ASSUME NEW c, NoHoles(c), DOMAIN c = 1..Len(c)
      PROVE  HolesFrom(c, n, n + 1)
  BY <1>1 DEF NoHoles, HolesFrom
<1> DEFINE s == << HoleCell(n) >>
<1>2. Len(s) = 1 /\ s[1] = HoleCell(n)
  OBVIOUS
<1>3. n <= n /\ n < n + 1
  OBVIOUS
<1> HIDE DEF s
<1>4. \A i \in 1..Len(s) : i = 1
  BY <1>2
<1>5. HolesFrom(s, n, n + 1)
  BY <1>2, <1>3, <1>4 DEF HolesFrom
<1> QED
  BY <1>1, <1>5 DEF s

\* Where the cells around a hole have been when n bytes are in its place.
HasBeenAt(l, n, i) == IF i <= l THEN i ELSE i - n + 1

\* The holes of q are those of p, but for one.
HolesMoved(p, q, l, n) ==
  /\ \A i \in 1..Len(q) :
       IsHoleCell(q[i]) =>
         HasBeenAt(l, n, i) \in 1..Len(p) /\ p[HasBeenAt(l, n, i)] = q[i]
  /\ \A i, j \in 1..Len(q) :
       IsHoleCell(q[i]) /\ IsHoleCell(q[j]) /\ HasBeenAt(l, n, i) = HasBeenAt(l, n, j)
         => i = j

\* They move when bytes come into the place of a hole.
LEMMA HolesAround ==
  ASSUME NEW S, NEW x \in Seq(S), NEW h \in S, NEW b \in Seq(S), NEW y \in Seq(S), NoHoles(b),
         NEW p, p = (x \o << h >>) \o y, NEW q, q = (x \o b) \o y,
         NEW l, l = Len(x), NEW n, n = Len(b)
  PROVE  HolesMoved(p, q, l, n)
PROOF
<1> DEFINE m == Len(y)
           hs == << h >>
           p1 == x \o hs
           q1 == x \o b
           at(i) == HasBeenAt(l, n, i)
<1>1. /\ l \in Nat /\ n \in Nat /\ m \in Nat /\ hs \in Seq(S) /\ Len(hs) = 1
      /\ m = Len(y) /\ p1 = x \o hs /\ q1 = x \o b /\ p = p1 \o y /\ q = q1 \o y
  BY LenProperties
<1> HIDE DEF hs, m, p1, q1
<1>2. /\ p1 \in Seq(S) /\ Len(p1) = l + 1
      /\ \A i \in 1..(l + 1) : p1[i] = IF i <= l THEN x[i] ELSE hs[i - l]
  BY <1>1, Joint
<1>3. /\ q1 \in Seq(S) /\ Len(q1) = l + n
      /\ \A i \in 1..(l + n) : q1[i] = IF i <= l THEN x[i] ELSE b[i - l]
  BY <1>1, Joint
<1>4. /\ Len(p) = l + 1 + m
      /\ \A i \in 1..(l + 1 + m) : p[i] = IF i <= l + 1 THEN p1[i] ELSE y[i - (l + 1)]
  BY <1>1, <1>2, Joint
<1>5. /\ Len(q) = l + n + m
      /\ \A i \in 1..(l + n + m) : q[i] = IF i <= l + n THEN q1[i] ELSE y[i - (l + n)]
  BY <1>1, <1>3, Joint
<1>6. \A i \in 1..n : ~IsHoleCell(b[i])
  <2>1. DOMAIN b = 1..n
    BY LenProperties
  <2> QED
    BY <2>1 DEF NoHoles
<1>7. ASSUME NEW i \in 1..(l + n + m), IsHoleCell(q[i])
      PROVE  \/ i <= l /\ i \in 1..(l + 1 + m) /\ p[i] = q[i]
             \/ i > l + n /\ i - n + 1 \in 1..(l + 1 + m) /\ p[i - n + 1] = q[i]
  <2>1. CASE i <= l
    <3>1. i \in 1..(l + 1 + m) /\ i <= l + 1 /\ i \in 1..(l + 1) /\ i <= l + n /\ i \in 1..(l + n)
      BY <1>1, <2>1
    <3>2. p[i] = p1[i] /\ p1[i] = x[i]
      BY <1>2, <1>4, <2>1, <3>1
    <3>3. q[i] = q1[i] /\ q1[i] = x[i]
      BY <1>3, <1>5, <2>1, <3>1
    <3> QED
      BY <2>1, <3>1, <3>2, <3>3
  <2>2. CASE i > l /\ i <= l + n
    <3>1. i \in 1..(l + n) /\ ~(i <= l) /\ i - l \in 1..n
      BY <1>1, <2>2
    <3>2. q[i] = b[i - l]
      BY <1>3, <1>5, <2>2, <3>1
    <3> QED
      BY <1>6, <1>7, <3>1, <3>2
  <2>3. CASE i > l + n
    <3>1. /\ ~(i <= l + n) /\ i - n + 1 \in 1..(l + 1 + m) /\ ~(i - n + 1 <= l + 1)
          /\ (i - n + 1) - (l + 1) = i - (l + n)
      BY <1>1, <2>3
    <3>2. q[i] = y[i - (l + n)]
      BY <1>5, <3>1
    <3>3. p[i - n + 1] = y[(i - n + 1) - (l + 1)]
      BY <1>4, <3>1
    <3> QED
      BY <2>3, <3>1, <3>2, <3>3
  <2>4. i <= l \/ (i > l /\ i <= l + n) \/ i > l + n
    BY <1>1
  <2> QED
    BY <2>1, <2>2, <2>3, <2>4
<1>8. ASSUME NEW i \in 1..(l + n + m), IsHoleCell(q[i])
      PROVE  at(i) \in 1..(l + 1 + m) /\ p[at(i)] = q[i] /\ (i <= l \/ i > l + n)
  <2>1. CASE i <= l
    BY <1>1, <1>7, <1>8, <2>1 DEF HasBeenAt
  <2>2. CASE ~(i <= l)
    BY <1>1, <1>7, <1>8, <2>2 DEF HasBeenAt
  <2> QED
    BY <2>1, <2>2
<1>9. ASSUME NEW i \in 1..(l + n + m), NEW j \in 1..(l + n + m),
             IsHoleCell(q[i]), IsHoleCell(q[j]), at(i) = at(j)
      PROVE  i = j
  <2>1. (i <= l \/ i > l + n) /\ (j <= l \/ j > l + n)
    BY <1>8, <1>9
  <2> QED
    BY <1>1, <1>9, <2>1 DEF HasBeenAt
<1> QED
  BY <1>4, <1>5, <1>8, <1>9 DEF HolesMoved

\* Filling a hole leaves the other holes as they were.
LEMMA HolesFilled ==
  ASSUME NEW S, NEW x \in Seq(S), NEW h \in S, NEW b \in Seq(S), NEW y \in Seq(S), NoHoles(b),
         NEW lo, NEW hi
  PROVE  LET p == (x \o << h >>) \o y
             q == (x \o b) \o y
         IN  /\ HolesUpTo(p, lo) => HolesUpTo(q, lo)
             /\ HolesFrom(p, lo, hi) => HolesFrom(q, lo, hi)
PROOF
<1> DEFINE p == (x \o << h >>) \o y
           q == (x \o b) \o y
           l == Len(x)
           n == Len(b)
           at(i) == HasBeenAt(l, n, i)
<1>0. p = (x \o << h >>) \o y /\ q = (x \o b) \o y /\ l = Len(x) /\ n = Len(b)
  OBVIOUS
<1> HIDE DEF p, q, l, n
<1>1. /\ \A i \in 1..Len(q) :
           IsHoleCell(q[i]) => at(i) \in 1..Len(p) /\ p[at(i)] = q[i]
      /\ \A i, j \in 1..Len(q) :
           IsHoleCell(q[i]) /\ IsHoleCell(q[j]) /\ at(i) = at(j) => i = j
  <2>1. HolesMoved(p, q, l, n)
    BY <1>0, HolesAround, Zenon
  <2> QED
    BY <2>1 DEF HolesMoved
<1> HIDE DEF at
<1>2. ASSUME HolesUpTo(p, lo)
      PROVE  HolesUpTo(q, lo)
  BY <1>1, <1>2 DEF HolesUpTo
<1>3. ASSUME HolesFrom(p, lo, hi)
      PROVE  HolesFrom(q, lo, hi)
  <2>1. ASSUME NEW i \in 1..Len(q), IsHoleCell(q[i])
        PROVE  \E t \in Nat : lo <= t /\ t < hi /\ q[i] = HoleCell(t)
    BY <1>1, <1>3, <2>1 DEF HolesFrom
  <2>2. ASSUME NEW i \in 1..Len(q), NEW j \in 1..Len(q), IsHoleCell(q[i]), q[i] = q[j]
        PROVE  i = j
    <3>1. /\ at(i) \in 1..Len(p) /\ p[at(i)] = q[i]
          /\ at(j) \in 1..Len(p) /\ p[at(j)] = q[j]
      BY <1>1, <2>2
    <3>2. at(i) = at(j)
      BY <1>3, <2>2, <3>1 DEF HolesFrom
    <3> QED
      BY <1>1, <2>2, <3>2
  <2> QED
    BY <2>1, <2>2 DEF HolesFrom
<1> QED
  BY <1>2, <1>3 DEF p, q

\* Concatenations of cells, grouped either way.
LEMMA Grouped ==
  ASSUME NEW Byte, NEW x \in Seq(Cells(Byte)), NEW y \in Seq(Cells(Byte)), NEW z \in Seq(Cells(Byte))
  PROVE  Cat(x, Cat(y, z)) = Cat(Cat(x, y), z)
BY CatFacts

\* Nothing has been output.
LEMMA EvolvesFromNone ==
  ASSUME NEW Byte, NEW p \in Seq(Cells(Byte)), NEW lo \in Nat, HolesUpTo(p, lo)
  PROVE  Evolved(Byte, p, p, lo, lo, FALSE)
PROOF
<1>1. << >> \in Seq(Cells(Byte)) /\ p = p \o << >> /\ HolesFrom(<< >>, lo, lo)
  BY ConcatEmptySeq DEF HolesFrom
<1> QED
  BY <1>1, Zenon DEF Evolved, EvolvedBy

\* Bytes, or a new place, are output behind all the rest.
LEMMA EvolvesByOutput ==
  ASSUME NEW Byte, NEW p, NEW q, NEW lo \in Nat, NEW hi \in Nat, lo <= hi,
         NEW filled \in BOOLEAN, Evolved(Byte, p, q, lo, hi, filled),
         NEW c \in Seq(Cells(Byte)), HolesFrom(c, hi, hi + 1)
  PROVE  Evolved(Byte, p, q \o c, lo, hi + 1, filled)
PROOF
<1>1. PICK front, e : EvolvedBy(Byte, p, q, lo, hi, filled, front, e)
  BY DEF Evolved
<1>2. /\ front \in Seq(Cells(Byte)) /\ e \in Seq(Cells(Byte)) /\ q = front \o e
      /\ HolesUpTo(front, lo) /\ HolesFrom(e, lo, hi)
      /\ front = p \/ (filled /\ FilledOnce(Byte, p, front))
  BY <1>1 DEF EvolvedBy
<1>3. hi + 1 \in Nat /\ hi <= hi + 1
  OBVIOUS
<1>4. HolesFrom(e \o c, lo, hi + 1)
  BY <1>2, <1>3, HolesBehind
<1>5. e \o c \in Seq(Cells(Byte))
  BY <1>2, ConcatProperties
<1>6. q \o c = front \o (e \o c)
  <2>1. Cat(front, Cat(e, c)) = Cat(Cat(front, e), c)
    BY <1>2, Grouped
  <2> QED
    BY <1>2, <2>1 DEF Cat
<1>7. EvolvedBy(Byte, p, q \o c, lo, hi + 1, filled, front, e \o c)
  BY <1>2, <1>4, <1>5, <1>6, Zenon DEF EvolvedBy
<1> QED
  BY <1>7 DEF Evolved

\* Where the hole h is in front \o e: in front, or in e.
CutInFront(Byte, front, e, x, h, y) ==
  \E m \in Seq(Cells(Byte)) : front = (x \o << h >>) \o m /\ y = m \o e
CutInBack(Byte, front, e, x, h, y) ==
  \E m \in Seq(Cells(Byte)) : x = front \o m /\ e = (m \o << h >>) \o y

\* One cell more.
LEMMA OneBehind ==
  ASSUME NEW S, NEW u \in Seq(S), NEW h \in S
  PROVE  u \o << h >> \in Seq(S) /\ Len(u \o << h >>) = Len(u) + 1
BY LenProperties

LEMMA HoleInEither ==
  ASSUME NEW Byte, NEW front \in Seq(Cells(Byte)), NEW e \in Seq(Cells(Byte)),
         NEW x \in Seq(Cells(Byte)), NEW h \in Cells(Byte), NEW y \in Seq(Cells(Byte)),
         front \o e = (x \o << h >>) \o y
  PROVE  CutInFront(Byte, front, e, x, h, y) \/ CutInBack(Byte, front, e, x, h, y)
PROOF
<1> DEFINE S == Cells(Byte)
           hs == << h >>
           u == x \o hs
           v == hs \o y
<1>1. hs \in Seq(S) /\ Len(hs) = 1
  OBVIOUS
<1> HIDE DEF hs
<1>2. /\ u \in Seq(S) /\ Len(u) = Len(x) + 1 /\ v \in Seq(S)
      /\ Len(x) \in Nat /\ Len(front) \in Nat
  <2>1. Len(x) \in Nat /\ Len(front) \in Nat
    BY LenProperties
  <2>2. v \in Seq(S)
    BY <1>1, ConcatProperties
  <2>3. u \in Seq(S) /\ Len(u) = Len(x) + 1
    BY OneBehind DEF hs
  <2> QED
    BY <2>1, <2>2, <2>3
<1>3. front \o e = u \o y /\ u \o y = x \o v
  <2>1. Cat(x, Cat(hs, y)) = Cat(Cat(x, hs), y)
    BY <1>1, Grouped
  <2> QED
    BY <2>1 DEF hs, Cat
<1>4. CASE Len(u) <= Len(front)
  <2>1. CutBehind(S, front, e, u, y)
    <3> HIDE DEF u, v, S
    <3>1. front \in Seq(S) /\ e \in Seq(S) /\ y \in Seq(S)
      BY DEF S
    <3> QED
      BY <1>2, <1>3, <1>4, <3>1, TwoCuts
  <2> QED
    BY <2>1 DEF CutInFront, CutBehind, hs
<1>5. CASE Len(front) <= Len(x)
  <2>1. CutBehind(S, x, v, front, e)
    <3> HIDE DEF u, v, S
    <3>1. front \in Seq(S) /\ e \in Seq(S) /\ x \in Seq(S)
      BY DEF S
    <3>2. x \o v = front \o e
      BY <1>3
    <3> QED
      BY <1>2, <1>5, <3>1, <3>2, TwoCuts
  <2>2. PICK m \in Seq(S) : x = front \o m /\ e = m \o v
    BY <2>1 DEF CutBehind
  <2>3. Cat(m, Cat(hs, y)) = Cat(Cat(m, hs), y)
    BY <1>1, <2>2, Grouped
  <2>4. e = (m \o hs) \o y
    BY <2>2, <2>3 DEF Cat
  <2> QED
    BY <2>2, <2>4 DEF CutInBack, hs
<1> QED
  BY <1>2, <1>4, <1>5

\* What was pending evolves when cells that are no holes take the place of a hole.
ByFill(Byte, p, q, lo, hi, filled, x, g, y, b) ==
  Evolved(Byte, p, (x \o b) \o y, lo, hi, filled)

\* A hole that was reserved in the same run is filled.
LEMMA EvolvesByNewFill ==
  ASSUME NEW Byte, NEW p, NEW q, NEW lo \in Nat, NEW hi \in Nat, lo <= hi,
         NEW filled, Evolved(Byte, p, q, lo, hi, filled),
         NEW x \in Seq(Cells(Byte)), NEW y \in Seq(Cells(Byte)), NEW b \in Seq(Cells(Byte)),
         NEW g \in Nat, lo <= g, NoHoles(b), q = (x \o << HoleCell(g) >>) \o y
  PROVE  ByFill(Byte, p, q, lo, hi, filled, x, g, y, b)
PROOF
<1> DEFINE h == HoleCell(g)
<1>1. PICK front, e : EvolvedBy(Byte, p, q, lo, hi, filled, front, e)
  BY DEF Evolved
<1>2. /\ front \in Seq(Cells(Byte)) /\ e \in Seq(Cells(Byte)) /\ q = front \o e
      /\ HolesUpTo(front, lo) /\ HolesFrom(e, lo, hi)
      /\ front = p \/ (filled /\ FilledOnce(Byte, p, front))
  BY <1>1 DEF EvolvedBy
<1>3. h \in Cells(Byte) /\ IsHoleCell(h)
  BY CellFacts
<1>4. ~CutInFront(Byte, front, e, x, h, y)
  <2>1. SUFFICES ASSUME CutInFront(Byte, front, e, x, h, y) PROVE FALSE
    OBVIOUS
  <2> HIDE DEF h
  <2>2. PICK m \in Seq(Cells(Byte)) : front = (x \o << h >>) \o m
    BY <2>1 DEF CutInFront
  <2>3. << h >> \in Seq(Cells(Byte)) /\ Len(<< h >>) = 1 /\ << h >>[1] = h
    BY <1>3
  <2>4. /\ Len(x) \in Nat /\ Len(m) \in Nat /\ Len(<< h >>) \in Nat
        /\ Len(front) = Len(x) + Len(<< h >>) + Len(m)
        /\ \A i \in 1..Len(<< h >>) : front[Len(x) + i] = << h >>[i]
    BY <2>2, <2>3, Cuts
  <2>5. Len(x) + 1 \in 1..Len(front) /\ front[Len(x) + 1] = h
    BY <2>3, <2>4
  <2>6. PICK t \in Nat : t < lo /\ h = HoleCell(t)
    BY <1>2, <1>3, <2>5 DEF HolesUpTo
  <2>7. t = g
    BY <2>6 DEF h, HoleCell
  <2> QED
    BY <2>6, <2>7
<1>5. CutInBack(Byte, front, e, x, h, y)
  <2>1. front \o e = (x \o << h >>) \o y
    BY <1>2
  <2> HIDE DEF h
  <2> QED
    BY <1>2, <1>3, <1>4, <2>1, HoleInEither
<1>6. PICK m \in Seq(Cells(Byte)) : x = front \o m /\ e = (m \o << h >>) \o y
  BY <1>5 DEF CutInBack
<1> HIDE DEF h
<1> DEFINE e2 == (m \o b) \o y
<1>7. HolesFrom(e2, lo, hi)
  BY <1>2, <1>3, <1>6, HolesFilled, Zenon
<1>8. e2 \in Seq(Cells(Byte)) /\ (x \o b) \o y = front \o e2
  <2>1. m \o b \in Seq(Cells(Byte))
    BY ConcatProperties
  <2>2. e2 \in Seq(Cells(Byte))
    BY <2>1, ConcatProperties
  <2>3. Cat(front, Cat(m, b)) = Cat(Cat(front, m), b)
    BY <1>2, <1>6, Grouped
  <2> DEFINE n == m \o b
  <2>7. n \in Seq(Cells(Byte))
    BY <2>1
  <2> HIDE DEF n
  <2>4. Cat(front, Cat(n, y)) = Cat(Cat(front, n), y)
    BY <1>2, <2>7, Grouped
  <2>5. x \o b = front \o n
    BY <1>6, <2>3 DEF Cat, n
  <2>6. (x \o b) \o y = front \o (n \o y)
    BY <2>4, <2>5 DEF Cat
  <2> QED
    BY <2>2, <2>6 DEF n
<1> HIDE DEF e2
<1>9. EvolvedBy(Byte, p, (x \o b) \o y, lo, hi, filled, front, e2)
  BY <1>2, <1>7, <1>8, Zenon DEF EvolvedBy
<1> QED
  BY <1>9 DEF Evolved, ByFill

\* The hole that was there before is filled.
LEMMA EvolvesByOldFill ==
  ASSUME NEW Byte, NEW p, NEW q, NEW lo \in Nat, NEW hi \in Nat, lo <= hi,
         Evolved(Byte, p, q, lo, hi, FALSE),
         NEW x \in Seq(Cells(Byte)), NEW y \in Seq(Cells(Byte)), NEW b \in Seq(Cells(Byte)),
         NEW g \in Nat, g < lo, NoHoles(b), q = (x \o << HoleCell(g) >>) \o y
  PROVE  ByFill(Byte, p, q, lo, hi, TRUE, x, g, y, b)
PROOF
<1> DEFINE h == HoleCell(g)
<1>1. PICK front, e : EvolvedBy(Byte, p, q, lo, hi, FALSE, front, e)
  BY DEF Evolved
<1>2. /\ front \in Seq(Cells(Byte)) /\ e \in Seq(Cells(Byte)) /\ q = front \o e
      /\ HolesUpTo(front, lo) /\ HolesFrom(e, lo, hi)
      /\ front = p
  BY <1>1 DEF EvolvedBy
<1>3. h \in Cells(Byte) /\ IsHoleCell(h)
  BY CellFacts
<1>4. ~CutInBack(Byte, front, e, x, h, y)
  <2>1. SUFFICES ASSUME CutInBack(Byte, front, e, x, h, y) PROVE FALSE
    OBVIOUS
  <2> HIDE DEF h
  <2>2. PICK m \in Seq(Cells(Byte)) : e = (m \o << h >>) \o y
    BY <2>1 DEF CutInBack
  <2>3. << h >> \in Seq(Cells(Byte)) /\ Len(<< h >>) = 1 /\ << h >>[1] = h
    BY <1>3
  <2>4. /\ Len(m) \in Nat /\ Len(y) \in Nat /\ Len(<< h >>) \in Nat
        /\ Len(e) = Len(m) + Len(<< h >>) + Len(y)
        /\ \A i \in 1..Len(<< h >>) : e[Len(m) + i] = << h >>[i]
    BY <2>2, <2>3, Cuts
  <2>5. Len(m) + 1 \in 1..Len(e) /\ e[Len(m) + 1] = h
    BY <2>3, <2>4
  <2>6. PICK t \in Nat : lo <= t /\ h = HoleCell(t)
    BY <1>2, <1>3, <2>5 DEF HolesFrom
  <2>7. t = g
    BY <2>6 DEF h, HoleCell
  <2> QED
    BY <2>6, <2>7
<1>5. CutInFront(Byte, front, e, x, h, y)
  <2>1. front \o e = (x \o << h >>) \o y
    BY <1>2
  <2> HIDE DEF h
  <2> QED
    BY <1>2, <1>3, <1>4, <2>1, HoleInEither
<1>6. PICK m \in Seq(Cells(Byte)) : front = (x \o << h >>) \o m /\ y = m \o e
  BY <1>5 DEF CutInFront
<1> HIDE DEF h
<1> DEFINE f2 == (x \o b) \o m
<1>7. HolesUpTo(f2, lo)
  BY <1>2, <1>3, <1>6, HolesFilled, Zenon
<1>8. f2 \in Seq(Cells(Byte)) /\ (x \o b) \o y = f2 \o e
  <2> DEFINE n == x \o b
  <2>1. n \in Seq(Cells(Byte))
    BY ConcatProperties
  <2> HIDE DEF n
  <2>2. n \o m \in Seq(Cells(Byte))
    BY <2>1, ConcatProperties
  <2>3. Cat(n, Cat(m, e)) = Cat(Cat(n, m), e)
    BY <1>2, <2>1, Grouped
  <2>4. n \o y = (n \o m) \o e
    BY <1>6, <2>3 DEF Cat
  <2> QED
    BY <2>2, <2>4 DEF n
<1>9. FilledOnce(Byte, p, f2)
  BY <1>2, <1>3, <1>6, Zenon DEF FilledOnce, f2
<1> HIDE DEF f2
<1>10. EvolvedBy(Byte, p, (x \o b) \o y, lo, hi, TRUE, f2, e)
  BY <1>2, <1>7, <1>8, <1>9, Zenon DEF EvolvedBy
<1> QED
  BY <1>10 DEF Evolved, ByFill

\* All of it is one step of HoleStream, or none.
LEMMA EvolvedIsStep ==
  ASSUME NEW Byte, NEW p \in Seq(Cells(Byte)), NEW q, NEW lo, NEW hi, NEW filled \in BOOLEAN,
         Evolved(Byte, p, q, lo, hi, filled), lo \in Nat
  PROVE  q = p \/ IsExtended(p, q) \/ IsFilled(p, q)
PROOF
<1>1. PICK front, e : EvolvedBy(Byte, p, q, lo, hi, filled, front, e)
  BY DEF Evolved
<1>2. /\ front \in Seq(Cells(Byte)) /\ e \in Seq(Cells(Byte)) /\ q = front \o e
      /\ HolesUpTo(front, lo) /\ HolesFrom(e, lo, hi)
      /\ front = p \/ (filled /\ FilledOnce(Byte, p, front))
  BY <1>1 DEF EvolvedBy
<1>3. NewBehind(front, e)
  <2>1. ASSUME NEW i \in 1..Len(e), IsHoleCell(e[i])
        PROVE  /\ \A j \in 1..Len(front) : front[j] # e[i]
               /\ \A j \in 1..Len(e) : j # i => e[j] # e[i]
    <3>1. PICK t \in Nat : lo <= t /\ e[i] = HoleCell(t)
      BY <1>2, <2>1 DEF HolesFrom
    <3>2. ASSUME NEW j \in 1..Len(front), front[j] = e[i]
          PROVE  FALSE
      <4>1. PICK u \in Nat : u < lo /\ front[j] = HoleCell(u)
        BY <1>2, <2>1, <3>2 DEF HolesUpTo
      <4>2. u = t
        BY <3>1, <3>2, <4>1 DEF HoleCell
      <4> QED
        BY <3>1, <4>1, <4>2
    <3>3. \A j \in 1..Len(e) : j # i => e[j] # e[i]
      BY <1>2, <2>1 DEF HolesFrom
    <3> QED
      BY <3>2, <3>3
  <2> QED
    BY <2>1 DEF NewBehind
<1>4. CASE front = p
  <2>1. CASE e = << >>
    BY <1>2, <1>4, <2>1, ConcatEmptySeq
  <2>2. CASE e # << >>
    BY <1>2, <1>3, <1>4, <2>2, ExtendedCells
  <2> QED
    BY <2>1, <2>2
<1>5. CASE FilledOnce(Byte, p, front)
  <2>1. PICK x, b, y \in Seq(Cells(Byte)), h \in Cells(Byte) :
          /\ IsHoleCell(h) /\ NoHoles(b)
          /\ p = (x \o << h >>) \o y
          /\ front = (x \o b) \o y
    BY <1>5 DEF FilledOnce
  <2>2. NewBehind((x \o b) \o y, e)
    BY <1>3, <2>1, Zenon
  <2>3. IsFilled((x \o << h >>) \o y, ((x \o b) \o y) \o e)
    BY <1>2, <2>1, <2>2, FilledCells, Zenon
  <2> QED
    BY <1>2, <2>1, <2>3, Zenon
<1> QED
  BY <1>2, <1>4, <1>5

-----------------------------------------------------------------------------
(* What the operations of a deque keep.                                    *)

\* The placeholders of the deque that are called g are holes, and there is one.
IsHoleOf(phs, g) ==
  /\ \E k \in 1..Len(phs) : phs[k].id = g
  /\ \A k \in 1..Len(phs) : phs[k].id = g => ~phs[k].contentsKnown

\* The holes of phs are holes of q, but for those in filled.
HolesStay(phs, q, filled) == \A g : IsHoleOf(phs, g) /\ g \notin filled => IsHoleOf(q, g)

\* A hole has an old ticket.
LEMMA HoleIsOld ==
  ASSUME NEW Byte, NEW phs \in Deques(Byte), NEW next, IdsBelow(phs, next), NEW g, IsHoleOf(phs, g)
  PROVE  g \in Nat /\ g < next
PROOF
<1>1. PICK k \in 1..Len(phs) : phs[k].id = g
  BY DEF IsHoleOf
<1>2. phs[k].id \in Nat /\ phs[k].id < next
  BY DequeElements DEF IdsBelow
<1> QED
  BY <1>1, <1>2

\* One placeholder replaced by another with the same ticket.
LEMMA ReplacedKeeps ==
  ASSUME NEW Byte, NEW phs \in Deques(Byte), NEW next, IdsBelow(phs, next),
         NEW k \in 1..Len(phs), NEW p \in PlaceholderOf(Byte), p.id = phs[k].id,
         NEW q, q = [phs EXCEPT ![k] = p]
  PROVE  /\ q \in Deques(Byte) /\ IdsBelow(q, next)
         /\ HolesStay(phs, q, {phs[k].id})
         /\ p.contentsKnown = phs[k].contentsKnown => HolesStay(phs, q, {})
PROOF
<1> DEFINE n == Len(phs)
<1>1. /\ n \in Nat /\ DOMAIN phs = 1..n /\ k \in 1..n
      /\ \A i \in 1..n : phs[i] \in PlaceholderOf(Byte)
  BY DequeElements
<1>2. \A i \in 1..n : phs[i].id < next
  BY DEF IdsBelow
<1>3. phs \in Seq(PlaceholderOf(Byte))
  BY DEF Deques
<1>4. /\ q \in Seq(PlaceholderOf(Byte)) /\ Len(q) = n
      /\ \A i \in 1..n : q[i] = IF i = k THEN p ELSE phs[i]
  BY <1>1, <1>3, ExceptSeq
<1> HIDE DEF n
<1>5. \A i \in 1..n : q[i].id = phs[i].id
  BY <1>1, <1>4
<1>6. IdsBelow(q, next)
  BY <1>2, <1>4, <1>5 DEF IdsBelow
<1>7. ASSUME NEW g, IsHoleOf(phs, g), g # phs[k].id \/ p.contentsKnown = phs[k].contentsKnown
      PROVE  IsHoleOf(q, g)
  <2>1. PICK i \in 1..n : phs[i].id = g
    BY <1>7 DEF IsHoleOf, n
  <2>2. \A j \in 1..n : phs[j].id = g => ~phs[j].contentsKnown
    BY <1>7 DEF IsHoleOf, n
  <2>3. ASSUME NEW j \in 1..n, q[j].id = g PROVE ~q[j].contentsKnown
    <3>1. phs[j].id = g /\ ~phs[j].contentsKnown
      BY <1>5, <2>2, <2>3
    <3>2. CASE j = k
      BY <1>4, <1>7, <3>1, <3>2
    <3>3. CASE j # k
      BY <1>4, <3>1, <3>3
    <3> QED
      BY <3>2, <3>3
  <2> QED
    BY <1>4, <1>5, <2>1, <2>3 DEF IsHoleOf
<1> QED
  BY <1>4, <1>6, <1>7 DEF HolesStay, Deques

\* One placeholder erased.
LEMMA ErasedKeeps ==
  ASSUME NEW Byte, NEW phs \in Deques(Byte), NEW next, IdsBelow(phs, next),
         NEW k \in 1..Len(phs)
  PROVE  /\ Erase(phs, k) \in Deques(Byte) /\ IdsBelow(Erase(phs, k), next)
         /\ HolesStay(phs, Erase(phs, k), {phs[k].id})
PROOF
<1> DEFINE n == Len(phs)
           q == Erase(phs, k)
           at(i) == IF i < k THEN i ELSE i + 1
<1>1. /\ n \in Nat /\ DOMAIN phs = 1..n /\ k \in 1..n
      /\ \A i \in 1..n : phs[i] \in PlaceholderOf(Byte)
  BY DequeElements
<1>2. \A i \in 1..n : phs[i].id < next
  BY DEF IdsBelow
<1>3. q = [i \in 1..(n - 1) |-> IF i < k THEN phs[i] ELSE phs[i + 1]]
  BY DEF Erase
<1> HIDE DEF n, q
<1>4. n - 1 \in Nat /\ \A i \in 1..(n - 1) : at(i) \in 1..n
  BY <1>1
<1>5. /\ q \in Seq(PlaceholderOf(Byte)) /\ Len(q) = n - 1
      /\ \A i \in 1..(n - 1) : q[i] = phs[at(i)]
  <2>1. \A i \in 1..(n - 1) : (IF i < k THEN phs[i] ELSE phs[i + 1]) = phs[at(i)]
    OBVIOUS
  <2>2. \A i \in 1..(n - 1) : (IF i < k THEN phs[i] ELSE phs[i + 1]) \in PlaceholderOf(Byte)
    BY <1>1, <1>4, <2>1
  <2> HIDE DEF at
  <2>3. q \in Seq(PlaceholderOf(Byte)) /\ Len(q) = n - 1
    BY <1>3, <1>4, <2>2
  <2>4. \A i \in 1..(n - 1) : q[i] = phs[at(i)]
    BY <1>3, <2>1
  <2> QED
    BY <2>3, <2>4
<1>6. IdsBelow(q, next)
  BY <1>2, <1>4, <1>5 DEF IdsBelow
<1>7. ASSUME NEW g, IsHoleOf(phs, g), g # phs[k].id
      PROVE  IsHoleOf(q, g)
  <2>1. PICK i \in 1..n : phs[i].id = g
    BY <1>7 DEF IsHoleOf, n
  <2>2. \A j \in 1..n : phs[j].id = g => ~phs[j].contentsKnown
    BY <1>7 DEF IsHoleOf, n
  <2>3. \E j \in 1..(n - 1) : at(j) = i
    <3>1. i # k
      BY <1>7, <2>1
    <3>2. CASE i < k
      <4>1. i \in 1..(n - 1) /\ at(i) = i
        BY <1>1, <3>2
      <4> QED
        BY <4>1
    <3>3. CASE i > k
      <4>1. i - 1 \in 1..(n - 1) /\ at(i - 1) = i
        BY <1>1, <3>3
      <4> QED
        BY <4>1
    <3> QED
      BY <1>1, <3>1, <3>2, <3>3
  <2> HIDE DEF at
  <2> QED
    BY <1>4, <1>5, <2>1, <2>2, <2>3 DEF IsHoleOf
<1> QED
  BY <1>5, <1>6, <1>7 DEF HolesStay, Deques, q

\* fulfillPlaceholder of a hole.
LEMMA FulfillKeeps ==
  ASSUME NEW Byte, NEW phs \in Deques(Byte), NEW next, IdsBelow(phs, next),
         NEW k \in 1..Len(phs), NEW s \in Seq(Byte)
  PROVE  /\ FulfillAt(phs, k, s) \in Deques(Byte) /\ IdsBelow(FulfillAt(phs, k, s), next)
         /\ HolesStay(phs, FulfillAt(phs, k, s), {phs[k].id})
PROOF
<1> DEFINE p == [phs[k] EXCEPT !.contentsKnown = TRUE, !.contents = s]
<1>1. phs[k] \in PlaceholderOf(Byte)
  BY DequeElements
<1>2. p \in PlaceholderOf(Byte) /\ p.id = phs[k].id
  BY <1>1 DEF PlaceholderOf
<1>3. s # << >> => FulfillAt(phs, k, s) = [phs EXCEPT ![k] = p]
  BY DEF FulfillAt
<1>4. s = << >> => FulfillAt(phs, k, s) = Erase(phs, k)
  BY DEF FulfillAt
<1> HIDE DEF p
<1>5. CASE s = << >>
  BY <1>4, <1>5, ErasedKeeps
<1>6. CASE s # << >>
  BY <1>2, <1>3, <1>6, ReplacedKeeps
<1> QED
  BY <1>5, <1>6

\* The hole g of a deque, cut out of its cells, with the cells c in its place.
FilledIn(Byte, phs, q, g, c) ==
  \E x, y \in Seq(Cells(Byte)) :
    /\ CellsOfAll(phs) = (x \o << HoleCell(g) >>) \o y
    /\ CellsOfAll(q) = (x \o c) \o y

\* By its ticket.
LEMMA FillKeeps ==
  ASSUME NEW Byte, NEW phs \in Deques(Byte), NEW next, IdsBelow(phs, next),
         NEW g, IsHoleOf(phs, g), NEW s \in Seq(Byte),
         NEW q, q = FulfillPlaceholder(phs, g, s)
  PROVE  /\ q \in Deques(Byte) /\ IdsBelow(q, next)
         /\ HolesStay(phs, q, {g})
         /\ FilledIn(Byte, phs, q, g, ByteCells(s))
PROOF
<1> DEFINE k == IndexOf(phs, g)
<1>1. k \in 1..Len(phs) /\ phs[k].id = g
  <2>1. DOMAIN phs = 1..Len(phs) /\ \E i \in 1..Len(phs) : phs[i].id = g
    BY DequeElements DEF IsHoleOf
  <2> QED
    BY <2>1 DEF IndexOf
<1>2. q = FulfillAt(phs, k, s)
  BY DEF FulfillPlaceholder
<1> HIDE DEF k
<1>3. q \in Deques(Byte) /\ IdsBelow(q, next) /\ HolesStay(phs, q, {g})
  BY <1>1, <1>2, FulfillKeeps
<1>4. CellsOf(phs[k]) = << HoleCell(g) >>
  BY <1>1 DEF IsHoleOf, CellsOf
<1> DEFINE x == CellsBefore(phs, k)
           y == CellsBehind(phs, k)
<1>5. x \in Seq(Cells(Byte)) /\ y \in Seq(Cells(Byte))
  BY <1>1, FulfillCells
<1>6. CellsOfAll(phs) = CellsWith(phs, k, CellsOf(phs[k]))
  BY <1>1, FulfillCells
<1>7. CellsOfAll(FulfillAt(phs, k, s)) = CellsWith(phs, k, ByteCells(s))
  BY <1>1, FulfillCells
<1>8. /\ CellsOfAll(phs) = (x \o << HoleCell(g) >>) \o y
      /\ CellsOfAll(q) = (x \o ByteCells(s)) \o y
  BY <1>2, <1>4, <1>6, <1>7 DEF CellsWith
<1> HIDE DEF x, y
<1>9. FilledIn(Byte, phs, q, g, ByteCells(s))
  BY <1>5, <1>8, Zenon DEF FilledIn
<1> QED
  BY <1>3, <1>9

\* outputPlaceholder: a hole with a new ticket.
LEMMA PlaceAdds ==
  ASSUME NEW Byte, NEW phs \in Deques(Byte), NEW next \in Nat, IdsBelow(phs, next),
         NEW q, q = OutputPlaceholder(phs, next)
  PROVE  /\ q \in Deques(Byte) /\ IdsBelow(q, next + 1)
         /\ HolesStay(phs, q, {}) /\ IsHoleOf(q, next)
         /\ CellsOfAll(q) = CellsOfAll(phs) \o << HoleCell(next) >>
PROOF
<1> DEFINE n == Len(phs)
           h == Hole(next)
<1>1. h \in PlaceholderOf(Byte) /\ h.id = next /\ h.contentsKnown = FALSE
  BY DEF Hole, PlaceholderOf
<1>2. q = Append(phs, h) /\ phs \in Seq(PlaceholderOf(Byte))
  BY DEF OutputPlaceholder, Deques
<1>3. /\ n \in Nat /\ \A i \in 1..n : phs[i].id < next /\ phs[i].id \in Nat
  BY DequeElements DEF IdsBelow
<1> HIDE DEF h
<1>4. /\ q \in Seq(PlaceholderOf(Byte)) /\ Len(q) = n + 1
      /\ \A i \in 1..n : q[i] = phs[i]
      /\ q[n + 1] = h
  BY <1>1, <1>2, AppendProperties
<1> HIDE DEF n
<1>5. \A i \in 1..(n + 1) : i \in 1..n \/ i = n + 1
  BY <1>3
<1>6. IdsBelow(q, next + 1)
  <2>1. ASSUME NEW i \in 1..(n + 1) PROVE q[i].id < next + 1
    <3>1. CASE i \in 1..n
      BY <1>3, <1>4, <3>1
    <3>2. CASE i = n + 1
      BY <1>1, <1>4, <3>2
    <3> QED
      BY <1>5, <3>1, <3>2
  <2> QED
    BY <1>4, <2>1 DEF IdsBelow
<1>7. HolesStay(phs, q, {})
  <2>1. ASSUME NEW g, IsHoleOf(phs, g) PROVE IsHoleOf(q, g)
    <3>1. PICK i \in 1..n : phs[i].id = g
      BY <2>1 DEF IsHoleOf, n
    <3>2. i \in 1..(n + 1) /\ q[i].id = g
      BY <1>3, <1>4, <3>1
    <3>3. \A j \in 1..n : phs[j].id = g => ~phs[j].contentsKnown
      BY <2>1 DEF IsHoleOf, n
    <3>4. \A j \in 1..(n + 1) : q[j].id = g => ~q[j].contentsKnown
      BY <1>1, <1>4, <1>5, <3>3
    <3> QED
      BY <1>4, <3>2, <3>4 DEF IsHoleOf
  <2> QED
    BY <2>1 DEF HolesStay
<1>8. IsHoleOf(q, next)
  <2>1. n + 1 \in 1..(n + 1)
    BY <1>3
  <2>2. \A j \in 1..(n + 1) : q[j].id = next => ~q[j].contentsKnown
    <3>1. \A j \in 1..n : q[j].id # next
      BY <1>3, <1>4
    <3> QED
      BY <1>1, <1>4, <1>5, <3>1
  <2> QED
    BY <1>1, <1>4, <2>1, <2>2 DEF IsHoleOf
<1>9. CellsOfAll(q) = CellsOfAll(phs) \o << HoleCell(next) >>
  <2>1. << h >> \in Deques(Byte)
    BY <1>1 DEF Deques
  <2>2. q = phs \o << h >>
    BY <1>1, <1>2, AppendIsConcat
  <2>3. CellsOfAll(<< h >>) = << HoleCell(next) >>
    BY <1>1, CellsOfShort DEF CellsOf
  <2>4. CellsOfAll(phs \o << h >>) = CellsOfAll(phs) \o CellsOfAll(<< h >>)
    BY <2>1, CellsConcat
  <2> QED
    BY <2>2, <2>3, <2>4
<1> QED
  BY <1>4, <1>6, <1>7, <1>8, <1>9 DEF Deques

\* outputString: bytes at the end.
StringAdded(Byte, phs, next, s, q) ==
  /\ q \in Deques(Byte) /\ IdsBelow(q, next + 1)
  /\ HolesStay(phs, q, {})
  /\ CellsOfAll(q) = CellsOfAll(phs) \o ByteCells(s)

LEMMA StringAdds ==
  ASSUME NEW Byte, NEW phs \in Deques(Byte), NEW next \in Nat, IdsBelow(phs, next),
         NEW s \in Seq(Byte), NEW q, q = OutputString(phs, next, s)
  PROVE  StringAdded(Byte, phs, next, s, q)
PROOF
<1> SUFFICES /\ q \in Deques(Byte) /\ IdsBelow(q, next + 1)
             /\ HolesStay(phs, q, {})
             /\ CellsOfAll(q) = CellsOfAll(phs) \o ByteCells(s)
  BY DEF StringAdded
<1> DEFINE n == Len(phs)
<1>1. n \in Nat /\ \A i \in 1..n : phs[i] \in PlaceholderOf(Byte)
  BY DequeElements
<1>2. CASE LastIsKnown(phs)
  <2> DEFINE r == phs[n]
             t == r.contents \o s
             p == [r EXCEPT !.contents = t]
  <2>1. n \in 1..n
    BY <1>1, <1>2 DEF LastIsKnown, Deques
  <2>2. r \in PlaceholderOf(Byte) /\ r.contents \in Seq(Byte)
    BY <1>1, <2>1 DEF PlaceholderOf
  <2>3. t \in Seq(Byte)
    BY <2>2, ConcatProperties
  <2>4. q = [phs EXCEPT ![n] = p]
    BY <1>2, Zenon DEF OutputString
  <2> HIDE DEF t
  <2>5. p \in PlaceholderOf(Byte) /\ p.contentsKnown = r.contentsKnown /\ p.id = r.id
    <3>1. r \in PlaceholderOf(Byte) /\ p = [r EXCEPT !.contents = t]
      BY <2>2
    <3> HIDE DEF r, p
    <3> QED
      BY <2>3, <3>1 DEF PlaceholderOf
  <2> HIDE DEF p
  <2>6. q \in Deques(Byte) /\ IdsBelow(q, next) /\ HolesStay(phs, q, {})
    BY <2>1, <2>4, <2>5, ReplacedKeeps
  <2>7. IdsBelow(q, next + 1)
    <3>1. ASSUME NEW i \in 1..Len(q) PROVE q[i].id < next + 1
      <4>1. q[i].id \in Nat /\ q[i].id < next
        BY <2>6, DequeElements DEF IdsBelow
      <4> QED
        BY <4>1
    <3> QED
      BY <3>1 DEF IdsBelow
  <2> QED
    BY <2>6, <2>7, OutputStringCells
<1>3. CASE ~LastIsKnown(phs)
  <2> DEFINE mid == OutputPlaceholder(phs, next)
  <2>1. q = FulfillAt(mid, n + 1, s)
    BY <1>3 DEF OutputString
  <2>2. /\ mid \in Deques(Byte) /\ IdsBelow(mid, next + 1) /\ HolesStay(phs, mid, {})
    BY PlaceAdds
  <2>3. Len(mid) = n + 1 /\ mid[n + 1].id = next
    <3>1. Hole(next) \in PlaceholderOf(Byte) /\ Hole(next).id = next
      BY DEF Hole, PlaceholderOf
    <3> QED
      BY <3>1, AppendProperties DEF OutputPlaceholder, Deques
  <2> HIDE DEF mid, n
  <2>4. n + 1 \in 1..Len(mid)
    BY <1>1, <2>3
  <2>5. q \in Deques(Byte) /\ IdsBelow(q, next + 1) /\ HolesStay(mid, q, {mid[n + 1].id})
    BY <2>1, <2>2, <2>4, FulfillKeeps
  <2>6. ASSUME NEW g, IsHoleOf(phs, g) PROVE IsHoleOf(q, g)
    <3>1. g \in Nat /\ g < next
      BY <2>6, HoleIsOld
    <3>2. g # mid[n + 1].id /\ IsHoleOf(mid, g)
      BY <2>2, <2>3, <2>6, <3>1 DEF HolesStay
    <3> QED
      BY <2>5, <3>2 DEF HolesStay
  <2> QED
    BY <2>5, <2>6, OutputStringCells DEF HolesStay
<1> QED
  BY <1>2, <1>3

\* The send loop: the placeholder in front is gone, and its bytes with it.
LEMMA SendTakes ==
  ASSUME NEW Byte, NEW phs \in Deques(Byte), NEW next, IdsBelow(phs, next),
         HasKnownWritesPending(phs)
  PROVE  /\ Tail(phs) \in Deques(Byte) /\ IdsBelow(Tail(phs), next)
         /\ HolesStay(phs, Tail(phs), {})
         /\ Head(phs).contents \in Seq(Byte)
         /\ CellsOfAll(phs) = ByteCells(Head(phs).contents) \o CellsOfAll(Tail(phs))
PROOF
<1> DEFINE n == Len(phs)
           h == Head(phs)
           t == Tail(phs)
<1>1. phs \in Seq(PlaceholderOf(Byte)) /\ phs # << >>
  BY DEF HasKnownWritesPending, Deques
<1>2. /\ h = phs[1] /\ h \in PlaceholderOf(Byte)
      /\ t \in Seq(PlaceholderOf(Byte)) /\ n \in Nat /\ n > 0 /\ Len(t) = n - 1
      /\ \A i \in 1..(n - 1) : t[i] = phs[i + 1]
  BY <1>1, HeadTailProperties, EmptySeq, LenProperties
<1>3. h.contentsKnown /\ h.contents \in Seq(Byte)
  BY <1>2 DEF HasKnownWritesPending, PlaceholderOf
<1>4. phs = << h >> \o t
  BY <1>1, HeadTailProperties
<1>5. /\ << h >> \in Deques(Byte) /\ t \in Deques(Byte)
      /\ CellsOfAll(<< h >>) = ByteCells(h.contents)
  <2>1. << h >> \in Deques(Byte) /\ t \in Deques(Byte)
    BY <1>2 DEF Deques
  <2> HIDE DEF h
  <2>2. CellsOfAll(<< h >>) = CellsOf(h)
    BY <1>2, CellsOfShort
  <2>3. CellsOf(h) = ByteCells(h.contents)
    BY <1>3 DEF CellsOf
  <2> QED
    BY <2>1, <2>2, <2>3
<1> HIDE DEF n, h, t
<1>6. \A i \in 1..(n - 1) : i + 1 \in 1..n
  BY <1>2
<1>7. IdsBelow(t, next)
  <2>1. \A i \in 1..n : phs[i].id < next
    BY DEF IdsBelow, n
  <2> QED
    BY <1>2, <1>6, <2>1 DEF IdsBelow
<1>8. ASSUME NEW g, IsHoleOf(phs, g) PROVE IsHoleOf(t, g)
  <2>1. PICK i \in 1..n : phs[i].id = g
    BY <1>8 DEF IsHoleOf, n
  <2>2. \A j \in 1..n : phs[j].id = g => ~phs[j].contentsKnown
    BY <1>8 DEF IsHoleOf, n
  <2>3. i # 1
    BY <1>2, <1>3, <2>1, <2>2
  <2>4. i - 1 \in 1..(n - 1) /\ (i - 1) + 1 = i
    BY <1>2, <2>3
  <2>5. t[i - 1].id = g
    BY <1>2, <2>1, <2>4
  <2>6. \A j \in 1..(n - 1) : t[j].id = g => ~t[j].contentsKnown
    BY <1>2, <1>6, <2>2
  <2> QED
    BY <1>2, <2>4, <2>5, <2>6 DEF IsHoleOf
<1>9. CellsOfAll(phs) = ByteCells(h.contents) \o CellsOfAll(t)
  BY <1>4, <1>5, CellsConcat, Zenon
<1> QED
  BY <1>3, <1>5, <1>7, <1>8, <1>9 DEF HolesStay, h, t

=============================================================================
