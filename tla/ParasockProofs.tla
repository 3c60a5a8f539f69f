---------------------------- MODULE ParasockProofs ----------------------------
(***************************************************************************)
(* Proofs about the event loop under its most general caller, for all      *)
(* inputs of the peers, all filters, all bodies and any number of calls.   *)
(* The steps of the loop are LoopProofs'; a caller's steps touch no bytes  *)
(* that were read.                                                         *)
(*                                                                         *)
(* First what a chunked body is sent as, then what a run of each filter    *)
(* does with what it is given, then the invariant of a transfer (a chunked *)
(* filter is where it should be in the body), step by step, and the        *)
(* theorems on it.  Behind them, what is written: the strings and holes    *)
(* that a filter puts out, the invariant of the output, step by step, and  *)
(* the theorem that each output is a stream with holes.                    *)
(***************************************************************************)
EXTENDS ChunkedTransfer, ParasockStream, LoopProofs

Sets == INSTANCE FiniteSetTheorems

-----------------------------------------------------------------------------
(* Sequences and encoded bodies.                                           *)

\* Tuples behind each other.
LEMMA Tuples ==
  ASSUME NEW x, NEW y, NEW a, NEW b
  PROVE  /\ << x >> \o << a, b >> = << x, a, b >>
         /\ << x, y >> \o << a, b >> = << x, y, a, b >>
PROOF
<1> DEFINE S == {x, y, a, b}
<1>1. /\ << x >> \in Seq(S) /\ << x, y >> \in Seq(S) /\ << a, b >> \in Seq(S)
      /\ << x, a, b >> \in Seq(S) /\ << x, y, a, b >> \in Seq(S)
      /\ Len(<< x >>) = 1 /\ Len(<< x, y >>) = 2 /\ Len(<< a, b >>) = 2
      /\ Len(<< x, a, b >>) = 3 /\ Len(<< x, y, a, b >>) = 4
  OBVIOUS
<1> DEFINE short == << x >> \o << a, b >>
           long == << x, y >> \o << a, b >>
<1>2. /\ short \in Seq(S) /\ Len(short) = 3
      /\ \A i \in 1..3 : short[i] = IF i <= 1 THEN << x >>[i] ELSE << a, b >>[i - 1]
  BY <1>1, ConcatProperties
<1>3. /\ long \in Seq(S) /\ Len(long) = 4
      /\ \A i \in 1..4 : long[i] = IF i <= 2 THEN << x, y >>[i] ELSE << a, b >>[i - 2]
  BY <1>1, ConcatProperties
<1> HIDE DEF short, long
<1>4. \A i \in 1..3 : short[i] = << x, a, b >>[i]
  <2>1. \A i \in 1..3 : i = 1 \/ i = 2 \/ i = 3
    OBVIOUS
  <2> QED
    BY <1>2, <2>1
<1>5. \A i \in 1..4 : long[i] = << x, y, a, b >>[i]
  <2>1. \A i \in 1..4 : i = 1 \/ i = 2 \/ i = 3 \/ i = 4
    OBVIOUS
  <2> QED
    BY <1>3, <2>1
<1> HIDE DEF S
<1>6. short = << x, a, b >>
  BY <1>1, <1>2, <1>4, SeqEqual
<1>7. long = << x, y, a, b >>
  BY <1>1, <1>3, <1>5, SeqEqual
<1> QED
  BY <1>6, <1>7 DEF short, long

\* The members of an interval from 1 are its upper end.
LEMMA Counted ==
  ASSUME NEW n \in {1, 2}
  PROVE  Cardinality(1..n) = n
PROOF
<1>1. n \in Int /\ 1 \in Int /\ ~(1 > n) /\ n - 1 + 1 = n
  OBVIOUS
<1>2. Sets!Cardinality(1..n) = n
  BY <1>1, Sets!FS_Interval
<1>3. Cardinality(1..n) = Sets!Cardinality(1..n)
  BY DEF Cardinality, Sets!Cardinality
<1> QED
  BY <1>2, <1>3

\* The symbols of an encoded body.
Symbols == Alphabet \union {"r", "n"} \union { Digits[d] : d \in 1..16 }

\* Each digit has its value, and is no CR or LF.
LEMMA DigitsHaveValues ==
  ASSUME NEW d \in 0..15
  PROVE  /\ IsDigit(Digits[d + 1]) /\ DigitValue(Digits[d + 1]) = d
         /\ Digits[d + 1] \in Symbols
         /\ Digits[d + 1] \notin {"r", "n"}
PROOF
<1>1. \A i, j \in 1..16 : Digits[i] = Digits[j] => i = j
  BY SMTT(60) DEF Digits
<1>2. \A i \in 1..16 : Digits[i] # "r" /\ Digits[i] # "n"
  BY SMTT(60) DEF Digits
<1>3. d + 1 \in 1..16
  OBVIOUS
<1>4. IsDigit(Digits[d + 1])
  BY <1>3 DEF IsDigit
<1> DEFINE v == DigitValue(Digits[d + 1])
<1>5. v \in 0..15 /\ Digits[v + 1] = Digits[d + 1]
  <2>1. \E e \in 0..15 : Digits[e + 1] = Digits[d + 1]
    OBVIOUS
  <2> QED
    BY <2>1 DEF DigitValue
<1> HIDE DEF v
<1>6. v = d
  <2>1. v + 1 \in 1..16 /\ v + 1 = d + 1
    BY <1>1, <1>3, <1>5
  <2> QED
    BY <1>5, <2>1
<1> QED
  BY <1>2, <1>3, <1>4, <1>6 DEF v, Symbols

\* A line of one or two digits: where its delimiter is, and what it scans as.
LEMMA OneDigitLine ==
  ASSUME NEW d \in 0..15
  PROVE  LET line == << Digits[d + 1], "r", "n" >>
         IN  /\ line \in Seq(Symbols) /\ Len(line) = 3
             /\ DelimiterAt(line) = {Len(line) - 1}
             /\ ScanHex(line) = d
PROOF
<1> DEFINE x == Digits[d + 1]
           line == << x, "r", "n" >>
<1>1. IsDigit(x) /\ DigitValue(x) = d /\ x \in Symbols /\ x # "r" /\ x # "n"
  BY DigitsHaveValues
<1>2. ~IsDigit("r") /\ ~IsDigit("n")
  BY SMTT(60) DEF IsDigit, Digits
<1> HIDE DEF x
<1>3. line \in Seq(Symbols) /\ Len(line) = 3 /\ line[1] = x /\ line[2] = "r" /\ line[3] = "n"
      /\ DOMAIN line = 1..3
  BY <1>1 DEF Symbols
<1> HIDE DEF line
<1>4. DelimiterAt(line) = {2}
  <2>1. DelimiterAt(line) = { p \in 1..(Len(line) - 1) : line[p] = "r" /\ line[p + 1] = "n" }
    BY <1>3, DelimiterPlaces
  <2>2. \A p \in 1..2 : line[p] = "r" /\ line[p + 1] = "n" <=> p = 2
    <3>1. \A p \in 1..2 : p = 1 \/ p = 2
      OBVIOUS
    <3> QED
      BY <1>1, <1>3, <3>1
  <2> QED
    BY <1>3, <2>1, <2>2
<1>5. Leading(line, 16) = 1..1
  <2>1. 1 \in Leading(line, 16)
    <3>1. \A j \in 1..1 : j = 1
      OBVIOUS
    <3> QED
      BY <1>1, <1>3, <3>1 DEF Leading
  <2>2. ASSUME NEW k \in 1..3, k # 1 PROVE k \notin Leading(line, 16)
    <3>1. 2 \in 1..k
      BY <2>2
    <3> QED
      BY <1>2, <1>3, <3>1 DEF Leading
  <2> QED
    BY <1>3, <2>1, <2>2 DEF Leading
<1>6. Cardinality(Leading(line, 16)) = 1
  BY <1>5, Counted
<1>7. LastDigit(line, 16, 1) = 0 /\ LastDigit(line, 16, 0) = d
  BY <1>1, <1>3, <1>5, <1>6 DEF LastDigit
<1>8. ScanHex(line) = d
  BY <1>7 DEF ScanHex, Scan
<1> QED
  BY <1>3, <1>4, <1>8 DEF line, x

\* A line of two digits is read as the number they write.
LEMMA TwoDigitLine ==
  ASSUME NEW c \in 0..15, NEW d \in 0..15
  PROVE  LET line == << Digits[c + 1], Digits[d + 1], "r", "n" >>
         IN  /\ line \in Seq(Symbols) /\ Len(line) = 4
             /\ DelimiterAt(line) = {Len(line) - 1}
             /\ ScanHex(line) = 16 * c + d
PROOF
<1> DEFINE x == Digits[c + 1]
           y == Digits[d + 1]
           line == << x, y, "r", "n" >>
<1>1. /\ IsDigit(x) /\ DigitValue(x) = c /\ x \in Symbols /\ x # "r" /\ x # "n"
      /\ IsDigit(y) /\ DigitValue(y) = d /\ y \in Symbols /\ y # "r" /\ y # "n"
  BY DigitsHaveValues
<1>2. ~IsDigit("r") /\ ~IsDigit("n")
  BY SMTT(60) DEF IsDigit, Digits
<1> HIDE DEF x, y
<1>3. /\ line \in Seq(Symbols) /\ Len(line) = 4
      /\ line[1] = x /\ line[2] = y /\ line[3] = "r" /\ line[4] = "n"
      /\ DOMAIN line = 1..4
  BY <1>1 DEF Symbols
<1> HIDE DEF line
<1>4. DelimiterAt(line) = {3}
  <2>1. DelimiterAt(line) = { p \in 1..(Len(line) - 1) : line[p] = "r" /\ line[p + 1] = "n" }
    BY <1>3, DelimiterPlaces
  <2>2. \A p \in 1..3 : line[p] = "r" /\ line[p + 1] = "n" <=> p = 3
    <3>1. \A p \in 1..3 : p = 1 \/ p = 2 \/ p = 3
      OBVIOUS
    <3> QED
      BY <1>1, <1>3, <3>1
  <2> QED
    BY <1>3, <2>1, <2>2
<1>5. Leading(line, 16) = 1..2
  <2>1. \A k \in 1..2 : k \in Leading(line, 16)
    <3>1. \A k \in 1..2 : \A j \in 1..k : j = 1 \/ j = 2
      OBVIOUS
    <3> QED
      BY <1>1, <1>3, <3>1 DEF Leading
  <2>2. ASSUME NEW k \in 1..4, k \notin 1..2 PROVE k \notin Leading(line, 16)
    <3>1. 3 \in 1..k
      BY <2>2
    <3> QED
      BY <1>2, <1>3, <3>1 DEF Leading
  <2> QED
    BY <1>3, <2>1, <2>2 DEF Leading
<1>6. Cardinality(Leading(line, 16)) = 2
  BY <1>5, Counted
<1>7. LastDigit(line, 16, 1) = c /\ LastDigit(line, 16, 0) = d
  BY <1>1, <1>3, <1>5, <1>6 DEF LastDigit
<1>8. ScanHex(line) = 16 * c + d
  BY <1>7 DEF ScanHex, Scan
<1> QED
  BY <1>3, <1>4, <1>8 DEF line, x, y

\* The size line of a chunk.
SizeLine(n) == Hex(n) \o CRLF

\* The size line of a chunk ends where it should and is read as its size.
LEMMA SizeLines ==
  ASSUME NEW n \in 1..255
  PROVE  /\ SizeLine(n) \in Seq(Symbols)
         /\ DelimiterAt(SizeLine(n)) = {Len(SizeLine(n)) - 1}
         /\ ScanHex(SizeLine(n)) = n
PROOF
<1>1. CASE n < 16
  <2>1. SizeLine(n) = << Digits[n + 1], "r", "n" >>
    <3>1. Hex(n) = << Digits[n + 1] >>
      BY <1>1 DEF Hex
    <3>2. << Digits[n + 1] >> \o << "r", "n" >> = << Digits[n + 1], "r", "n" >>
      BY Tuples
    <3> QED
      BY <3>1, <3>2 DEF SizeLine, CRLF
  <2>2. n \in 0..15
    BY <1>1
  <2> QED
    BY <2>1, <2>2, OneDigitLine
<1>2. CASE ~(n < 16)
  <2>1. /\ n \div 16 \in 0..15 /\ n % 16 \in 0..15
        /\ 16 * (n \div 16) + (n % 16) = n
    OBVIOUS
  <2> DEFINE c == n \div 16
             d == n % 16
  <2>2. SizeLine(n) = << Digits[c + 1], Digits[d + 1], "r", "n" >>
    <3>1. Hex(n) = << Digits[c + 1], Digits[d + 1] >>
      BY <1>2 DEF Hex
    <3>2. << Digits[c + 1], Digits[d + 1] >> \o << "r", "n" >>
            = << Digits[c + 1], Digits[d + 1], "r", "n" >>
      BY Tuples
    <3> QED
      BY <3>1, <3>2 DEF SizeLine, CRLF
  <2>3. c \in 0..15 /\ d \in 0..15 /\ 16 * c + d = n
    BY <2>1
  <2> HIDE DEF c, d
  <2>4. /\ SizeLine(n) \in Seq(Symbols)
        /\ DelimiterAt(SizeLine(n)) = {Len(SizeLine(n)) - 1}
        /\ ScanHex(SizeLine(n)) = 16 * c + d
    <3> DEFINE line == << Digits[c + 1], Digits[d + 1], "r", "n" >>
    <3>1. line \in Seq(Symbols) /\ DelimiterAt(line) = {Len(line) - 1} /\ ScanHex(line) = 16 * c + d
      BY <2>3, TwoDigitLine, ZenonT(60)
    <3>2. SizeLine(n) = line
      BY <2>2
    <3> HIDE DEF line
    <3> QED
      BY <3>1, <3>2
  <2> QED
    BY <2>3, <2>4
<1> QED
  BY <1>1, <1>2

\* The last chunk's line is read as the size zero.
LEMMA LastLine ==
  /\ LastChunk \in Seq(Symbols) /\ DelimiterAt(LastChunk) = {Len(LastChunk) - 1}
  /\ ScanHex(LastChunk) = 0
PROOF
<1>1. LastChunk = << Digits[0 + 1], "r", "n" >>
  <2>1. Digits[0 + 1] = "0"
    BY DEF Digits
  <2> QED
    <3>1. << Digits[0 + 1] >> \o << "r", "n" >> = << Digits[0 + 1], "r", "n" >>
      BY Tuples
    <3>2. LastChunk = << Digits[0 + 1] >> \o << "r", "n" >>
      BY <2>1 DEF LastChunk, CRLF
    <3> QED
      BY <3>1, <3>2
<1> QED
  BY <1>1, OneDigitLine

-----------------------------------------------------------------------------
(* The chunked coding of a body, chunk by chunk.                           *)

\* The bodies that may be sent, what their chunks are sent as, and all of that.
BodySet == { b \in Seq(Seq(Alphabet)) : \A k \in DOMAIN b : Len(b[k]) \in 1..255 }
ChunksOf(b) == [k \in DOMAIN b |-> ChunkOf(b[k])]
AllChunks(b) == Seqs!FlattenSeq(ChunksOf(b))

\* What is received, and what the coding adds to it, are sequences of symbols.
LEMMA SymbolSets ==
  /\ \A s \in Seq(Alphabet) : s \in Seq(Symbols)
  /\ CRLF \in Seq(Symbols) /\ Len(CRLF) = 2 /\ CRLF # << >>
  /\ LastChunk \in Seq(Symbols)
PROOF
<1>1. ASSUME NEW s \in Seq(Alphabet) PROVE s \in Seq(Symbols)
  <2>1. Alphabet \subseteq Symbols
    BY DEF Symbols
  <2> QED
    BY <2>1, SeqMonotonic
<1>2. CRLF \in Seq(Symbols) /\ Len(CRLF) = 2 /\ CRLF # << >>
  BY DEF CRLF, Symbols
<1> QED
  BY <1>1, <1>2, LastLine

\* The chunk of data of an admitted length.
LEMMA ChunkIsLine ==
  ASSUME NEW d \in Seq(Alphabet), Len(d) \in 1..255
  PROVE  /\ ChunkOf(d) \in Seq(Symbols)
         /\ ChunkOf(d) = SizeLine(Len(d)) \o d \o CRLF
PROOF
<1>1. SizeLine(Len(d)) \in Seq(Symbols) /\ d \in Seq(Symbols) /\ CRLF \in Seq(Symbols)
  BY SizeLines, SymbolSets
<1>2. ChunkOf(d) = SizeLine(Len(d)) \o d \o CRLF
  BY DEF ChunkOf, SizeLine
<1> DEFINE line == SizeLine(Len(d))
           c == CRLF
           S == Symbols
<1>3. line \in Seq(S) /\ d \in Seq(S) /\ c \in Seq(S)
  BY <1>1
<1> HIDE DEF line, c, S
<1>4. line \o d \in Seq(S)
  BY <1>3, ConcatProperties
<1>5. line \o d \o c \in Seq(S)
  BY <1>3, <1>4, ConcatProperties
<1> QED
  BY <1>2, <1>5 DEF line, c, S

\* The chunks of a body, one by one and all of them.
LEMMA ChunksAreTyped ==
  ASSUME NEW b \in BodySet
  PROVE  /\ ChunksOf(b) \in Seq(Seq(Symbols)) /\ Len(ChunksOf(b)) = Len(b)
         /\ AllChunks(b) \in Seq(Symbols)
PROOF
<1>1. b \in Seq(Seq(Alphabet)) /\ Len(b) \in Nat /\ DOMAIN b = 1..Len(b)
  BY LenProperties DEF BodySet
<1>2. \A k \in 1..Len(b) : b[k] \in Seq(Alphabet) /\ Len(b[k]) \in 1..255
  BY <1>1, ElementOfSeq DEF BodySet
<1>3. \A k \in 1..Len(b) : ChunkOf(b[k]) \in Seq(Symbols)
  BY <1>2, ChunkIsLine
<1>4. ChunksOf(b) \in Seq(Seq(Symbols)) /\ Len(ChunksOf(b)) = Len(b)
  <2> DEFINE T == Seq(Symbols)
             n == Len(b)
  <2>1. ChunksOf(b) = [k \in 1..n |-> ChunkOf(b[k])]
    BY <1>1 DEF ChunksOf
  <2>2. n \in Nat /\ \A k \in 1..n : ChunkOf(b[k]) \in T
    BY <1>1, <1>3
  <2> HIDE DEF T, n
  <2> QED
    BY <2>1, <2>2 DEF T, n
<1>5. AllChunks(b) \in Seq(Symbols)
  <2>1. << >> \in Seq(Seq(Symbols))
    BY EmptySeq
  <2> QED
    BY <1>4, <2>1, FlattenConcat DEF AllChunks
<1> QED
  BY <1>4, <1>5

\* A body is sent as its chunks, the last line and an empty line.
LEMMA EncodedIs ==
  ASSUME NEW b \in BodySet
  PROVE  /\ Encoded(b) = AllChunks(b) \o LastChunk \o CRLF
         /\ Encoded(b) \in Seq(Symbols)
PROOF
<1>1. Coding!FlattenSeq(ChunksOf(b)) = Seqs!FlattenSeq(ChunksOf(b))
  BY DEF Coding!FlattenSeq, Seqs!FlattenSeq
<1>2. Encoded(b) = AllChunks(b) \o LastChunk \o CRLF
  BY <1>1 DEF Encoded, AllChunks, ChunksOf
<1> DEFINE all == AllChunks(b)
           last == LastChunk
           c == CRLF
           S == Symbols
<1>3. all \in Seq(S) /\ last \in Seq(S) /\ c \in Seq(S)
  BY ChunksAreTyped, SymbolSets
<1> HIDE DEF all, last, c, S
<1>4. all \o last \in Seq(S)
  BY <1>3, ConcatProperties
<1>5. all \o last \o c \in Seq(S)
  BY <1>3, <1>4, ConcatProperties
<1> QED
  BY <1>2, <1>5 DEF all, last, c, S

\* No chunk, and one more.
LEMMA EncodedNone ==
  << >> \in BodySet /\ Encoded(<< >>) = LastChunk \o CRLF
PROOF
<1>1. << >> \in BodySet
  BY EmptySeq DEF BodySet
<1>2. AllChunks(<< >>) = << >>
  <2>1. ChunksOf(<< >>) = << >>
    BY DEF ChunksOf
  <2>2. << >> \in Seq(Symbols)
    BY EmptySeq
  <2> QED
    BY <2>1, <2>2, FlattenShort DEF AllChunks
<1>3. << >> \o LastChunk = LastChunk
  BY SymbolSets, ConcatEmptySeq
<1> QED
  BY <1>1, <1>2, <1>3, EncodedIs

\* A body is sent as its first chunk and then the rest of it.
LEMMA EncodedOneMore ==
  ASSUME NEW b \in BodySet, b # << >>
  PROVE  /\ Tail(b) \in BodySet
         /\ b[1] \in Seq(Symbols) /\ Len(b[1]) \in 1..255
         /\ Encoded(b) = SizeLine(Len(b[1])) \o (b[1] \o (CRLF \o Encoded(Tail(b))))
PROOF
<1> DEFINE d == b[1]
           t == Tail(b)
<1>0. b \in Seq(Seq(Alphabet)) /\ \A k \in DOMAIN b : Len(b[k]) \in 1..255
  BY DEF BodySet
<1>n. Len(b) \in Nat /\ Len(b) # 0 /\ DOMAIN b = 1..Len(b)
  BY <1>0, LenProperties, EmptySeq
<1>1. \A k \in 1..Len(b) : b[k] \in Seq(Alphabet) /\ Len(b[k]) \in 1..255
  BY <1>0, <1>n, ElementOfSeq
<1>2. d \in Seq(Alphabet) /\ Len(d) \in 1..255
  <2>1. 1 \in 1..Len(b)
    BY <1>n
  <2> QED
    BY <1>1, <2>1
<1>t. t \in Seq(Seq(Alphabet)) /\ Len(t) = Len(b) - 1 /\ DOMAIN t = 1..Len(t)
  BY <1>0, HeadTailProperties, LenProperties
<1>3. \A k \in 1..Len(t) : t[k] = b[k + 1]
  BY <1>0, HeadTailProperties
<1> HIDE DEF d, t
<1>4. t \in BodySet
  <2>1. \A k \in 1..Len(t) : k + 1 \in 1..Len(b)
    BY <1>n, <1>t
  <2>2. \A k \in DOMAIN t : Len(t[k]) \in 1..255
    BY <1>1, <1>3, <1>t, <2>1
  <2> QED
    BY <1>t, <2>2 DEF BodySet
<1>5. ChunksOf(b) = << ChunkOf(d) >> \o ChunksOf(t)
  <2> DEFINE T == Seq(Symbols)
             one == << ChunkOf(d) >>
             more == ChunksOf(t)
             c == ChunksOf(b)
  <2>1. ChunkOf(d) \in T
    BY <1>2, ChunkIsLine
  <2>2. /\ c \in Seq(T) /\ Len(c) = Len(b)
        /\ \A k \in 1..Len(b) : c[k] = ChunkOf(b[k])
    BY <1>n, ChunksAreTyped DEF ChunksOf
  <2>3. /\ more \in Seq(T) /\ Len(more) = Len(b) - 1
        /\ \A k \in 1..Len(t) : more[k] = ChunkOf(t[k])
    BY <1>t, <1>4, ChunksAreTyped DEF ChunksOf
  <2> HIDE DEF T
  <2>4. one \in Seq(T) /\ Len(one) = 1 /\ one[1] = ChunkOf(d)
    BY <2>1
  <2> HIDE DEF one, more, c
  <2>5. /\ one \o more \in Seq(T) /\ Len(one \o more) = Len(b)
        /\ \A i \in 1..Len(b) : (one \o more)[i] = IF i <= 1 THEN one[i] ELSE more[i - 1]
    <3>1. /\ one \o more \in Seq(T) /\ Len(one \o more) = Len(one) + Len(more)
          /\ \A i \in 1..(Len(one) + Len(more)) :
               (one \o more)[i] = IF i <= Len(one) THEN one[i] ELSE more[i - Len(one)]
      BY <2>3, <2>4, ConcatProperties
    <3>2. Len(one) + Len(more) = Len(b)
      BY <1>n, <2>3, <2>4
    <3> QED
      BY <2>4, <3>1, <3>2
  <2> DEFINE both == one \o more
  <2>6. /\ both \in Seq(T) /\ Len(both) = Len(b)
        /\ \A i \in 1..Len(b) : both[i] = IF i <= 1 THEN one[i] ELSE more[i - 1]
    BY <2>5
  <2> HIDE DEF both
  <2>7. ASSUME NEW i \in 1..Len(b) PROVE c[i] = both[i]
    <3>1. CASE i = 1
      BY <2>2, <2>4, <2>6, <3>1 DEF d
    <3>2. CASE i # 1
      <4>1. i - 1 \in 1..Len(t) /\ (i - 1) + 1 = i /\ ~(i <= 1)
        BY <1>n, <1>t, <3>2
      <4>2. both[i] = ChunkOf(t[i - 1]) /\ t[i - 1] = b[i]
        BY <1>3, <2>3, <2>6, <4>1
      <4> QED
        BY <2>2, <4>2
    <3> QED
      BY <3>1, <3>2
  <2>8. c = both
    BY <2>2, <2>6, <2>7, SeqEqual
  <2> QED
    BY <2>8 DEF c, both, one, more
<1>6. AllChunks(b) = ChunkOf(d) \o AllChunks(t)
  <2>1. ChunkOf(d) \in Seq(Symbols) /\ << ChunkOf(d) >> \in Seq(Seq(Symbols))
        /\ ChunksOf(t) \in Seq(Seq(Symbols))
    <3>1. ChunkOf(d) \in Seq(Symbols)
      BY <1>2, ChunkIsLine
    <3>2. ChunksOf(t) \in Seq(Seq(Symbols))
      BY <1>4, ChunksAreTyped
    <3> HIDE DEF Symbols
    <3> QED
      BY <3>1, <3>2
  <2>2. Seqs!FlattenSeq(<< ChunkOf(d) >>) = ChunkOf(d)
    BY <2>1, FlattenShort
  <2>3. Seqs!FlattenSeq(<< ChunkOf(d) >> \o ChunksOf(t))
          = Seqs!FlattenSeq(<< ChunkOf(d) >>) \o Seqs!FlattenSeq(ChunksOf(t))
    BY <2>1, FlattenConcat
  <2> QED
    BY <1>5, <2>2, <2>3 DEF AllChunks
<1>7. Encoded(b) = SizeLine(Len(d)) \o d \o CRLF \o AllChunks(t) \o LastChunk \o CRLF
      /\ Encoded(t) = AllChunks(t) \o LastChunk \o CRLF
  BY <1>2, <1>4, <1>6, EncodedIs, ChunkIsLine
<1> DEFINE S == Symbols
           line == SizeLine(Len(d))
           c == CRLF
           all == AllChunks(t)
           last == LastChunk
<1>8. /\ line \in Seq(S) /\ d \in Seq(S) /\ c \in Seq(S) /\ all \in Seq(S)
      /\ last \in Seq(S)
  BY <1>2, <1>4, SizeLines, SymbolSets, ChunksAreTyped
<1> HIDE DEF S, line, c, all, last
<1>9. line \o d \o c \o all \o last \o c = line \o (d \o (c \o (all \o last \o c)))
  <2>1. /\ line \o d \in Seq(S) /\ line \o d \o c \in Seq(S)
        /\ all \o last \in Seq(S)
    BY <1>8, ConcatProperties
  <2>2. all \o last \o c \in Seq(S)
    BY <1>8, <2>1, ConcatProperties
  <2>3. c \o (all \o last \o c) \in Seq(S)
    BY <1>8, <2>2, ConcatProperties
  <2> DEFINE e == line \o d \o c
             f == all \o last
             g == all \o last \o c
             h == c \o g
  <2>4. /\ e \in Seq(S) /\ f \in Seq(S) /\ g \in Seq(S) /\ h \in Seq(S)
        /\ line \o d \in Seq(S)
    BY <2>1, <2>2, <2>3
  <2>5. e \o all \o last = e \o f
    <3> HIDE DEF e
    <3> QED
      BY <1>8, <2>4, Regrouped, SMTT(60) DEF f
  <2>6. e \o f \o c = e \o g
    <3> HIDE DEF e, f
    <3>1. e \o f \o c = e \o (f \o c)
      BY <1>8, <2>4, Regrouped, SMTT(60)
    <3> QED
      BY <3>1 DEF f
  <2>7. e \o g = (line \o d) \o h
    <3> DEFINE ld == line \o d
    <3> HIDE DEF ld, g
    <3>1. ld \in Seq(S)
      BY <2>4 DEF ld
    <3>2. ld \o c \o g = ld \o (c \o g)
      BY <1>8, <2>4, <3>1, Regrouped, SMTT(60)
    <3> QED
      BY <3>2 DEF ld
  <2>8. (line \o d) \o h = line \o (d \o h)
    <3> HIDE DEF h
    <3> QED
      BY <1>8, <2>4, Regrouped, SMTT(60)
  <2> QED
    BY <2>5, <2>6, <2>7, <2>8
<1>10. Encoded(b) = line \o (d \o (c \o Encoded(t)))
  BY <1>7, <1>9 DEF line, c, all, last
<1> QED
  BY <1>2, <1>4, <1>8, <1>10 DEF line, c, S, d, t

-----------------------------------------------------------------------------
(* The beginning of a stream.                                              *)

\* Two sequences that are cut at the same place.
LEMMA SameParts ==
  ASSUME NEW S, NEW a \in Seq(S), NEW b \in Seq(S), NEW c \in Seq(S), NEW d \in Seq(S),
         a \o b = c \o d, Len(a) = Len(c)
  PROVE  a = c /\ b = d
PROOF
<1> DEFINE m == Len(a)
           ab == a \o b
           cd == c \o d
<1>1. m \in Nat /\ Len(b) \in Nat /\ Len(d) \in Nat /\ Len(c) = m
  BY LenProperties
<1>2. /\ Len(ab) = m + Len(b)
      /\ \A i \in 1..(m + Len(b)) : ab[i] = IF i <= m THEN a[i] ELSE b[i - m]
  BY ConcatProperties
<1>3. /\ Len(cd) = m + Len(d)
      /\ \A i \in 1..(m + Len(d)) : cd[i] = IF i <= m THEN c[i] ELSE d[i - m]
  BY <1>1, ConcatProperties
<1>4. ab = cd
  OBVIOUS
<1> HIDE DEF ab, cd
<1>5. Len(b) = Len(d)
  BY <1>1, <1>2, <1>3, <1>4
<1>6. \A i \in 1..m : a[i] = c[i]
  <2>1. \A i \in 1..m : i \in 1..(m + Len(b)) /\ i \in 1..(m + Len(d)) /\ i <= m
    BY <1>1
  <2> QED
    BY <1>2, <1>3, <1>4, <2>1
<1>7. \A i \in 1..Len(b) : b[i] = d[i]
  <2>1. ASSUME NEW i \in 1..Len(b) PROVE b[i] = d[i]
    <3>1. i + m \in 1..(m + Len(b)) /\ ~(i + m <= m) /\ (i + m) - m = i
      BY <1>1
    <3>2. ab[i + m] = b[i] /\ cd[i + m] = d[i]
      BY <1>2, <1>3, <1>5, <3>1
    <3> QED
      BY <1>4, <3>2
  <2> QED
    BY <2>1
<1>8. a = c
  BY <1>1, <1>6, SeqEqual
<1>9. b = d
  BY <1>5, <1>7, SeqEqual
<1> QED
  BY <1>8, <1>9

\* A stream that begins what is to come begins with its first part.
LEMMA FirstPart ==
  ASSUME NEW S, NEW stream \in Seq(S), NEW z \in Seq(S), NEW c \in Seq(S), NEW rest \in Seq(S),
         stream \o z = c \o rest, NEW n, n = Len(c), n <= Len(stream)
  PROVE  SubSeq(stream, 1, n) = c /\ From(stream, n + 1) \o z = rest
PROOF
<1> DEFINE x == SubSeq(stream, 1, n)
           w == From(stream, n + 1)
<1>1. n \in 0..Len(stream)
  BY LenProperties
<1>2. x \in Seq(S) /\ w \in Seq(S) /\ x \o w = stream /\ Len(x) = n
  BY <1>1, Split
<1> HIDE DEF x, w
<1>3. w \o z \in Seq(S)
  BY <1>2, ConcatProperties
<1>4. x \o w \o z = x \o (w \o z)
  <2>1. x \in Seq(S) /\ w \in Seq(S) /\ z \in Seq(S)
    BY <1>2
  <2> QED
    BY <2>1, Regrouped, SMTT(60)
<1>5. x \o (w \o z) = c \o rest
  BY <1>2, <1>4
<1> DEFINE wz == w \o z
<1>6. x \o wz = c \o rest /\ wz \in Seq(S)
  BY <1>3, <1>5
<1> HIDE DEF wz
<1>7. x = c /\ wz = rest
  BY <1>2, <1>6, SameParts
<1> QED
  BY <1>7 DEF x, w, wz

\* A line is what ends with its only delimiter.
IsLine(line) == DelimiterAt(line) = {Len(line) - 1}

\* The stream begins what is to come, and that is a line and the rest.
LineComes(S, stream, z, line, rest) ==
  /\ stream \in Seq(S) /\ z \in Seq(S) /\ line \in Seq(S) /\ rest \in Seq(S)
  /\ stream \o z = line \o rest
  /\ IsLine(line)

\* So it is with the first line, when the stream has come to a delimiter.
LEMMA FirstLine ==
  ASSUME NEW S, NEW stream, NEW z, NEW line, NEW rest, LineComes(S, stream, z, line, rest),
         NEW n, n = ThroughDelimiter(stream), n # 0
  PROVE  n \in 2..Len(stream) /\ SubSeq(stream, 1, n) = line /\ From(stream, n + 1) \o z = rest
PROOF
<1> DEFINE m == Len(line)
           x == SubSeq(stream, 1, n)
           y == stream \o z
<1> USE DEF LineComes
<1>0. DelimiterAt(line) = {m - 1}
  BY DEF IsLine
<1>1. n \in 2..Len(stream) /\ DelimiterAt(x) = {n - 1}
  BY LineToDelimiter
<1>2. /\ m \in Nat /\ Len(stream) \in Nat /\ Len(z) \in Nat /\ Len(rest) \in Nat
      /\ DelimiterAt(line) = { p \in 1..(m - 1) : line[p] = "r" /\ line[p + 1] = "n" }
  BY LenProperties, DelimiterPlaces
<1>3. x \in Seq(S) /\ Len(x) = n
  <2>1. n \in 0..Len(stream)
    BY <1>1, <1>2
  <2> QED
    BY <2>1, Split
<1>4. \A i \in 1..n : x[i] = stream[i]
  <2>1. \A i \in 1..n : i \in 1..Len(stream)
    BY <1>1, <1>2
  <2>2. x = [i \in 1..n |-> stream[i]]
    BY <1>1, <1>2, <2>1
  <2> QED
    BY <2>2
<1> HIDE DEF x
<1>5. DelimiterAt(x) = { p \in 1..(n - 1) : x[p] = "r" /\ x[p + 1] = "n" }
  BY <1>3, DelimiterPlaces
<1>6. \A i \in 1..n : i <= m => x[i] = line[i]
  <2>1. /\ Len(y) = Len(stream) + Len(z)
        /\ \A i \in 1..(Len(stream) + Len(z)) :
             y[i] = IF i <= Len(stream) THEN stream[i] ELSE z[i - Len(stream)]
    BY ConcatProperties
  <2>2. y = line \o rest
    OBVIOUS
  <2>3. /\ Len(y) = m + Len(rest)
        /\ \A i \in 1..(m + Len(rest)) : y[i] = IF i <= m THEN line[i] ELSE rest[i - m]
    BY <2>2, ConcatProperties
  <2> HIDE DEF y
  <2>4. ASSUME NEW i \in 1..n, i <= m PROVE x[i] = line[i]
    <3>1. /\ i \in 1..(Len(stream) + Len(z)) /\ i <= Len(stream)
          /\ i \in 1..(m + Len(rest))
      BY <1>1, <1>2, <2>4
    <3>2. y[i] = stream[i] /\ y[i] = line[i]
      BY <2>1, <2>3, <2>4, <3>1
    <3> QED
      BY <1>4, <3>2
  <2> QED
    BY <2>4
<1>7. m - 1 \in 1..(m - 1) /\ line[m - 1] = "r" /\ line[m] = "n"
  <2>1. m - 1 \in DelimiterAt(line)
    BY <1>0
  <2>2. (m - 1) + 1 = m
    BY <1>2
  <2> QED
    BY <1>2, <2>1, <2>2
<1>8. n - 1 \in 1..(n - 1) /\ x[n - 1] = "r" /\ x[n] = "n"
  <2>1. n - 1 \in DelimiterAt(x)
    BY <1>1
  <2>2. (n - 1) + 1 = n
    BY <1>1, <1>2
  <2> QED
    BY <1>5, <2>1, <2>2
<1>9. n <= m
  <2>1. SUFFICES ASSUME m < n PROVE FALSE
    BY <1>1, <1>2
  <2>2. m - 1 \in 1..n /\ m \in 1..n /\ m - 1 <= m /\ m - 1 \in 1..(n - 1) /\ (m - 1) + 1 = m
    BY <1>1, <1>2, <1>7, <2>1
  <2>3. x[m - 1] = "r" /\ x[m] = "n"
    BY <1>6, <1>7, <2>2
  <2>4. m - 1 \in DelimiterAt(x)
    BY <1>5, <2>2, <2>3
  <2> QED
    BY <1>1, <1>2, <2>1, <2>4
<1>10. ~(n < m)
  <2>1. SUFFICES ASSUME n < m PROVE FALSE
    OBVIOUS
  <2>2. n - 1 \in 1..n /\ n \in 1..n /\ n - 1 <= m /\ n - 1 \in 1..(m - 1) /\ (n - 1) + 1 = n
    BY <1>1, <1>2, <1>8, <2>1
  <2>3. line[n - 1] = "r" /\ line[n] = "n"
    BY <1>6, <1>8, <1>9, <2>2
  <2>4. n - 1 \in DelimiterAt(line)
    BY <1>2, <2>2, <2>3
  <2> QED
    BY <1>0, <1>1, <1>2, <2>1, <2>4
<1>11. n = m
  BY <1>1, <1>2, <1>9, <1>10
<1> HIDE DEF m
<1>12. SubSeq(stream, 1, n) = line /\ From(stream, n + 1) \o z = rest
  <2>1. n = Len(line) /\ n <= Len(stream)
    BY <1>1, <1>2, <1>11 DEF m
  <2> QED
    BY <2>1, FirstPart
<1> QED
  BY <1>1, <1>12

-----------------------------------------------------------------------------
(* The runs of a filter of a chunked body.                                 *)

\* A sub-filter of unknown length waits for anything.
SubWaits(f) ==
  ~IsKnown(f.totalSize) =>
    f.subReadSoFar \in Nat /\ f.subUnfiltered = << >> /\ f.subInstruction.type = "BytesUnknown"

\* It takes all it is fed with in one turn, and waits for anything again.
LEMMA FedPlainly ==
  ASSUME NEW f, ~IsKnown(f.totalSize), SubWaits(f), NEW data \in Seq(Alphabet)
  PROVE  LET fed == Fed(f, data)
         IN  /\ fed.goes # "asserted" /\ fed.left = << >> /\ fed.readSoFar \in Nat
             /\ fed.instruction.type = "BytesUnknown"
PROOF
<1> DEFINE n == Len(f.subUnfiltered) + Len(data) + 1
           start == FirstTurn(f, data)
           Next1(v) == CHOOSE y \in { SubTurn(f.totalSize, u) : u \in {v} } : TRUE
           fed == Next1(start)
           Goes(h) == h = [k \in 0..n |-> IF k = 0 THEN start ELSE Next1(h[k - 1])]
<1>1. n \in Nat /\ n > 0
  <2>1. Len(f.subUnfiltered) \in Nat /\ Len(data) \in Nat
    BY LenProperties, EmptySeq DEF SubWaits
  <2> QED
    BY <2>1
<1>2. \A v : Next1(v) = SubTurn(f.totalSize, v)
  OBVIOUS
<1>3. /\ fed.goes = "done" /\ fed.left = << >> /\ fed.readSoFar \in Nat
      /\ fed.instruction.type = "BytesUnknown"
  <2> DEFINE m == Len(start.left)
             soFar == (start.readSoFar + m) % SizeValues
  <2>1. /\ start.goes = "more" /\ start.instruction.type = "BytesUnknown"
        /\ start.left = f.subUnfiltered \o data /\ start.readSoFar \in Nat
    BY DEF FirstTurn, SubWaits
  <2>2. start.left = data /\ m \in Nat
    <3>1. f.subUnfiltered = << >>
      BY DEF SubWaits
    <3>2. << >> \o data = data
      BY ConcatEmptySeq
    <3> QED
      BY <2>1, <3>1, <3>2, LenProperties
  <2>3. fed = SubRun(f.totalSize, start, m, "done")
    BY <1>2, <2>1 DEF SubTurn
  <2>4. soFar \in Nat
    <3> DEFINE s == start.readSoFar
    <3>1. s \in Nat
      BY <2>1
    <3> HIDE DEF s, m
    <3>2. (s + m) % SizeValues \in Nat
      BY <2>2, <3>1 DEF SizeValues
    <3> QED
      BY <3>2 DEF s
  <2> DEFINE next == [left |-> SubSeq(start.left, m + 1, Len(start.left)),
                      readSoFar |-> soFar,
                      instruction |-> SubInstruction(f.totalSize, soFar, m),
                      output |-> start.output \o FilterBuffer(SubSeq(start.left, 1, m)),
                      goes |-> "done"]
  <2>5. /\ fed.goes = "done" /\ fed.readSoFar = soFar
        /\ fed.instruction = SubInstruction(f.totalSize, soFar, m)
        /\ fed.left = SubSeq(start.left, m + 1, Len(start.left))
    <3>1. SubCoreAccepts(f.totalSize, soFar)
      BY DEF SubCoreAccepts
    <3>2. SubRun(f.totalSize, start, m, "done") = next
      BY <3>1 DEF SubRun
    <3>3. fed = next
      BY <2>3, <3>2
    <3> HIDE DEF fed, start, m, soFar
    <3> QED
      BY <3>3
  <2>6. fed.left = << >>
    <3> DEFINE k == m + 1
               all == start.left
    <3>1. all \in Seq(Alphabet) /\ Len(all) < k /\ k \in Int /\ Len(all) \in Int
      BY <2>2
    <3>2. fed.left = SubSeq(all, k, Len(all))
      BY <2>5
    <3> HIDE DEF k, all, fed, start
    <3> QED
      BY <3>1, <3>2, SubSeqEmpty
  <2>7. fed.instruction.type = "BytesUnknown"
    <3>1. f.totalSize # soFar
      BY <2>4 DEF IsKnown, UNKNOWN
    <3> HIDE DEF soFar
    <3> QED
      BY <2>5, <3>1 DEF SubInstruction, BytesUnknown, Instruction
  <2> QED
    BY <2>4, <2>5, <2>6, <2>7
<1>4. Next1(fed) = fed
  BY <1>2, <1>3 DEF SubTurn
<1> DEFINE r == [k \in 0..n |-> IF k = 0 THEN start ELSE fed]
<1>5. Goes(r)
  <2> HIDE DEF start
  <2>1. ASSUME NEW k \in 0..n
        PROVE  r[k] = IF k = 0 THEN start ELSE Next1(r[k - 1])
    <3>1. CASE k = 0
      BY <3>1
    <3>2. CASE k # 0
      <4>1. k - 1 \in 0..n /\ r[k - 1] \in {start, fed}
        BY <1>1, <3>2
      <4> HIDE DEF Next1
      <4> QED
        BY <1>4, <3>2, <4>1
    <3> QED
      BY <3>1, <3>2
  <2> DEFINE g == [k \in 0..n |-> IF k = 0 THEN start ELSE Next1(r[k - 1])]
  <2>2. r = g
    BY <2>1
  <2> QED
    BY <2>2
<1> DEFINE t == CHOOSE h : Goes(h)
<1>6. Goes(t)
  <2> HIDE DEF Goes
  <2> QED
    BY <1>5
<1>7. Fed(f, data) = t[n]
  BY Zenon DEF Fed, Once
<1> HIDE DEF t
<1>8. \A k \in 0..n : t[k] = IF k = 0 THEN start ELSE Next1(t[k - 1])
  BY <1>6
<1> HIDE DEF Next1, start, Goes, n
<1>9. Nat \subseteq { k \in Nat : k + 1 \in 1..n => t[k + 1] = fed }
  <2> DEFINE P == { k \in Nat : k + 1 \in 1..n => t[k + 1] = fed }
  <2>1. 0 \in P
    <3>1. 0 \in 0..n /\ 1 \in 0..n /\ 1 - 1 = 0 /\ 0 + 1 = 1
      BY <1>1
    <3>2. t[0] = start /\ t[1] = Next1(t[0])
      BY <1>8, <3>1
    <3> QED
      BY <3>1, <3>2 DEF fed
  <2>2. ASSUME NEW k \in Nat, k \in P PROVE k + 1 \in P
    <3>1. SUFFICES ASSUME k + 1 + 1 \in 1..n PROVE t[k + 1 + 1] = fed
      OBVIOUS
    <3>2. k + 1 \in 1..n /\ k + 1 + 1 \in 0..n /\ k + 1 + 1 # 0 /\ (k + 1 + 1) - 1 = k + 1
      BY <1>1, <3>1
    <3>3. t[k + 1] = fed
      BY <2>2, <3>2
    <3>4. t[k + 1 + 1] = Next1(t[k + 1])
      BY <1>8, <3>2
    <3> QED
      BY <1>4, <3>3, <3>4
  <2> HIDE DEF P
  <2> QED
    BY <2>1, <2>2, SetInduction DEF P
<1>10. t[n] = fed
  <2>1. n - 1 \in Nat /\ (n - 1) + 1 = n /\ n \in 1..n
    BY <1>1
  <2> QED
    BY <1>9, <2>1
<1> QED
  BY <1>3, <1>7, <1>10

\* The members of a filter of a chunked body.
ChunkMembers == DOMAIN ChunkedFilter(UNKNOWN, 0)

\* A filter of a chunked body, with the instruction it has given.
ChunkFits(f, inst) ==
  /\ DOMAIN f = ChunkMembers
  /\ inst.type # "QuitFilter" =>
       /\ f.chunkString \in Seq(Alphabet) /\ SubWaits(f)
       /\ IF f.chunkState = "ReadChunkData"
            THEN inst.type = "BytesExact" /\ inst.count = f.chunkSize /\ inst.count > 0
            ELSE inst.type = "ThruDelimiter"

\* Bytes that are no data of the chunk's size, or no CRLF behind them.
Violates(f, bytes) ==
  \/ f.chunkState = "ReadChunkData" /\ Len(bytes) # f.chunkSize
  \/ f.chunkState = "ReadChunkCrLf" /\ bytes # CRLF

\* What comes behind the bytes in a chunked body.
Follows(f, bytes, g, inst) ==
  /\ f.chunkState = "ReadChunkData" =>
       g.chunkState = "ReadChunkCrLf" /\ inst.type = "ThruDelimiter"
  /\ f.chunkState = "ReadChunkCrLf" =>
       g.chunkState = "ReadChunkSize" /\ inst.type = "ThruDelimiter"
  /\ f.chunkState \in {"BeginChunk", "ReadChunkSize"} =>
       IF ScanHex(bytes) = 0 THEN inst.type = "QuitFilter"
       ELSE /\ g.chunkState = "ReadChunkData"
            /\ inst.type = "BytesExact" /\ inst.count = ScanHex(bytes)

\* A run on the bytes goes on with the body, or ends the loop; it stops the program
\* only for a length that is known besides, or for framing that is wrong.
GoesOn(f, bytes, ran) ==
  /\ ran.ended = "asserted" => IsKnown(f.totalSize) \/ Violates(f, bytes)
  /\ ran.ended # "ok" => ran.filter.totalSize = f.totalSize
  /\ ran.ended = "ok" =>
       ChunkFits(ran.filter, ran.instruction) /\ Follows(f, bytes, ran.filter, ran.instruction)

\* They are ChunkedFilter's.
LEMMA Members ==
  ChunkMembers = {"class", "totalSize", "chunkState", "chunkSize", "chunkString",
                  "subInstruction", "subUnfiltered", "subReadSoFar", "sizePlaceholder",
                  "charsWritten", "filteredCharsSent", "contentLengthFiltered"}
BY DEF ChunkMembers, ChunkedFilter

\* A run that ends the loop, and one that does not.
LEMMA EndGoes ==
  ASSUME NEW f, NEW how \in {"thrown", "asserted", "looping"}, NEW bytes,
         how = "asserted" => IsKnown(f.totalSize) \/ Violates(f, bytes)
  PROVE  GoesOn(f, bytes, Ended(f, how))
BY DEF GoesOn, Ended, Ran

\* A run that goes on as its instruction says.
LEMMA RunGoes ==
  ASSUME NEW f, NEW bytes, NEW g, NEW inst, NEW outputs,
         ChunkFits(g, inst), Follows(f, bytes, g, inst)
  PROVE  GoesOn(f, bytes, Ran(g, inst, outputs))
BY DEF GoesOn, Ran

\* The size line of the next chunk.
LEMMA SizeLineGoes ==
  ASSUME NEW f, DOMAIN f = ChunkMembers, f.chunkString \in Seq(Alphabet), SubWaits(f),
         f.chunkState \in {"BeginChunk", "ReadChunkSize"},
         NEW line \in Seq(Alphabet), NEW outputs
  PROVE  GoesOn(f, line, RunSizeLine(f, line, outputs))
PROOF
<1> DEFINE size == ScanHex(line)
           ran == RunSizeLine(f, line, outputs)
<1>1. size \in Nat
  BY ScannedIsSize
<1>2. CASE Len(line) < 3
  <2>1. ran = Ended(f, "thrown")
    BY <1>2 DEF RunSizeLine
  <2> QED
    BY <2>1, EndGoes
<1>3. CASE Len(line) >= 3 /\ size = 0 /\ f.subUnfiltered # << >>
  <2>1. ran = Ended(f, "asserted")
    BY <1>3 DEF RunSizeLine
  <2> QED
    BY <1>3, <2>1, EndGoes DEF SubWaits
<1>4. CASE Len(line) >= 3 /\ size = 0 /\ f.subUnfiltered = << >>
  <2> DEFINE g == InNextState([f EXCEPT !.totalSize = f.subReadSoFar,
                         !.filteredCharsSent = @ + f.charsWritten,
                         !.contentLengthFiltered = f.filteredCharsSent + f.charsWritten])
             inst == QuitFilter(Len(line))
             out == outputs \o FinishChunk(f) \o << String(<< "0" >> \o CRLF) >>
  <2>1. ran = Ran(g, inst, out)
    BY <1>4 DEF RunSizeLine
  <2>2. DOMAIN g = ChunkMembers
    BY DEF InNextState
  <2>3. inst.type = "QuitFilter"
    BY DEF QuitFilter, Instruction
  <2> HIDE DEF g, inst, out
  <2>4. ChunkFits(g, inst) /\ Follows(f, line, g, inst)
    BY <1>4, <2>2, <2>3 DEF ChunkFits, Follows
  <2> QED
    BY <2>1, <2>4, RunGoes
<1>5. CASE ~(Len(line) < 3) /\ size # 0
  <2> DEFINE h == [f EXCEPT !.chunkSize = size]
             g == InNextState(h)
             inst == BytesExact(size, Len(line))
  <2>1. ran = Ran(g, inst, outputs)
    <3>1. Len(line) \in Nat
      BY LenProperties
    <3> QED
      BY <1>5, <3>1 DEF RunSizeLine
  <2>2. /\ DOMAIN g = ChunkMembers /\ g.chunkSize = size /\ g.chunkState = "ReadChunkData"
        /\ g.chunkString = f.chunkString /\ g.subReadSoFar = f.subReadSoFar
        /\ g.subUnfiltered = f.subUnfiltered /\ g.subInstruction = f.subInstruction
        /\ g.totalSize = f.totalSize
    <3>1. "ReadChunkData" = NextChunkState[f.chunkState]
      BY DEF NextChunkState
    <3> HIDE DEF size
    <3>2. /\ DOMAIN h = ChunkMembers /\ h.chunkSize = size /\ h.chunkState = f.chunkState
          /\ h.chunkString = f.chunkString /\ h.subReadSoFar = f.subReadSoFar
          /\ h.subUnfiltered = f.subUnfiltered /\ h.subInstruction = f.subInstruction
          /\ h.totalSize = f.totalSize
      BY Members
    <3> HIDE DEF h
    <3> QED
      BY <3>1, <3>2, Members DEF InNextState
  <2>3. inst.type = "BytesExact" /\ inst.count = size
    BY DEF BytesExact, Instruction
  <2> HIDE DEF h, g, inst
  <2>4. ChunkFits(g, inst)
    BY <1>1, <1>5, <2>2, <2>3 DEF ChunkFits, SubWaits
  <2>5. Follows(f, line, g, inst)
    BY <1>5, <2>2, <2>3 DEF Follows
  <2> QED
    BY <2>1, <2>4, <2>5, RunGoes
<1>6. Len(line) \in Nat
  BY LenProperties
<1> HIDE DEF ran, size
<1> QED
  BY <1>2, <1>3, <1>4, <1>5, <1>6

\* The next size line, behind a chunk that has been collected.
LEMMA NextSizeGoes ==
  ASSUME NEW f, DOMAIN f = ChunkMembers, f.chunkString \in Seq(Alphabet), SubWaits(f),
         f.chunkState = "ReadChunkSize",
         NEW line \in Seq(Alphabet), NEW ticket
  PROVE  GoesOn(f, line, RunNextSize(f, line, ticket))
PROOF
<1>1. CASE f.chunkString = << >>
  <2>1. RunNextSize(f, line, ticket) = RunSizeLine(f, line, << >>)
    BY <1>1 DEF RunNextSize
  <2> QED
    BY <2>1, SizeLineGoes
<1>2. CASE f.chunkString # << >>
  <2>1. PICK fed : fed = Fed(f, f.chunkString)
    OBVIOUS
  <2> DEFINE g == WithFed(f, fed)
             written == << String(fed.output) >> \o FinishChunk(g)
             h == [g EXCEPT !.filteredCharsSent = @ + g.charsWritten]
             n == ticket + Len(written)
             next == WithChunk(h, n)
             ran == RunNextSize(f, line, ticket)
  <2>2. ran = IF fed.goes = "asserted" THEN Ended(f, "asserted")
              ELSE RunSizeLine(next, line, written \o NewChunk)
    BY <1>2, <2>1 DEF RunNextSize, Once
  <2>3. ~IsKnown(f.totalSize) =>
          /\ fed.goes # "asserted" /\ fed.left = << >> /\ fed.readSoFar \in Nat
          /\ fed.instruction.type = "BytesUnknown"
    BY <2>1, FedPlainly
  <2>4. CASE fed.goes = "asserted"
    <3>1. ran = Ended(f, "asserted") /\ IsKnown(f.totalSize)
      BY <2>2, <2>3, <2>4
    <3> HIDE DEF ran
    <3> QED
      BY <3>1, EndGoes DEF ran
  <2>5. CASE fed.goes # "asserted"
    <3> DEFINE out == written \o NewChunk
    <3>1. ran = RunSizeLine(next, line, out)
      BY <2>2, <2>5
    <3>2. /\ DOMAIN next = ChunkMembers /\ next.chunkString = f.chunkString
          /\ next.chunkState = f.chunkState /\ next.totalSize = f.totalSize
          /\ next.subUnfiltered = fed.left /\ next.subReadSoFar = fed.readSoFar
          /\ next.subInstruction = fed.instruction /\ next.chunkSize = f.chunkSize
      <4>1. /\ DOMAIN g = ChunkMembers /\ g.chunkString = f.chunkString
            /\ g.chunkState = f.chunkState /\ g.totalSize = f.totalSize
            /\ g.subUnfiltered = fed.left /\ g.subReadSoFar = fed.readSoFar
            /\ g.subInstruction = fed.instruction /\ g.chunkSize = f.chunkSize
        BY Members DEF WithFed
      <4> HIDE DEF g, n
      <4>2. /\ DOMAIN h = ChunkMembers /\ h.chunkString = f.chunkString
            /\ h.chunkState = f.chunkState /\ h.totalSize = f.totalSize
            /\ h.subUnfiltered = fed.left /\ h.subReadSoFar = fed.readSoFar
            /\ h.subInstruction = fed.instruction /\ h.chunkSize = f.chunkSize
        BY <4>1, Members
      <4> HIDE DEF h
      <4> QED
        BY <4>2, Members DEF WithChunk
    <3> HIDE DEF ran, next, out
    <3>3. SubWaits(next)
      BY <2>3, <3>2 DEF SubWaits
    <3>4. GoesOn(next, line, ran)
      BY <3>1, <3>2, <3>3, SizeLineGoes
    <3> QED
      BY <3>2, <3>4 DEF GoesOn, Violates, Follows, ran
  <2> QED
    BY <2>4, <2>5
<1> QED
  BY <1>1, <1>2

\* The data of a chunk.
LEMMA ChunkDataGoes ==
  ASSUME NEW f, DOMAIN f = ChunkMembers, f.chunkString \in Seq(Alphabet), SubWaits(f),
         f.chunkState = "ReadChunkData", NEW bytes \in Seq(Alphabet)
  PROVE  GoesOn(f, bytes, RunChunkData(f, bytes))
PROOF
<1>1. CASE Len(bytes) # f.chunkSize
  <2>1. RunChunkData(f, bytes) = Ended(f, "asserted")
    BY <1>1 DEF RunChunkData
  <2> QED
    BY <1>1, <2>1, EndGoes DEF Violates
<1>2. CASE Len(bytes) = f.chunkSize
  <2> DEFINE all == f.chunkString \o bytes
             h == [f EXCEPT !.chunkString = all]
             g == InNextState(h)
             inst == ThruDelimiter(Len(bytes))
  <2>1. RunChunkData(f, bytes) = Ran(g, inst, << >>)
    BY <1>2 DEF RunChunkData
  <2>2. all \in Seq(Alphabet)
    BY ConcatProperties
  <2> HIDE DEF all
  <2>3. /\ DOMAIN g = ChunkMembers /\ g.chunkState = "ReadChunkCrLf"
        /\ g.chunkString = all /\ g.subReadSoFar = f.subReadSoFar
        /\ g.subUnfiltered = f.subUnfiltered /\ g.subInstruction = f.subInstruction
        /\ g.totalSize = f.totalSize
    <3>1. "ReadChunkCrLf" = NextChunkState[f.chunkState]
      BY DEF NextChunkState
    <3>2. /\ DOMAIN h = ChunkMembers /\ h.chunkState = f.chunkState
          /\ h.chunkString = all /\ h.subReadSoFar = f.subReadSoFar
          /\ h.subUnfiltered = f.subUnfiltered /\ h.subInstruction = f.subInstruction
          /\ h.totalSize = f.totalSize
      BY Members
    <3> HIDE DEF h
    <3> QED
      BY <3>1, <3>2, Members DEF InNextState
  <2>4. inst.type = "ThruDelimiter"
    BY DEF ThruDelimiter, Instruction
  <2> HIDE DEF h, g, inst
  <2>5. ChunkFits(g, inst) /\ Follows(f, bytes, g, inst)
    BY <2>2, <2>3, <2>4 DEF ChunkFits, SubWaits, Follows
  <2> QED
    BY <2>1, <2>5, RunGoes
<1> QED
  BY <1>1, <1>2

\* The CRLF behind it.
LEMMA ChunkCrLfGoes ==
  ASSUME NEW f, DOMAIN f = ChunkMembers, f.chunkString \in Seq(Alphabet), SubWaits(f),
         f.chunkState = "ReadChunkCrLf", NEW bytes
  PROVE  GoesOn(f, bytes, RunChunkCrLf(f, bytes))
PROOF
<1>1. CASE bytes # CRLF
  <2>1. RunChunkCrLf(f, bytes) = Ended(f, "asserted")
    BY <1>1 DEF RunChunkCrLf
  <2> QED
    BY <1>1, <2>1, EndGoes DEF Violates
<1>2. CASE bytes = CRLF
  <2> DEFINE g == InNextState(f)
             inst == ThruDelimiter(2)
  <2>1. RunChunkCrLf(f, bytes) = Ran(g, inst, << >>)
    BY <1>2 DEF RunChunkCrLf
  <2>2. /\ DOMAIN g = ChunkMembers /\ g.chunkState = "ReadChunkSize"
        /\ g.chunkString = f.chunkString /\ g.subReadSoFar = f.subReadSoFar
        /\ g.subUnfiltered = f.subUnfiltered /\ g.subInstruction = f.subInstruction
        /\ g.totalSize = f.totalSize
    <3>1. "ReadChunkSize" = NextChunkState[f.chunkState]
      BY DEF NextChunkState
    <3> QED
      BY <3>1, Members DEF InNextState
  <2>3. inst.type = "ThruDelimiter"
    BY DEF ThruDelimiter, Instruction
  <2> HIDE DEF g, inst
  <2>4. ChunkFits(g, inst) /\ Follows(f, bytes, g, inst)
    BY <2>2, <2>3 DEF ChunkFits, SubWaits, Follows
  <2> QED
    BY <2>1, <2>4, RunGoes
<1> QED
  BY <1>1, <1>2

\* A run of runWrapper on bytes that the instruction asked for.
LEMMA ChunkedGoes ==
  ASSUME NEW f, IsFilter(f), f.class = "Chunked", NEW inst, inst.type # "QuitFilter",
         ChunkFits(f, inst),
         NEW bytes \in Seq(Alphabet), NEW soFar \in Nat, soFar > 0, NEW ticket
  PROVE  GoesOn(f, bytes, RunWrapper(f, bytes, soFar, FALSE, ticket))
PROOF
<1> DEFINE ran == RunFilter(f, bytes, soFar, FALSE, ticket)
<1>1. GoesOn(f, bytes, ran)
  <2>1. /\ DOMAIN f = ChunkMembers /\ f.chunkString \in Seq(Alphabet) /\ SubWaits(f)
    BY DEF ChunkFits
  <2>2. f.chunkState \in {"BeginChunk", "ReadChunkSize", "ReadChunkData", "ReadChunkCrLf"}
    BY DEF IsFilter, NextChunkState
  <2>3. ran = RunChunked(f, bytes, soFar, FALSE, ticket)
    BY DEF RunFilter
  <2>4. CASE f.chunkState = "BeginChunk"
    <3>1. ran = RunSizeLine(f, bytes, << >>)
      BY <2>3, <2>4 DEF RunChunked
    <3> QED
      BY <2>1, <2>4, <3>1, SizeLineGoes
  <2>5. CASE f.chunkState = "ReadChunkSize"
    <3>1. ran = RunNextSize(f, bytes, ticket)
      BY <2>3, <2>5 DEF RunChunked
    <3> QED
      BY <2>1, <2>5, <3>1, NextSizeGoes
  <2>6. CASE f.chunkState = "ReadChunkData"
    <3>1. ran = RunChunkData(f, bytes)
      BY <2>3, <2>6 DEF RunChunked
    <3> QED
      BY <2>1, <2>6, <3>1, ChunkDataGoes
  <2>7. CASE f.chunkState = "ReadChunkCrLf"
    <3>1. ran = RunChunkCrLf(f, bytes)
      BY <2>3, <2>7 DEF RunChunked
    <3> QED
      BY <2>1, <2>7, <3>1, ChunkCrLfGoes
  <2> QED
    BY <2>2, <2>4, <2>5, <2>6, <2>7
<1>2. IsRun(ran, f.class, Len(bytes))
  BY FiltersRun
<1>3. ran.ended = "ok" => ran.instruction.commitSize <= Len(bytes)
  <2>1. Len(bytes) \in Nat
    BY LenProperties
  <2> HIDE DEF ran
  <2>2. ran.ended = "ok" => ran.instruction.commitSize = Len(bytes)
    BY <1>2 DEF IsRun
  <2> QED
    BY <2>1, <2>2
<1>4. RunWrapper(f, bytes, soFar, FALSE, ticket) = ran
  BY <1>3 DEF RunWrapper, Once
<1> QED
  BY <1>1, <1>4

\* A disconnection ends the loop; it stops the program only for a known length.
CutsOff(f, ran) ==
  /\ ran.ended # "ok" /\ ran.filter = f
  /\ ran.ended = "asserted" => IsKnown(f.totalSize)

\* A run at a disconnection ends the loop.
LEMMA CutOffGoes ==
  ASSUME NEW f, f.class = "Chunked", NEW bytes, NEW soFar, NEW ticket
  PROVE  CutsOff(f, RunWrapper(f, bytes, soFar, TRUE, ticket))
PROOF
<1> DEFINE ran == RunFilter(f, bytes, soFar, TRUE, ticket)
<1>1. ran = RunCutOff(f, soFar)
  BY DEF RunFilter, RunChunked
<1>2. \/ ran = Ended(f, "thrown")
      \/ ran = Ended(f, "asserted") /\ IsKnown(f.totalSize)
  BY <1>1 DEF RunCutOff
<1>3. ran.ended # "ok"
  BY <1>2 DEF Ended, Ran
<1>4. RunWrapper(f, bytes, soFar, TRUE, ticket) = ran
  BY <1>3 DEF RunWrapper, Once
<1> QED
  BY <1>2, <1>4 DEF Ended, Ran, CutsOff

\* What is still to come of a chunked body when its filter has given the instruction.
Expected(f, inst, y) ==
  IF inst.type = "QuitFilter" THEN y = CRLF
  ELSE \E rest \in BodySet :
         CASE f.chunkState = "ReadChunkData" ->
                \E c \in Seq(Symbols) : Len(c) = inst.count /\ y = c \o (CRLF \o Encoded(rest))
           [] f.chunkState = "ReadChunkCrLf" -> y = CRLF \o Encoded(rest)
           [] OTHER -> y = Encoded(rest)

\* The CR and LF are a line.
LEMMA CrLfIsLine == IsLine(CRLF)
PROOF
<1>1. Len(CRLF) = 2 /\ CRLF \in Seq({"r", "n"}) /\ CRLF[1] = "r" /\ CRLF[2] = "n"
  BY DEF CRLF
<1>2. DelimiterAt(CRLF) =
        { p \in 1..(Len(CRLF) - 1) : CRLF[p] = "r" /\ CRLF[p + 1] = "n" }
  BY <1>1, DelimiterPlaces
<1> HIDE DEF CRLF
<1>3. 1 + 1 = 2 /\ 2 - 1 = 1
  OBVIOUS
<1>4. 1..(Len(CRLF) - 1) = {1}
  BY <1>1
<1> QED
  BY <1>1, <1>2, <1>3, <1>4 DEF IsLine

\* A body begins with the line of its first chunk, or with that of the last chunk.
LEMMA BodyBegins ==
  ASSUME NEW rest \in BodySet
  PROVE  \E line \in Seq(Symbols), behind \in Seq(Symbols) :
           /\ Encoded(rest) = line \o behind
           /\ IsLine(line)
           /\ \/ ScanHex(line) = 0 /\ behind = CRLF
              \/ /\ ScanHex(line) # 0
                 /\ \E next \in BodySet, c \in Seq(Symbols) :
                      Len(c) = ScanHex(line) /\ behind = c \o (CRLF \o Encoded(next))
PROOF
<1>1. CASE rest = << >>
  <2>1. Encoded(rest) = LastChunk \o CRLF
    BY <1>1, EncodedNone
  <2> QED
    BY <2>1, LastLine, SymbolSets DEF IsLine
<1>2. CASE rest # << >>
  <2> DEFINE c == rest[1]
             n == Len(c)
             next == Tail(rest)
             behind == c \o (CRLF \o Encoded(next))
             line == SizeLine(n)
  <2>1. /\ next \in BodySet /\ c \in Seq(Symbols) /\ n \in 1..255
        /\ Encoded(rest) = line \o behind
    BY <1>2, EncodedOneMore
  <2> HIDE DEF next, c
  <2>2. behind \in Seq(Symbols)
    <3>1. Encoded(next) \in Seq(Symbols) /\ CRLF \in Seq(Symbols)
      BY <2>1, EncodedIs, SymbolSets
    <3>2. CRLF \o Encoded(next) \in Seq(Symbols)
      BY <3>1, ConcatProperties
    <3> QED
      BY <2>1, <3>2, ConcatProperties
  <2> HIDE DEF n
  <2>3. line \in Seq(Symbols) /\ IsLine(line) /\ ScanHex(line) = n
    BY <2>1, SizeLines DEF IsLine
  <2> HIDE DEF line
  <2>4. n # 0 /\ Len(c) = n
    <3>1. n # 0
      BY <2>1
    <3>2. Len(c) = n
      BY DEF n
    <3> QED
      BY <3>1, <3>2
  <2> QED
    BY <2>1, <2>2, <2>3, <2>4
<1> QED
  BY <1>1, <1>2

\* The first n symbols are the line, and the rest comes after them.
LineIsFirst(stream, z, line, rest, n) ==
  /\ SubSeq(stream, 1, n) = line
  /\ From(stream, n + 1) \o z = rest

\* FirstLine, with the end of the line as the filter's caller finds it.
LEMMA LineCutFirst ==
  ASSUME NEW S, NEW stream, NEW z, NEW line, NEW rest, LineComes(S, stream, z, line, rest),
         ThroughDelimiter(stream) # 0
  PROVE  LineIsFirst(stream, z, line, rest, ThroughDelimiter(stream))
PROOF
<1>1. PICK n : n = ThroughDelimiter(stream)
  OBVIOUS
<1>2. n # 0
  BY <1>1
<1>3. SubSeq(stream, 1, n) = line /\ From(stream, n + 1) \o z = rest
  BY <1>1, <1>2, FirstLine, SMTT(60)
<1> QED
  BY <1>1, <1>3 DEF LineIsFirst

\* A filter that is given what it waits for, when a chunked body is what comes: it
\* gets what it expects, and what follows is what is left of the body.
LEMMA ChunkTurn ==
  ASSUME NEW f, f.chunkState \in DOMAIN NextChunkState,
         NEW inst, inst.type # "QuitFilter", ChunkFits(f, inst),
         NEW stream \in Seq(Symbols), NEW z \in Seq(Symbols),
         Expected(f, inst, stream \o z),
         NEW taken \in 0..Len(stream), taken > 0,
         inst.type = "ThruDelimiter" => taken = ThroughDelimiter(stream),
         inst.type = "BytesExact" => taken = inst.count
  PROVE  LET bytes == SubSeq(stream, 1, taken)
         IN  /\ ~Violates(f, bytes)
             /\ \A g, next : Follows(f, bytes, g, next) =>
                               Expected(g, next, From(stream, taken + 1) \o z)
PROOF
<1> DEFINE bytes == SubSeq(stream, 1, taken)
           left == From(stream, taken + 1) \o z
<1>0. /\ Len(stream) \in Nat /\ taken # 0 /\ taken <= Len(stream)
      /\ f.chunkState \in {"BeginChunk", "ReadChunkSize", "ReadChunkData", "ReadChunkCrLf"}
  BY LenProperties DEF NextChunkState
<1>1. PICK rest \in BodySet :
         CASE f.chunkState = "ReadChunkData" ->
                \E c \in Seq(Symbols) :
                  Len(c) = inst.count /\ stream \o z = c \o (CRLF \o Encoded(rest))
           [] f.chunkState = "ReadChunkCrLf" -> stream \o z = CRLF \o Encoded(rest)
           [] OTHER -> stream \o z = Encoded(rest)
  BY DEF Expected
<1>2. Encoded(rest) \in Seq(Symbols) /\ CRLF \in Seq(Symbols) /\ Len(CRLF) = 2
      /\ CRLF \o Encoded(rest) \in Seq(Symbols)
  <2>1. Encoded(rest) \in Seq(Symbols) /\ CRLF \in Seq(Symbols) /\ Len(CRLF) = 2
    BY EncodedIs, SymbolSets
  <2> QED
    BY <2>1, ConcatProperties
<1>3. CASE f.chunkState = "ReadChunkData"
  <2>1. PICK c \in Seq(Symbols) :
          Len(c) = inst.count /\ stream \o z = c \o (CRLF \o Encoded(rest))
    BY <1>1, <1>3
  <2>2. inst.count = f.chunkSize /\ taken = Len(c)
    BY <1>3, <2>1 DEF ChunkFits
  <2>3. bytes = c /\ left = CRLF \o Encoded(rest)
    <3> DEFINE behind == CRLF \o Encoded(rest)
    <3>1. behind \in Seq(Symbols) /\ stream \o z = c \o behind
      BY <1>2, <2>1
    <3> HIDE DEF behind
    <3>2. SubSeq(stream, 1, taken) = c /\ From(stream, taken + 1) \o z = behind
      BY <1>0, <2>2, <3>1, FirstPart, ZenonT(60)
    <3> QED
      BY <3>2 DEF behind
  <2> HIDE DEF bytes, left
  <2>4. ~Violates(f, bytes)
    BY <1>3, <2>1, <2>2, <2>3 DEF Violates
  <2>5. ASSUME NEW g, NEW next, Follows(f, bytes, g, next)
        PROVE  Expected(g, next, left)
    <3>1. g.chunkState = "ReadChunkCrLf" /\ next.type = "ThruDelimiter"
      BY <1>3, <2>5 DEF Follows
    <3> QED
      BY <2>3, <3>1 DEF Expected
  <2> QED
    BY <2>4, <2>5 DEF bytes, left
<1>4. CASE f.chunkState = "ReadChunkCrLf"
  <2>1. stream \o z = CRLF \o Encoded(rest)
    BY <1>1, <1>4
  <2>2. taken = ThroughDelimiter(stream)
    BY <1>4 DEF ChunkFits
  <2>3. bytes = CRLF /\ left = Encoded(rest)
    <3> DEFINE line == CRLF
               behind == Encoded(rest)
    <3>1. LineComes(Symbols, stream, z, line, behind)
      BY <1>2, <2>1, CrLfIsLine DEF LineComes
    <3> HIDE DEF line, behind
    <3>2. ThroughDelimiter(stream) # 0
      BY <1>0, <2>2
    <3>3. LineIsFirst(stream, z, line, behind, ThroughDelimiter(stream))
      BY <3>1, <3>2, LineCutFirst
    <3> QED
      BY <2>2, <3>3 DEF line, behind, LineIsFirst
  <2> HIDE DEF bytes, left
  <2>4. ~Violates(f, bytes)
    BY <1>4, <2>3 DEF Violates
  <2>5. ASSUME NEW g, NEW next, Follows(f, bytes, g, next)
        PROVE  Expected(g, next, left)
    <3>1. g.chunkState = "ReadChunkSize" /\ next.type = "ThruDelimiter"
      BY <1>4, <2>5 DEF Follows
    <3> QED
      BY <2>3, <3>1 DEF Expected
  <2> QED
    BY <2>4, <2>5 DEF bytes, left
<1>5. CASE f.chunkState \in {"BeginChunk", "ReadChunkSize"}
  <2>1. stream \o z = Encoded(rest)
    BY <1>1, <1>5
  <2>2. taken = ThroughDelimiter(stream)
    BY <1>5 DEF ChunkFits
  <2>3. PICK line \in Seq(Symbols), behind \in Seq(Symbols) :
           /\ Encoded(rest) = line \o behind
           /\ IsLine(line)
           /\ \/ ScanHex(line) = 0 /\ behind = CRLF
              \/ /\ ScanHex(line) # 0
                 /\ \E next \in BodySet, c \in Seq(Symbols) :
                      Len(c) = ScanHex(line) /\ behind = c \o (CRLF \o Encoded(next))
    BY BodyBegins
  <2>4. stream \o z = line \o behind
    BY <2>1, <2>3
  <2>5. bytes = line /\ left = behind
    <3>1. ThroughDelimiter(stream) # 0
      BY <1>0, <2>2
    <3>2. LineComes(Symbols, stream, z, line, behind)
      BY <2>3, <2>4 DEF LineComes
    <3>3. LineIsFirst(stream, z, line, behind, ThroughDelimiter(stream))
      BY <3>1, <3>2, LineCutFirst
    <3> QED
      BY <2>2, <3>3 DEF LineIsFirst
  <2> HIDE DEF bytes, left
  <2>6. ~Violates(f, bytes)
    BY <1>5 DEF Violates
  <2>7. ASSUME NEW g, NEW next, Follows(f, bytes, g, next)
        PROVE  Expected(g, next, left)
    <3>1. CASE ScanHex(line) = 0
      <4>1. next.type = "QuitFilter" /\ left = CRLF
        BY <1>5, <2>3, <2>5, <2>7, <3>1 DEF Follows
      <4> QED
        BY <4>1 DEF Expected
    <3>2. CASE ScanHex(line) # 0
      <4>1. g.chunkState = "ReadChunkData" /\ next.type = "BytesExact"
            /\ next.count = ScanHex(line)
        BY <1>5, <2>5, <2>7, <3>2 DEF Follows
      <4>2. PICK b \in BodySet, c \in Seq(Symbols) :
              Len(c) = ScanHex(line) /\ behind = c \o (CRLF \o Encoded(b))
        BY <2>3, <3>2
      <4> QED
        BY <2>5, <4>1, <4>2 DEF Expected
    <3> QED
      BY <3>1, <3>2
  <2> QED
    BY <2>6, <2>7 DEF bytes, left
<1> QED
  BY <1>0, <1>3, <1>4, <1>5

-----------------------------------------------------------------------------
(* The runs of the other filters.                                          *)

\* The instruction that a filter has given is one of its class.
WaitsFor(f, inst) ==
  /\ f.class = "Dead" => inst.type = "QuitFilter"
  /\ f.class \in LineClasses => inst.type \in {"ThruDelimiter", "QuitFilter"}
  /\ f.class \in {"Passthru", "Data"} /\ ~IsKnown(f.totalSize) => inst.type = "BytesUnknown"
  /\ f.class = "Chunked" => ChunkFits(f, inst)

\* A run ends no program, and returns such an instruction.
RunsOn(class, disc, ran) ==
  /\ ran.ended # "asserted"
  /\ ran.ended = "ok" =>
       /\ disc => ran.instruction.type = "QuitFilter"
       /\ class \in LineClasses => ran.instruction.type \in {"ThruDelimiter", "QuitFilter"}
       /\ class \in {"Passthru", "Data"} /\ ~IsKnown(ran.filter.totalSize) =>
            ran.instruction.type = "BytesUnknown"

\* A run that ends with an exception, or never.
LEMMA ThrownRunsOn ==
  ASSUME NEW f, NEW class, NEW disc, NEW how \in {"thrown", "looping"}
  PROVE  RunsOn(class, disc, Ended(f, how))
BY DEF RunsOn, Ended, Ran

\* The filters of lines, on a line.
LEMMA LinesRunOn ==
  ASSUME NEW S, NEW line \in Seq(S), DelimiterAt(line) = {Len(line) - 1},
         NEW f, f.class \in LineClasses, NEW soFar, NEW ticket
  PROVE  RunsOn(f.class, FALSE, RunFilter(f, line, soFar, FALSE, ticket))
PROOF
<1> DEFINE ran == RunFilter(f, line, soFar, FALSE, ticket)
<1>1. /\ line = CRLF <=> Len(line) = 2
      /\ Len(line) \in Nat /\ Len(line) >= 2
  BY ShortestLine
<1>2. \A g, k, outputs :
        /\ RunsOn(f.class, FALSE, Ran(g, ThruDelimiter(k), outputs))
        /\ RunsOn(f.class, FALSE, Ran(g, QuitFilter(k), outputs))
  BY DEF RunsOn, Ran, ThruDelimiter, QuitFilter, Instruction, LineClasses, OneLineClasses
<1>3. CASE f.class \in OneLineClasses
  <2>1. ran = RunOneLine(f, line, FALSE)
    BY <1>3 DEF RunFilter, OneLineClasses
  <2>2. \/ ran = Ended(f, "thrown")
        \/ ran = Ended(f, "looping")
        \/ \E g, k, outputs : \/ ran = Ran(g, ThruDelimiter(k), outputs)
                              \/ ran = Ran(g, QuitFilter(k), outputs)
    BY <2>1 DEF RunOneLine
  <2> HIDE DEF ran
  <2> QED
    BY <1>2, <2>2, ThrownRunsOn DEF ran
<1>4. CASE f.class = "Header"
  <2>1. ran = RunHeader(f, line, FALSE)
    BY <1>4 DEF RunFilter
  <2>2. ~(Len(line) <= 2 /\ line # CRLF)
    <3>1. Len(line) <= 2 => Len(line) = 2
      <4> DEFINE n == Len(line)
      <4>1. n \in Nat /\ n >= 2
        BY <1>1
      <4> HIDE DEF n
      <4>2. n <= 2 => n = 2
        BY <4>1
      <4> QED
        BY <4>2 DEF n
    <3> HIDE DEF ran
    <3> QED
      BY <1>1, <3>1, Zenon
  <2>3. \/ ran = Ended(f, "thrown")
        \/ \E g, k, outputs : \/ ran = Ran(g, ThruDelimiter(k), outputs)
                              \/ ran = Ran(g, QuitFilter(k), outputs)
    BY <2>1, <2>2 DEF RunHeader
  <2> HIDE DEF ran
  <2> QED
    BY <1>2, <2>3, ThrownRunsOn DEF ran
<1> QED
  BY <1>3, <1>4 DEF LineClasses

\* What lets everything through, up to a size that may be known.
LEMMA ThroughRunsOn ==
  ASSUME NEW f, IsFilter(f), f.class \in {"Passthru", "Data"}, NEW bytes, NEW soFar \in Nat,
         NEW disc \in BOOLEAN, NEW ticket,
         IsKnown(f.totalSize) => soFar <= f.totalSize /\ (disc => soFar < f.totalSize)
  PROVE  RunsOn(f.class, disc, RunFilter(f, bytes, soFar, disc, ticket))
PROOF
<1> DEFINE ran == RunFilter(f, bytes, soFar, disc, ticket)
           total == IF disc /\ ~IsKnown(f.totalSize) THEN soFar ELSE f.totalSize
           out == LetThrough(f, bytes)
           g == [f EXCEPT !.totalSize = total]
           inst == SubInstruction(total, soFar, Len(bytes))
<1>1. ran = RunThrough(f, bytes, soFar, disc)
  BY DEF RunFilter
<1>2. f.totalSize \in Nat \union {UNKNOWN}
  BY DEF IsFilter
<1>3. CASE disc /\ IsKnown(f.totalSize)
  <2>1. soFar < total
    BY <1>3
  <2>2. ran = Ended(f, "thrown")
    BY <1>1, <1>3, <2>1 DEF RunThrough
  <2> QED
    BY <2>2, ThrownRunsOn
<1>4. CASE ~(disc /\ IsKnown(f.totalSize))
  <2>1. ~(disc /\ soFar < total)
    BY <1>4
  <2>2. SubCoreAccepts(total, soFar)
    BY <1>4 DEF SubCoreAccepts
  <2>3. ran = Ran(g, inst, << String(out) >>)
    BY <1>1, <1>4, <2>1, <2>2 DEF RunThrough, MustBeShort
  <2>4. g.totalSize = total
    BY DEF IsFilter
  <2>5. disc => inst.type = "QuitFilter"
    <3>1. disc => total = soFar
      BY <1>4
    <3> HIDE DEF total
    <3> QED
      BY <3>1 DEF SubInstruction, QuitFilter, Instruction
  <2>6. ~IsKnown(total) => inst.type = "BytesUnknown"
    <3>1. ~IsKnown(total) => total # soFar
      BY DEF IsKnown, UNKNOWN
    <3> HIDE DEF total
    <3> QED
      BY <3>1 DEF SubInstruction, BytesUnknown, Instruction
  <2>7. ran.ended = "ok" /\ ran.filter = g /\ ran.instruction = inst
    BY <2>3 DEF Ran
  <2> HIDE DEF ran, g, inst, total
  <2> QED
    BY <2>4, <2>5, <2>6, <2>7 DEF RunsOn, LineClasses, OneLineClasses, ran
<1> QED
  BY <1>3, <1>4

\* A filter of lines that is told of a disconnection throws.
LEMMA DisconnectedThrows ==
  ASSUME NEW f, f.class \in LineClasses, NEW bytes, NEW soFar, NEW ticket
  PROVE  RunsOn(f.class, TRUE, RunFilter(f, bytes, soFar, TRUE, ticket))
PROOF
<1>1. RunFilter(f, bytes, soFar, TRUE, ticket) = Ended(f, "thrown")
  <2>1. CASE f.class \in OneLineClasses
    BY <2>1 DEF RunFilter, RunOneLine, OneLineClasses
  <2>2. CASE f.class = "Header"
    BY <2>2 DEF RunFilter, RunHeader
  <2> QED
    BY <2>1, <2>2 DEF LineClasses
<1> QED
  BY <1>1, ThrownRunsOn

\* What runWrapper makes of these runs.
LEMMA PlainGoes ==
  ASSUME NEW f, IsFilter(f), f.class \notin {"Chunked", "Dead"},
         NEW bytes \in Seq(Alphabet), NEW soFar \in Nat, NEW disc \in BOOLEAN, NEW ticket,
         soFar > 0 \/ disc,
         ~disc /\ f.class \in LineClasses => DelimiterAt(bytes) = {Len(bytes) - 1},
         f.class \in {"Passthru", "Data"} /\ IsKnown(f.totalSize) =>
           soFar <= f.totalSize /\ (disc => soFar < f.totalSize)
  PROVE  LET ran == RunWrapper(f, bytes, soFar, disc, ticket)
         IN  /\ ran.ended # "asserted"
             /\ ran.ended = "ok" =>
                  /\ WaitsFor(ran.filter, ran.instruction)
                  /\ disc => ran.instruction.type = "QuitFilter"
PROOF
<1> DEFINE ran == RunFilter(f, bytes, soFar, disc, ticket)
<1>1. RunsOn(f.class, disc, ran)
  <2>1. CASE f.class \in LineClasses /\ disc = FALSE
    BY <2>1, LinesRunOn
  <2>2. CASE f.class \in LineClasses /\ disc = TRUE
    BY <2>2, DisconnectedThrows
  <2>3. CASE f.class \in {"Passthru", "Data"}
    BY <2>3, ThroughRunsOn
  <2>4. f.class \in LineClasses \/ f.class \in {"Passthru", "Data"}
    BY DEF IsFilter, Classes, LineClasses, OneLineClasses
  <2> QED
    BY <2>1, <2>2, <2>3, <2>4
<1>2. IsRun(ran, f.class, Len(bytes))
  BY FiltersRun
<1> HIDE DEF ran
<1>3. ran.ended = "ok" => /\ ran.instruction.commitSize <= Len(bytes)
                          /\ disc => ran.instruction.type = "QuitFilter"
  <2>1. Len(bytes) \in Nat
    BY LenProperties
  <2>2. ran.ended = "ok" => ran.instruction.commitSize = Len(bytes)
    BY <1>2 DEF IsRun
  <2> QED
    BY <1>1, <2>1, <2>2 DEF RunsOn
<1>4. RunWrapper(f, bytes, soFar, disc, ticket) = ran
  BY <1>3 DEF RunWrapper, Once, ran
<1>5. ran.filter.class = f.class
  BY <1>2 DEF IsRun
<1>6. ran.ended = "ok" => WaitsFor(ran.filter, ran.instruction)
  BY <1>1, <1>5 DEF WaitsFor, RunsOn
<1> QED
  BY <1>1, <1>3, <1>4, <1>6 DEF RunsOn

-----------------------------------------------------------------------------
(* The invariant of a transfer.                                            *)

\* What the server sends to its present filter when z is still to come, and whether
\* that is one of the bodies.
SentWith(z) == From(bytesReadSoFar["server"] \o z, TakenBefore + 1)
IsBodyWith(z) == \E body \in Bodies : SentWith(z) = Encoded(body)

\* Only a socket that was closed is not there.
SocketsInv == \A w \in Conn : sock[w] = "invalid" => disconnected[w]

\* Each filter waits for what its class may wait for; told of a disconnection, it
\* has quit.
InstructionsInv ==
  /\ filter["client"].class # "Chunked"
  /\ \A w \in Conn : Waits(w) => ~readAZero[w]
  /\ Waits("server") /\ Began =>
       /\ ChunkFits(filter["server"], ThruDelimiter(0))
       /\ filter["server"].chunkState = "BeginChunk"
  /\ \A w \in Conn : ~HasEnded /\ ~Waits(w) =>
       /\ WaitsFor(filter[w], instruction[w])
       /\ readAZero[w] => instruction[w].type = "QuitFilter"

\* A chunked filter is where it should be in the body that the server sends.
BodyInv ==
  /\ TakenBefore \in Nat
  /\ ~HasEnded /\ ~Waits("server") /\ Began =>
       \A z \in Seq(Symbols) :
         IsBodyWith(z) =>
           Expected(filter["server"], instruction["server"], unfilteredBytes["server"] \o z)

\* What stops the program, besides a short send: a reset, or a chunked body that is
\* none or that has a length besides.
WhyAsserted ==
  stage = "asserted" =>
    \/ \E w \in Conn : disconnected[w]
    \/ Began /\ IsKnown(filter["server"].totalSize)
    \/ Began /\ \A z \in Seq(Symbols) : ~IsBodyWith(z)

\* The inductive invariant of a transfer.
TransferInv == SocketsInv /\ InstructionsInv /\ BodyInv /\ WhyAsserted

-----------------------------------------------------------------------------
(* The bytes of a transfer.                                                *)

\* What is behind the first sequence of two, also when that is nothing.
LEMMA BehindAny ==
  ASSUME NEW S, NEW s \in Seq(S), NEW t \in Seq(S)
  PROVE  From(s \o t, Len(s) + 1) = t
PROOF
<1>1. Len(t) \in Nat /\ Len(s) \in Nat
  BY LenProperties
<1>2. CASE Len(t) >= 1
  BY <1>2, BehindFirst
<1>3. CASE Len(t) = 0
  <2>1. t = << >>
    BY <1>3, EmptySeq
  <2>2. s \o t = s
    BY <2>1, ConcatEmptySeq
  <2>3. SubSeq(s, Len(s) + 1, Len(s)) = << >>
    BY <1>1, SubSeqEmpty
  <2> QED
    BY <2>1, <2>2, <2>3 DEF From
<1> QED
  BY <1>1, <1>2, <1>3

\* Before a filter has read anything, what it is sent are the unfiltered bytes and
\* what is to come.
LEMMA SentAtFirst ==
  ASSUME LoopInv, ~HasEnded, readSoFar["server"] = 0, NEW z \in Seq(Symbols)
  PROVE  SentWith(z) = unfilteredBytes["server"] \o z
PROOF
<1> DEFINE c == consumed["server"]
           raw == unfilteredBytes["server"]
<1>1. "server" \in Conn
  BY DEF Conn
<1>2. c \in Seq(Symbols) /\ raw \in Seq(Symbols)
  BY <1>1, SymbolSets DEF LoopInv, StreamInv, Typed
<1>3. uncommittedBytes["server"] = << >>
  BY <1>1 DEF LoopInv, StreamInv, NothingUncommitted
<1>4. bytesReadSoFar["server"] = c \o << >> \o raw
  BY <1>1, <1>3 DEF LoopInv, StreamInv, NoByteLost
<1>5. TakenBefore = Len(c)
  BY <1>2, <1>3, LenProperties DEF TakenBefore
<1> HIDE DEF c, raw
<1>6. bytesReadSoFar["server"] = c \o raw
  BY <1>2, <1>4, ConcatEmptySeq
<1>7. (c \o raw) \o z = c \o (raw \o z) /\ raw \o z \in Seq(Symbols)
  BY <1>2, Regrouped, ConcatProperties
<1>8. From(c \o (raw \o z), Len(c) + 1) = raw \o z
  BY <1>2, <1>7, BehindAny
<1> QED
  BY <1>5, <1>6, <1>7, <1>8 DEF SentWith, raw

\* What a recv brings was to come before.
LEMMA SentMoves ==
  ASSUME LoopInv, NEW buffer \in Seq(Alphabet),
         bytesReadSoFar'["server"] = bytesReadSoFar["server"] \o buffer,
         TakenBefore' = TakenBefore, NEW z \in Seq(Symbols)
  PROVE  /\ buffer \o z \in Seq(Symbols)
         /\ SentWith(z)' = SentWith(buffer \o z)
         /\ IsBodyWith(z)' <=> IsBodyWith(buffer \o z)
PROOF
<1> DEFINE read == bytesReadSoFar["server"]
<1>1. read \in Seq(Symbols) /\ buffer \in Seq(Symbols)
  BY SymbolSets DEF LoopInv, StreamInv, Typed, Conn
<1>2. (read \o buffer) \o z = read \o (buffer \o z) /\ buffer \o z \in Seq(Symbols)
  <2> HIDE DEF read
  <2>1. (read \o buffer) \o z = read \o (buffer \o z)
    BY <1>1, Regrouped, SMTT(60)
  <2>2. buffer \o z \in Seq(Symbols)
    BY <1>1, ConcatProperties, SMTT(60)
  <2> QED
    BY <2>1, <2>2
<1>3. SentWith(z)' = SentWith(buffer \o z)
  BY <1>2 DEF SentWith
<1> QED
  BY <1>2, <1>3 DEF IsBodyWith

\* A run of a filter moves bytes, and lets none come before it.
LEMMA TakenBeforeStays ==
  ASSUME LoopInv, ~HasEnded, NEW w \in Conn,
         NEW stream \in Seq(Alphabet), NEW taken \in 0..Len(stream),
         NEW first, NEW ran, NEW class, IsRun(ran, class, taken),
         Helped(w, stream, taken, first, ran)
  PROVE  TakenBefore' = TakenBefore
PROOF
<1>1. /\ unfilteredBytes' \in [Conn -> Seq(Alphabet)]
      /\ uncommittedBytes' \in [Conn -> Seq(Alphabet)]
      /\ consumed' \in [Conn -> Seq(Alphabet)]
      /\ consumed'[w] \o uncommittedBytes'[w] \o unfilteredBytes'[w]
           = consumed[w] \o uncommittedBytes[w] \o stream
  BY StreamsBehindRun DEF LoopInv
<1>2. /\ consumed \in [Conn -> Seq(Alphabet)] /\ uncommittedBytes \in [Conn -> Seq(Alphabet)]
      /\ unfilteredBytes \in [Conn -> Seq(Alphabet)] /\ readSoFar \in [Conn -> Nat]
  BY DEF LoopInv, StreamInv, Typed, LoopTyped
<1>3. CASE w # "server"
  BY <1>2, <1>3 DEF Helped, TakenBefore, Conn
<1>4. CASE w = "server"
  <2> DEFINE c == consumed[w]
             u == uncommittedBytes[w]
             d == consumed'[w]
             v == uncommittedBytes'[w]
             y == unfilteredBytes'[w]
  <2>1. /\ c \in Seq(Alphabet) /\ u \in Seq(Alphabet) /\ d \in Seq(Alphabet)
        /\ v \in Seq(Alphabet) /\ y \in Seq(Alphabet)
        /\ d \o v \o y = c \o u \o stream
    BY <1>1, <1>2
  <2>2. readSoFar'[w] = readSoFar[w] + taken
    BY <1>2 DEF Helped
  <2>3. y = From(stream, taken + 1)
    BY <1>2 DEF Helped
  <2> HIDE DEF c, u, d, v, y
  <2>4. Len(y) = Len(stream) - taken
    BY <2>3, Split
  <2>5. Len(d \o v \o y) = Len(d) + Len(v) + Len(y)
    BY <2>1, ConcatProperties
  <2>6. Len(c \o u \o stream) = Len(c) + Len(u) + Len(stream)
    BY <2>1, ConcatProperties
  <2>7. /\ Len(c) \in Nat /\ Len(u) \in Nat /\ Len(d) \in Nat /\ Len(v) \in Nat
        /\ Len(y) \in Nat /\ Len(stream) \in Nat
    BY <2>1, LenProperties
  <2>8. Len(d) + Len(v) = Len(c) + Len(u) + taken
    <3>1. Len(d) + Len(v) + Len(y) = Len(c) + Len(u) + Len(stream)
      BY <2>1, <2>5, <2>6
    <3> DEFINE nc == Len(c)
               nu == Len(u)
               nd == Len(d)
               nv == Len(v)
               ny == Len(y)
               ns == Len(stream)
    <3>2. /\ nc \in Nat /\ nu \in Nat /\ nd \in Nat /\ nv \in Nat /\ ny \in Nat /\ ns \in Nat
          /\ taken \in 0..ns /\ ny = ns - taken /\ nd + nv + ny = nc + nu + ns
      BY <2>4, <2>7, <3>1
    <3> HIDE DEF nc, nu, nd, nv, ny, ns
    <3>3. nd + nv = nc + nu + taken
      BY <3>2
    <3> QED
      BY <3>3 DEF nc, nu, nd, nv
  <2>9. Len(d) + Len(v) - (readSoFar[w] + taken) = Len(c) + Len(u) - readSoFar[w]
    <3> DEFINE nc == Len(c)
               nu == Len(u)
               nd == Len(d)
               nv == Len(v)
               so == readSoFar[w]
    <3>1. /\ nc \in Nat /\ nu \in Nat /\ nd \in Nat /\ nv \in Nat /\ so \in Nat /\ taken \in Nat
          /\ nd + nv = nc + nu + taken
      BY <1>2, <2>7, <2>8
    <3> HIDE DEF nc, nu, nd, nv, so
    <3>2. nd + nv - (so + taken) = nc + nu - so
      BY <3>1
    <3> QED
      BY <3>2 DEF nc, nu, nd, nv, so
  <2> QED
    BY <1>4, <2>2, <2>9 DEF TakenBefore, c, u, d, v
<1> QED
  BY <1>3, <1>4

-----------------------------------------------------------------------------
(* The runs of a transfer.                                                 *)

\* The caller of a run: it gives a filter that has not quit what its instruction
\* asks for, or tells it of the disconnection.
Runs(w, f, stream, taken, disc, ticket, ran) ==
  /\ w \in Conn /\ IsFilter(f) /\ f.class = filter[w].class
  /\ f.class # "Chunked" => f = filter[w]
  /\ f.class # "Dead"
  /\ stream \in Seq(Alphabet) /\ taken \in 0..Len(stream) /\ disc \in BOOLEAN
  /\ ~disc => /\ f = filter[w] /\ ~Waits(w) /\ taken > 0
              /\ instruction[w].type # "QuitFilter"
              /\ instruction[w].type = "ThruDelimiter" => taken = ThroughDelimiter(stream)
              /\ instruction[w].type = "BytesExact" => taken = instruction[w].count
  /\ f.class \in {"Passthru", "Data"} /\ IsKnown(f.totalSize) =>
       /\ readSoFar[w] + taken <= f.totalSize
       /\ disc => readSoFar[w] + taken < f.totalSize
  /\ ran = RunWrapper(f, SubSeq(stream, 1, taken), readSoFar[w] + taken, disc, ticket)

\* What the filter gets, and how many bytes it has got then.
LEMMA GivenIs ==
  ASSUME LoopInv, NEW w, NEW f, NEW stream, NEW taken, NEW disc, NEW ticket, NEW ran,
         Runs(w, f, stream, taken, disc, ticket, ran)
  PROVE  /\ SubSeq(stream, 1, taken) \in Seq(Alphabet)
         /\ Len(SubSeq(stream, 1, taken)) = taken
         /\ readSoFar[w] + taken \in Nat
         /\ readSoFar[w] + taken > 0 \/ disc
         /\ IsRun(ran, f.class, taken)
PROOF
<1> DEFINE given == SubSeq(stream, 1, taken)
           soFar == readSoFar[w] + taken
<1>1. /\ w \in Conn /\ stream \in Seq(Alphabet) /\ taken \in 0..Len(stream)
      /\ disc \in BOOLEAN /\ IsFilter(f) /\ (taken > 0 \/ disc)
      /\ ran = RunWrapper(f, given, soFar, disc, ticket)
  BY DEF Runs
<1>2. given \in Seq(Alphabet) /\ Len(given) = taken
  BY <1>1, Split
<1>3. soFar \in Nat /\ (soFar > 0 \/ disc)
  <2>1. readSoFar[w] \in Nat /\ taken \in Nat
    BY <1>1, LenProperties DEF LoopInv, LoopTyped
  <2> QED
    BY <1>1, <2>1
<1> HIDE DEF given, soFar
<1>4. IsRun(ran, f.class, Len(given))
  BY <1>1, <1>2, <1>3, WrapperRuns
<1> QED
  BY <1>2, <1>3, <1>4 DEF given, soFar

\* A run of a filter that is not chunked.
LEMMA PlainRuns ==
  ASSUME LoopInv, InstructionsInv, ~HasEnded,
         NEW w, NEW f, NEW stream, NEW taken, NEW disc, NEW ticket, NEW ran,
         Runs(w, f, stream, taken, disc, ticket, ran), f.class # "Chunked"
  PROVE  /\ ran.ended # "asserted"
         /\ ran.ended = "ok" => /\ WaitsFor(ran.filter, ran.instruction)
                                /\ disc => ran.instruction.type = "QuitFilter"
PROOF
<1> DEFINE given == SubSeq(stream, 1, taken)
           soFar == readSoFar[w] + taken
<1>1. /\ given \in Seq(Alphabet) /\ Len(given) = taken /\ soFar \in Nat
      /\ soFar > 0 \/ disc
  BY GivenIs
<1>2. /\ IsFilter(f) /\ disc \in BOOLEAN /\ f.class \notin {"Chunked", "Dead"}
      /\ w \in Conn /\ stream \in Seq(Alphabet)
      /\ f.class \in {"Passthru", "Data"} /\ IsKnown(f.totalSize) =>
           soFar <= f.totalSize /\ (disc => soFar < f.totalSize)
      /\ ran = RunWrapper(f, given, soFar, disc, ticket)
  BY DEF Runs
<1>3. ~disc /\ f.class \in LineClasses => DelimiterAt(given) = {Len(given) - 1}
  <2>1. SUFFICES ASSUME ~disc, f.class \in LineClasses
                 PROVE  DelimiterAt(given) = {taken - 1}
    BY <1>1
  <2>2. /\ f = filter[w] /\ ~Waits(w) /\ taken > 0 /\ instruction[w].type # "QuitFilter"
        /\ instruction[w].type = "ThruDelimiter" => taken = ThroughDelimiter(stream)
    BY <2>1 DEF Runs
  <2>3. WaitsFor(f, instruction[w])
    BY <1>2, <2>2 DEF InstructionsInv
  <2>4. instruction[w].type = "ThruDelimiter"
    BY <2>1, <2>2, <2>3 DEF WaitsFor
  <2>5. taken = ThroughDelimiter(stream) /\ taken # 0
    BY <2>2, <2>4
  <2> QED
    BY <1>2, <2>5, LineToDelimiter
<1> HIDE DEF given, soFar
<1> QED
  BY <1>1, <1>2, <1>3, PlainGoes

\* A run of a chunked filter.
LEMMA ChunksRun ==
  ASSUME LoopInv, InstructionsInv, ~HasEnded,
         NEW w, NEW f, NEW stream, NEW taken, NEW disc, NEW ticket, NEW ran,
         Runs(w, f, stream, taken, disc, ticket, ran), f.class = "Chunked"
  PROVE  /\ disc => CutsOff(f, ran)
         /\ ~disc => GoesOn(f, SubSeq(stream, 1, taken), ran)
PROOF
<1> DEFINE given == SubSeq(stream, 1, taken)
           soFar == readSoFar[w] + taken
<1>1. /\ given \in Seq(Alphabet) /\ soFar \in Nat /\ (soFar > 0 \/ disc)
  BY GivenIs
<1>2. /\ IsFilter(f) /\ disc \in BOOLEAN /\ w \in Conn
      /\ ran = RunWrapper(f, given, soFar, disc, ticket)
  BY DEF Runs
<1>3. CASE disc
  <2>1. ran = RunWrapper(f, given, soFar, TRUE, ticket)
    BY <1>2, <1>3
  <2> HIDE DEF given, soFar
  <2>2. CutsOff(f, ran)
    BY <2>1, CutOffGoes
  <2> QED
    BY <1>3, <2>2
<1>4. CASE ~disc
  <2>1. f = filter[w] /\ ~Waits(w) /\ instruction[w].type # "QuitFilter"
    BY <1>4 DEF Runs
  <2>2. ChunkFits(f, instruction[w])
    BY <1>2, <2>1 DEF InstructionsInv, WaitsFor
  <2>3. ran = RunWrapper(f, given, soFar, FALSE, ticket) /\ soFar > 0
    BY <1>1, <1>2, <1>4
  <2> HIDE DEF given, soFar
  <2>4. GoesOn(f, given, ran)
    BY <1>1, <1>2, <2>1, <2>2, <2>3, ChunkedGoes
  <2> QED
    BY <1>4, <2>4 DEF given
<1> QED
  BY <1>3, <1>4

\* What ChunkTurn says of a turn.
Turns(f, stream, taken, z) ==
  /\ ~Violates(f, SubSeq(stream, 1, taken))
  /\ \A g, next : Follows(f, SubSeq(stream, 1, taken), g, next) =>
                    Expected(g, next, From(stream, taken + 1) \o z)

\* A recv of w brings the buffer (FilterBuffered: nothing), and the filter takes what
\* is then in front of the stream.
Brings(w, buffer, stream) ==
  /\ buffer \in Seq(Alphabet)
  /\ stream = unfilteredBytes[w] \o buffer
  /\ \A v \in Conn : bytesReadSoFar'[v] = IF v = w THEN bytesReadSoFar[v] \o buffer
                                                   ELSE bytesReadSoFar[v]

\* The chunked filter's turn in a body.
LEMMA ServerTurns ==
  ASSUME LoopInv, InstructionsInv, BodyInv, ~HasEnded, Began,
         NEW buffer, NEW stream, Brings("server", buffer, stream),
         NEW taken, NEW ticket, NEW ran,
         Runs("server", filter["server"], stream, taken, FALSE, ticket, ran),
         TakenBefore' = TakenBefore, NEW z \in Seq(Symbols), IsBodyWith(z)'
  PROVE  Turns(filter["server"], stream, taken, z)
PROOF
<1> DEFINE f == filter["server"]
           inst == instruction["server"]
           raw == unfilteredBytes["server"]
<1>1. "server" \in Conn /\ "client" # "server"
  BY DEF Conn
<1>2. /\ ~Waits("server") /\ inst.type # "QuitFilter" /\ taken > 0
      /\ taken \in 0..Len(stream) /\ stream \in Seq(Alphabet) /\ IsFilter(f)
      /\ inst.type = "ThruDelimiter" => taken = ThroughDelimiter(stream)
      /\ inst.type = "BytesExact" => taken = inst.count
  BY DEF Runs
<1>3. /\ f.chunkState \in DOMAIN NextChunkState /\ ChunkFits(f, inst)
  BY <1>1, <1>2 DEF Began, IsFilter, InstructionsInv, WaitsFor
<1>4. buffer \in Seq(Alphabet) /\ bytesReadSoFar'["server"] = bytesReadSoFar["server"] \o buffer
      /\ stream = raw \o buffer
  BY <1>1 DEF Brings
<1>5. buffer \o z \in Seq(Symbols) /\ IsBodyWith(buffer \o z)
  BY <1>4, SentMoves
<1>6. Expected(f, inst, raw \o (buffer \o z))
  BY <1>2, <1>5 DEF BodyInv
<1>7. raw \in Seq(Symbols) /\ buffer \in Seq(Symbols) /\ stream \in Seq(Symbols)
  BY <1>1, <1>2, <1>4, SymbolSets DEF LoopInv, StreamInv, Typed
<1> HIDE DEF raw, f, inst
<1>8. raw \o buffer \o z = raw \o (buffer \o z)
  BY <1>7, Regrouped
<1>9. Expected(f, inst, stream \o z)
  BY <1>4, <1>6, <1>8
<1>10. Turns(f, stream, taken, z)
  BY <1>2, <1>3, <1>7, <1>9, ChunkTurn DEF Turns
<1> QED
  BY <1>10 DEF f

\* What a run leaves of the loop, besides.
Leaves(w, disc, ran) ==
  /\ ran.ended = "ok" => ~HasEnded'
  /\ ran.ended # "ok" => stage' = ran.ended
  /\ \A v \in Conn : Waits(v)' => v # w /\ Waits(v)
  /\ ~HasEnded' => \A v \in Conn : v # w => (Waits(v)' <=> Waits(v))
  /\ \A v \in Conn : v # w => readAZero'[v] = readAZero[v]
  /\ readAZero'[w] => disc

\* Whose turn it was has another filter, stream and instruction; the others have not.
LEMMA OnlyTheRun ==
  ASSUME LoopInv, NEW w \in Conn, NEW stream, NEW taken, NEW first, NEW ran,
         Helped(w, stream, taken, first, ran)
  PROVE  /\ filter'[w] = ran.filter /\ instruction'[w] = ran.instruction
         /\ unfilteredBytes'[w] = From(stream, taken + 1)
         /\ \A v \in Conn : v # w =>
              /\ filter'[v] = filter[v] /\ instruction'[v] = instruction[v]
              /\ unfilteredBytes'[v] = unfilteredBytes[v]
BY DEF Helped, LoopInv, StreamInv, Typed

\* Behind a run, each filter again waits for what its class may wait for.
LEMMA InstructionsBehindRun ==
  ASSUME LoopInv, InstructionsInv, ~HasEnded,
         NEW w, NEW f, NEW stream, NEW taken, NEW disc, NEW ticket, NEW ran,
         Runs(w, f, stream, taken, disc, ticket, ran),
         NEW first, Helped(w, stream, taken, first, ran), Leaves(w, disc, ran)
  PROVE  InstructionsInv'
PROOF
<1>0. IsRun(ran, f.class, taken)
  BY GivenIs
<1>1. w \in Conn /\ f.class = filter[w].class /\ IsRun(ran, f.class, taken)
  BY <1>0 DEF Runs
<1>2. /\ filter'[w] = ran.filter /\ instruction'[w] = ran.instruction
      /\ \A v \in Conn : v # w => filter'[v] = filter[v] /\ instruction'[v] = instruction[v]
  BY <1>1, OnlyTheRun
<1>3. \A v \in Conn : filter'[v].class = filter[v].class
  BY <1>1, <1>2 DEF IsRun
<1>4. "client" \in Conn /\ "server" \in Conn
  BY DEF Conn
<1>5. (filter["client"].class # "Chunked")'
  BY <1>3, <1>4 DEF InstructionsInv
<1>6. \A v \in Conn : Waits(v)' => ~readAZero'[v]
  BY DEF InstructionsInv, Leaves
<1>7. (Waits("server") /\ Began =>
         /\ ChunkFits(filter["server"], ThruDelimiter(0))
         /\ filter["server"].chunkState = "BeginChunk")'
  BY <1>2, <1>4 DEF InstructionsInv, Leaves, Began
<1>8. ASSUME NEW v \in Conn, ~HasEnded', ~Waits(v)'
      PROVE  /\ WaitsFor(filter'[v], instruction'[v])
             /\ readAZero'[v] => instruction'[v].type = "QuitFilter"
  <2>1. CASE v # w
    BY <1>2, <1>8, <2>1 DEF InstructionsInv, Leaves
  <2>2. CASE v = w
    <3>1. ran.ended = "ok"
      BY <1>1, <1>8 DEF Leaves, IsRun, HasEnded
    <3>2. CASE f.class # "Chunked"
      <4>1. /\ WaitsFor(ran.filter, ran.instruction)
            /\ disc => ran.instruction.type = "QuitFilter"
        BY <3>1, <3>2, PlainRuns
      <4> QED
        BY <1>2, <2>2, <4>1 DEF Leaves
    <3>3. CASE f.class = "Chunked"
      <4>1. /\ disc => CutsOff(f, ran)
            /\ ~disc => GoesOn(f, SubSeq(stream, 1, taken), ran)
        BY <3>3, ChunksRun
      <4>2. ~disc /\ ChunkFits(ran.filter, ran.instruction) /\ ran.filter.class = "Chunked"
        BY <1>1, <3>1, <3>3, <4>1 DEF CutsOff, GoesOn, IsRun
      <4>3. WaitsFor(ran.filter, ran.instruction)
        BY <4>2 DEF WaitsFor, LineClasses, OneLineClasses
      <4> QED
        BY <1>2, <2>2, <4>2, <4>3 DEF Leaves
    <3> QED
      BY <3>2, <3>3
  <2> QED
    BY <2>1, <2>2
<1> QED
  BY <1>5, <1>6, <1>7, <1>8 DEF InstructionsInv

\* Behind a run, a chunked filter is where it should be in the body.
LEMMA BodyBehindRun ==
  ASSUME LoopInv, InstructionsInv, BodyInv, ~HasEnded,
         NEW w, NEW f, NEW stream, NEW taken, NEW disc, NEW ticket, NEW ran,
         Runs(w, f, stream, taken, disc, ticket, ran),
         NEW first, Helped(w, stream, taken, first, ran), Leaves(w, disc, ran),
         NEW buffer, Brings(w, buffer, stream)
  PROVE  BodyInv' /\ WhyAsserted'
PROOF
<1>0. IsRun(ran, f.class, taken)
  BY GivenIs
<1>1. /\ w \in Conn /\ f.class = filter[w].class /\ IsRun(ran, f.class, taken)
      /\ stream \in Seq(Alphabet) /\ taken \in 0..Len(stream)
  BY <1>0 DEF Runs
<1>2. /\ filter'[w] = ran.filter /\ instruction'[w] = ran.instruction
      /\ unfilteredBytes'[w] = From(stream, taken + 1)
      /\ \A v \in Conn : v # w =>
           /\ filter'[v] = filter[v] /\ instruction'[v] = instruction[v]
           /\ unfilteredBytes'[v] = unfilteredBytes[v]
  BY <1>1, OnlyTheRun
<1>3. TakenBefore' = TakenBefore
  BY <1>1, TakenBeforeStays
<1>4. "client" \in Conn /\ "server" \in Conn /\ ran.filter.class = f.class
      /\ ran.ended \in {"ok", "thrown", "asserted", "looping"}
  BY <1>1 DEF Conn, IsRun
<1>5. ASSUME NEW z \in Seq(Symbols), IsBodyWith(z)', f.class = "Chunked", ~disc
      PROVE  Turns(f, stream, taken, z) /\ w = "server" /\ f = filter["server"]
  <2>1. w = "server" /\ f = filter["server"]
    BY <1>1, <1>5 DEF InstructionsInv, Runs, Conn
  <2>2. disc = FALSE /\ Began
    BY <1>5, <2>1 DEF Began, Runs
  <2> QED
    BY <1>3, <1>5, <2>1, <2>2, ServerTurns
<1>6. ASSUME ~HasEnded', ~Waits("server")', Began', NEW z \in Seq(Symbols), IsBodyWith(z)'
      PROVE  Expected(filter'["server"], instruction'["server"],
                      unfilteredBytes'["server"] \o z)
  <2>1. CASE w # "server"
    <3>1. bytesReadSoFar'["server"] = bytesReadSoFar["server"]
      BY <1>4, <2>1 DEF Brings
    <3>2. IsBodyWith(z)
      BY <1>3, <1>6, <3>1 DEF IsBodyWith, SentWith
    <3>3. ~Waits("server") /\ Began
      BY <1>2, <1>4, <1>6, <2>1 DEF Leaves, Began
    <3> QED
      BY <1>2, <1>4, <2>1, <3>2, <3>3 DEF BodyInv
  <2>2. CASE w = "server"
    <3>1. ran.ended = "ok" /\ f.class = "Chunked"
      BY <1>2, <1>4, <1>6, <2>2 DEF Leaves, HasEnded, Began
    <3>2. /\ disc => CutsOff(f, ran)
          /\ ~disc => GoesOn(f, SubSeq(stream, 1, taken), ran)
      BY <3>1, ChunksRun
    <3>3. ~disc /\ Follows(f, SubSeq(stream, 1, taken), ran.filter, ran.instruction)
      BY <3>1, <3>2 DEF CutsOff, GoesOn
    <3>4. Turns(f, stream, taken, z)
      BY <1>5, <1>6, <3>1, <3>3
    <3>5. Expected(ran.filter, ran.instruction, From(stream, taken + 1) \o z)
      BY <3>3, <3>4 DEF Turns
    <3> QED
      BY <1>2, <2>2, <3>5
  <2> QED
    BY <2>1, <2>2
<1>7. BodyInv'
  BY <1>3, <1>6 DEF BodyInv
<1>8. ASSUME stage' = "asserted"
      PROVE  \/ Began' /\ IsKnown(filter'["server"].totalSize)
             \/ Began' /\ \A z \in Seq(Symbols) : ~IsBodyWith(z)'
  <2>1. ran.ended = "asserted"
    BY <1>4, <1>8 DEF Leaves, HasEnded
  <2>2. f.class = "Chunked"
    BY <2>1, PlainRuns
  <2>3. w = "server" /\ Began'
    BY <1>1, <1>2, <1>4, <2>2 DEF InstructionsInv, Began, Conn
  <2>4. /\ disc => CutsOff(f, ran)
        /\ ~disc => GoesOn(f, SubSeq(stream, 1, taken), ran)
    BY <2>2, ChunksRun
  <2>5. ran.filter.totalSize = f.totalSize
    BY <2>1, <2>4 DEF CutsOff, GoesOn
  <2>6. CASE IsKnown(f.totalSize)
    BY <1>2, <2>3, <2>5, <2>6
  <2>7. CASE ~IsKnown(f.totalSize)
    <3>1. ~disc /\ Violates(f, SubSeq(stream, 1, taken))
      BY <2>1, <2>4, <2>7 DEF CutsOff, GoesOn
    <3>2. \A z \in Seq(Symbols) : ~IsBodyWith(z)'
      BY <1>5, <2>2, <3>1 DEF Turns
    <3> QED
      BY <2>3, <3>2
  <2> QED
    BY <2>6, <2>7
<1> QED
  BY <1>7, <1>8 DEF WhyAsserted

-----------------------------------------------------------------------------
(* The steps of a transfer.                                                *)

\* A step that runs no filter and moves no bytes.
LEMMA TransferUntouched ==
  ASSUME InstructionsInv, BodyInv,
         UNCHANGED << filter, instruction, readSoFar, consumed, uncommittedBytes,
                      unfilteredBytes, bytesReadSoFar, readAZero >>,
         ~HasEnded' => ~HasEnded /\ \A v \in Conn : Waits(v)' <=> Waits(v),
         \A v \in Conn : Waits(v)' => Waits(v)
  PROVE  InstructionsInv' /\ BodyInv'
PROOF
<1>1. TakenBefore' = TakenBefore
  BY DEF TakenBefore
<1>2. \A z : IsBodyWith(z)' <=> IsBodyWith(z)
  BY <1>1 DEF IsBodyWith, SentWith
<1>3. "client" \in Conn /\ "server" \in Conn /\ Began' = Began
  BY DEF Conn, Began
<1>4. BodyInv'
  BY <1>1, <1>2, <1>3 DEF BodyInv
<1>5. InstructionsInv'
  BY <1>3 DEF InstructionsInv
<1> QED
  BY <1>4, <1>5

\* What has stopped the program stays.
LEMMA StillAsserted ==
  ASSUME WhyAsserted, stage = "asserted",
         UNCHANGED << filter, readSoFar, consumed, uncommittedBytes, bytesReadSoFar,
                      disconnected >>
  PROVE  WhyAsserted'
PROOF
<1>1. TakenBefore' = TakenBefore /\ Began' = Began
  BY DEF TakenBefore, Began
<1>2. \A z : IsBodyWith(z)' <=> IsBodyWith(z)
  BY <1>1 DEF IsBodyWith, SentWith
<1> QED
  BY <1>1, <1>2 DEF WhyAsserted

\* Decide stops the program only when a socket was closed: the bytes at hand satisfy
\* no filter, and no other is at its end without having quit.
LEMMA DecideAsserts ==
  ASSUME LoopInv, SocketsInv, InstructionsInv, Decide, stage' = "asserted"
  PROVE  \E w \in Conn : disconnected[w]
PROOF
<1>1. SUFFICES ASSUME \A w \in Conn : ~disconnected[w] PROVE FALSE
  OBVIOUS
<1>2. stage = "compute" /\ Done /\ \A w \in Conn : ~CanFilter(w)
  BY DEF Decide
<1>3. \A w \in Conn : sock[w] = "open"
  BY <1>1 DEF SocketsInv, LoopInv, LoopTyped
<1>4. /\ \A w \in Conn : ~Waits(w) /\ uncommittedBytes[w] = << >>
      /\ ~HasEnded
  BY <1>2 DEF Waits, HasEnded, LoopInv, StreamInv, NothingUncommitted
<1>5. ASSUME NEW w \in Conn
      PROVE  instruction[w].type = "QuitFilter"
  <2> DEFINE inst == instruction[w]
             f == filter[w]
             raw == Len(unfilteredBytes[w])
  <2>1. SUFFICES ASSUME inst.type # "QuitFilter" PROVE FALSE
    OBVIOUS
  <2>2. /\ WaitsFor(f, inst) /\ ~readAZero[w] /\ IsFilter(f) /\ inst \in InstructionSet
        /\ ThroughFits(f, inst, readSoFar[w]) /\ raw \in Nat
    <3>1. unfilteredBytes[w] \in Seq(Alphabet)
      BY DEF LoopInv, StreamInv, Typed
    <3>2. raw \in Nat
      BY <3>1, LenProperties
    <3> QED
      BY <1>4, <2>1, <3>2 DEF InstructionsInv, LoopInv, StreamInv, Typed, ThroughIsInTime
  <2>3. Reading(w)
    BY <1>3, <2>1, <2>2 DEF Reading
  <2>4. NeedToRead(w) = 0
    BY <1>2 DEF Done
  <2>5. inst.type \in {"BytesExact", "BytesMax"} /\ inst.count <= raw
    <3>1. Len(uncommittedBytes[w]) = 0
      BY <1>4, EmptySeq
    <3>2. Len(uncommittedBytes[w]) + raw = raw
      BY <2>2, <3>1
    <3>3. inst.count \in Nat
      BY <2>2 DEF InstructionSet
    <3> DEFINE n == inst.count
               both == Len(uncommittedBytes[w]) + raw
    <3>4. NeedToRead(w) = IF inst.type \in {"BytesExact", "BytesMax"}
                            THEN IF n <= both THEN 0 ELSE n - both
                            ELSE UNKNOWN
      BY <2>3 DEF NeedToRead
    <3>5. n \in Nat /\ raw \in Nat /\ both = raw
      BY <2>2, <3>2, <3>3
    <3> HIDE DEF n, both, raw
    <3>6. inst.type \in {"BytesExact", "BytesMax"} /\ n <= raw
      BY <2>4, <3>4, <3>5 DEF UNKNOWN
    <3> QED
      BY <3>6 DEF n, raw
  <2>6. inst.count > 0 /\ inst.count \in Nat
    <3>1. inst.count \in Nat
      BY <2>2 DEF InstructionSet
    <3>2. CASE f.class \in {"Passthru", "Data"}
      <4>1. CASE IsKnown(f.totalSize)
        <5>1. inst.count > 0
          BY <2>1, <2>2, <3>2, <4>1 DEF ThroughFits
        <5> QED
          BY <3>1, <5>1
      <4>2. CASE ~IsKnown(f.totalSize)
        BY <2>2, <2>5, <3>2, <4>2 DEF WaitsFor
      <4> QED
        BY <4>1, <4>2
    <3>3. CASE f.class = "Chunked"
      BY <2>1, <2>2, <2>5, <3>1, <3>3 DEF WaitsFor, ChunkFits
    <3>4. CASE f.class \in LineClasses
      BY <2>1, <2>2, <2>5, <3>4 DEF WaitsFor
    <3>5. CASE f.class = "Dead"
      BY <2>1, <2>2, <3>5 DEF WaitsFor
    <3> QED
      BY <2>2, <3>2, <3>3, <3>4, <3>5 DEF IsFilter, Classes, LineClasses, OneLineClasses
  <2>7. Satisfied(w) > 0
    <3>1. Len(uncommittedBytes[w]) = 0
      BY <1>4, EmptySeq
    <3> DEFINE n == inst.count
    <3>2. n \in Nat /\ n > 0 /\ n <= raw /\ raw \in Nat
      BY <2>2, <2>5, <2>6
    <3>3. Satisfied(w) = n \/ Satisfied(w) = Least(n, raw)
      <4>1. 0 + raw = raw /\ n - 0 = n
        BY <3>2
      <4>2. Satisfied(w) = IF inst.type = "BytesExact"
                             THEN IF 0 + raw >= n THEN n - 0 ELSE 0
                             ELSE IF n <= 0 THEN 0 ELSE Least(n - 0, raw)
        BY <2>5, <3>1 DEF Satisfied
      <4> HIDE DEF n, raw
      <4> QED
        BY <3>2, <4>1, <4>2
    <3> HIDE DEF n, raw
    <3> QED
      BY <3>2, <3>3 DEF Least
  <2> QED
    BY <1>2, <2>3, <2>7 DEF CanFilter
<1>6. \A w \in Conn : ~NeedToWrite(w)
  BY <1>2 DEF Done
<1>7. \A w \in Conn : ~HasKnownWritesPending(placeholders[w])
  BY <1>3, <1>6 DEF NeedToWrite
<1>8. \A w \in Conn : EndCheck(w) = "idle"
  BY <1>1, <1>5, <1>7 DEF EndCheck
<1>9. AtEnd = "idle"
  BY <1>8 DEF AtEnd, Conn
<1> QED
  BY <1>2, <1>9 DEF Decide, Leave

\* The steps of the loop close a socket only as a reset makes them.
LEMMA SocketsStay ==
  ASSUME LoopInv, SocketsInv,
         \/ UNCHANGED << sock, disconnected >>
         \/ \E w \in Conn : ShutdownAndClose(w)
  PROVE  SocketsInv'
PROOF
<1>1. CASE UNCHANGED << sock, disconnected >>
  BY <1>1 DEF SocketsInv
<1>2. ASSUME NEW w \in Conn, ShutdownAndClose(w)
      PROVE  SocketsInv'
  BY <1>2 DEF SocketsInv, ShutdownAndClose, LoopInv, LoopTyped
<1> QED
  BY <1>1, <1>2

\* The steps that run no filter.
LEMMA OthersKeepTransfer ==
  ASSUME LoopInv, TransferInv,
         \/ Decide \/ PollReady \/ PollTimeout \/ PollFails
         \/ \E w \in Conn : Sends(w) \/ RecvFails(w) \/ PeerReset(w)
         \/ UNCHANGED vars
  PROVE  TransferInv'
PROOF
<1>1. UNCHANGED << filter, instruction, readSoFar, consumed, uncommittedBytes,
                   unfilteredBytes, bytesReadSoFar, readAZero >>
  BY DEF Decide, PollReady, PollTimeout, PollFails, LoopUnchanged, Sends, SendFront,
     SendReset, SendShort, SendBlocks, SendFails, SendUnchanged, RecvFails, PeerReset, vars,
     loopVars, sockbufVars
<1>2. \/ UNCHANGED << stage, todo >>
      \/ stage \in {"compute", "poll", "work"} /\ stage' # "setup"
  <2>1. CASE Decide
    BY <2>1 DEF Decide, EndCheck, AtEnd, Leave
  <2>2. CASE PollReady \/ PollTimeout \/ PollFails
    BY <2>2 DEF PollReady, PollTimeout, PollFails, Leave
  <2>3. ASSUME NEW w \in Conn, Sends(w)
        PROVE  \/ UNCHANGED << stage, todo >>
               \/ stage \in {"compute", "poll", "work"} /\ stage' # "setup"
    BY <2>3 DEF Sends, SendFront, SendReset, SendShort, SendBlocks, SendFails, AtEvent,
       NextEvent
  <2>4. ASSUME NEW w \in Conn, RecvFails(w)
        PROVE  stage \in {"compute", "poll", "work"} /\ stage' # "setup"
    BY <2>4 DEF RecvFails, AtEvent
  <2>5. ASSUME NEW w \in Conn, PeerReset(w)
        PROVE  UNCHANGED << stage, todo >>
    BY <2>5 DEF PeerReset, loopVars
  <2>6. CASE UNCHANGED vars
    BY <2>6 DEF vars, loopVars
  <2> QED
    BY <2>1, <2>2, <2>3, <2>4, <2>5, <2>6
<1>3. /\ ~HasEnded' => ~HasEnded /\ \A v \in Conn : Waits(v)' <=> Waits(v)
      /\ \A v \in Conn : Waits(v)' => Waits(v)
  BY <1>2 DEF HasEnded, Waits
<1>4. InstructionsInv' /\ BodyInv'
  BY <1>1, <1>3, TransferUntouched DEF TransferInv
<1>5. \/ UNCHANGED << sock, disconnected >>
      \/ \E w \in Conn : ShutdownAndClose(w)
  <2>1. CASE Decide \/ PollReady \/ PollTimeout \/ PollFails \/ UNCHANGED vars
    BY <2>1 DEF Decide, PollReady, PollTimeout, PollFails, LoopUnchanged, sockbufVars, vars
  <2>2. ASSUME NEW w \in Conn,
               \/ SendFront(w) \/ SendShort(w) \/ SendBlocks(w) \/ SendFails(w)
               \/ RecvFails(w) \/ PeerReset(w)
        PROVE  UNCHANGED << sock, disconnected >>
    BY <2>2 DEF SendFront, SendShort, SendBlocks, SendFails, RecvFails, PeerReset, sockbufVars
  <2>3. ASSUME NEW w \in Conn, SendReset(w)
        PROVE  ShutdownAndClose(w)
    BY <2>3 DEF SendReset
  <2> QED
    BY <2>1, <2>2, <2>3 DEF Sends
<1>6. SocketsInv'
  BY <1>5, SocketsStay DEF TransferInv
<1>7. WhyAsserted'
  <2>1. CASE Decide
    <3>1. stage' = "asserted" => \E w \in Conn : disconnected[w]
      BY <2>1, DecideAsserts DEF TransferInv
    <3>2. UNCHANGED disconnected
      BY <2>1 DEF Decide, sockbufVars
    <3> QED
      BY <3>1, <3>2 DEF WhyAsserted
  <2>2. CASE PollReady \/ PollTimeout \/ PollFails
    <3>1. stage' # "asserted"
      BY <2>2 DEF PollReady, PollTimeout, PollFails, Leave
    <3> QED
      BY <3>1 DEF WhyAsserted
  <2>3. ASSUME NEW w \in Conn,
               Sends(w) \/ RecvFails(w)
        PROVE  WhyAsserted'
    <3>1. stage' # "asserted"
      BY <2>3 DEF Sends, SendFront, SendReset, SendShort, SendBlocks, SendFails, RecvFails,
         AtEvent, NextEvent
    <3> QED
      BY <3>1 DEF WhyAsserted
  <2>4. ASSUME (\E w \in Conn : PeerReset(w)) \/ UNCHANGED vars, stage' = "asserted"
        PROVE  WhyAsserted'
    <3>1. UNCHANGED << stage, disconnected >>
      BY <2>4 DEF PeerReset, vars, loopVars, sockbufVars
    <3> QED
      BY <1>1, <2>4, <3>1, StillAsserted DEF TransferInv
  <2>5. stage' # "asserted" => WhyAsserted'
    BY DEF WhyAsserted
  <2> QED
    BY <2>1, <2>2, <2>3, <2>4, <2>5
<1> QED
  BY <1>4, <1>6, <1>7 DEF TransferInv

\* A recv that brings nothing.
LEMMA NothingComes ==
  ASSUME LoopInv, NEW w \in Conn, UNCHANGED bytesReadSoFar
  PROVE  Brings(w, << >>, unfilteredBytes[w])
PROOF
<1>1. << >> \in Seq(Alphabet) /\ unfilteredBytes[w] \in Seq(Alphabet)
      /\ \A v \in Conn : bytesReadSoFar[v] \in Seq(Alphabet)
  BY EmptySeq DEF LoopInv, StreamInv, Typed
<1>2. /\ unfilteredBytes[w] \o << >> = unfilteredBytes[w]
      /\ \A v \in Conn : bytesReadSoFar[v] \o << >> = bytesReadSoFar[v]
  BY <1>1, ConcatEmptySeq
<1> QED
  BY <1>1, <1>2 DEF Brings

\* A run in the loop: its filter goes on, or the loop ends.
RunsInLoop(w, stream, taken, disc, ran) ==
  /\ ~HasEnded /\ ~Waits(w) /\ instruction[w].type # "QuitFilter"
  /\ stream \in Seq(Alphabet) /\ uncommittedBytes[w] = << >>
  /\ Runs(w, filter[w], stream, taken, disc, nextTicket, ran)
  /\ Helped(w, stream, taken, << >>, ran)
  /\ Leaves(w, disc, ran)

\* A run on what an earlier recv brought.
LEMMA BufferedRuns ==
  ASSUME LoopInv, InstructionsInv, NEW w \in Conn, FilterBuffered(w)
  PROVE  \E ran : RunsInLoop(w, unfilteredBytes[w], Satisfied(w), FALSE, ran)
PROOF
<1> DEFINE stream == unfilteredBytes[w]
           taken == Satisfied(w)
           ticket == nextTicket + Len(<< >>)
<1>1. stage = "compute" /\ CanFilter(w)
  BY DEF FilterBuffered
<1>2. PICK ran \in {RunWrapper(filter[w], uncommittedBytes[w] \o SubSeq(stream, 1, taken),
                               readSoFar[w] + taken, FALSE, ticket)} :
        /\ Helped(w, stream, taken, << >>, ran)
        /\ ran.ended = "ok" => UNCHANGED << stage, todo >>
        /\ ran.ended # "ok" => stage' = ran.ended /\ todo' = << >>
  BY DEF FilterBuffered, FilterHelper, Helped
<1>3. /\ ~HasEnded /\ IsFilter(filter[w]) /\ stream \in Seq(Alphabet)
      /\ \A v \in Conn : ~Waits(v)
      /\ uncommittedBytes[w] = << >>
  BY <1>1 DEF LoopInv, StreamInv, Typed, HasEnded, Waits, NothingUncommitted
<1>4. /\ taken \in 0..Len(stream)
      /\ filter[w].class \in {"Passthru", "Data"} /\ IsKnown(filter[w].totalSize) =>
           readSoFar[w] + taken <= filter[w].totalSize
  BY <1>1, SatisfiedIsThere
<1>5. /\ taken > 0 /\ instruction[w].type # "QuitFilter" /\ ~readAZero[w]
      /\ instruction[w].type = "ThruDelimiter" => taken = ThroughDelimiter(stream)
  BY <1>1 DEF CanFilter, Reading, Satisfied
<1>6. instruction[w].type = "BytesExact" => taken = instruction[w].count
  <2>1. SUFFICES ASSUME instruction[w].type = "BytesExact"
                 PROVE  taken = instruction[w].count
    OBVIOUS
  <2> DEFINE n == instruction[w].count
             raw == Len(unfilteredBytes[w])
  <2>2. n \in Nat
    BY DEF LoopInv, StreamInv, Typed, InstructionSet
  <2>3. Len(uncommittedBytes[w]) = 0
    BY <1>3, EmptySeq
  <2>4. taken = IF 0 + raw >= n THEN n - 0 ELSE 0
    BY <2>1, <2>3 DEF Satisfied
  <2> HIDE DEF n, raw, taken
  <2>5. taken = n
    BY <1>5, <2>2, <2>4
  <2> QED
    BY <2>5 DEF n
<1>7. filter[w].class # "Dead"
  BY <1>3, <1>5 DEF InstructionsInv, WaitsFor
<1>0. ticket = nextTicket
  BY EmptySeq DEF LoopInv, StreamInv, Typed
<1> HIDE DEF ticket, taken, stream
<1>8. ran = RunWrapper(filter[w], SubSeq(stream, 1, taken), readSoFar[w] + taken, FALSE, nextTicket)
  <2>1. SubSeq(stream, 1, taken) \in Seq(Alphabet)
    BY <1>3, <1>4, Split
  <2>2. << >> \o SubSeq(stream, 1, taken) = SubSeq(stream, 1, taken)
    BY <2>1, ConcatEmptySeq
  <2> QED
    BY <1>0, <1>2, <1>3, <2>2
<1>9. Runs(w, filter[w], stream, taken, FALSE, nextTicket, ran)
  BY <1>3, <1>4, <1>5, <1>6, <1>7, <1>8 DEF Runs
<1>10. IsRun(ran, filter[w].class, taken)
  BY <1>9, GivenIs
<1>11. Leaves(w, FALSE, ran)
  <2>1. UNCHANGED readAZero
    BY DEF FilterBuffered
  <2>2. \A v \in Conn : ~Waits(v)'
    BY <1>1, <1>2, <1>10 DEF Waits, IsRun
  <2>3. ran.ended = "ok" => ~HasEnded'
    BY <1>1, <1>2 DEF HasEnded
  <2> QED
    BY <1>2, <1>3, <1>5, <2>1, <2>2, <2>3 DEF Leaves
<1>12. RunsInLoop(w, stream, taken, FALSE, ran)
  BY <1>2, <1>3, <1>5, <1>9, <1>11 DEF RunsInLoop
<1> QED
  BY <1>12 DEF stream, taken

\* A run on what is buffered.
LEMMA FilterBufferedKeepsTransfer ==
  ASSUME LoopInv, TransferInv, NEW w \in Conn, FilterBuffered(w)
  PROVE  TransferInv'
PROOF
<1> DEFINE stream == unfilteredBytes[w]
           taken == Satisfied(w)
<1>1. PICK ran : RunsInLoop(w, stream, taken, FALSE, ran)
  BY BufferedRuns DEF TransferInv
<1>2. UNCHANGED << sock, disconnected, bytesReadSoFar, readAZero >>
  BY DEF FilterBuffered
<1> HIDE DEF taken, stream
<1>3. /\ ~HasEnded /\ stream \in Seq(Alphabet)
      /\ Runs(w, filter[w], stream, taken, FALSE, nextTicket, ran)
      /\ Helped(w, stream, taken, << >>, ran) /\ Leaves(w, FALSE, ran)
  BY <1>1 DEF RunsInLoop
<1>4. Brings(w, << >>, stream)
  BY <1>2, NothingComes DEF stream
<1>5. InstructionsInv'
  BY <1>3, InstructionsBehindRun DEF TransferInv
<1>6. BodyInv' /\ WhyAsserted'
  BY <1>3, <1>4, BodyBehindRun DEF TransferInv
<1>7. SocketsInv'
  BY <1>2, SocketsStay DEF TransferInv
<1> QED
  BY <1>5, <1>6, <1>7 DEF TransferInv

\* A run behind a recv.
LEMMA ReceivedRuns ==
  ASSUME LoopInv, InstructionsInv, NEW w \in Conn, AtEvent("recv", w),
         NEW stream \in Seq(Alphabet), NEW taken \in 0..Len(stream), NEW disc \in BOOLEAN,
         ~disc => /\ taken > 0
                  /\ instruction[w].type = "ThruDelimiter" => taken = ThroughDelimiter(stream)
                  /\ instruction[w].type = "BytesExact" => taken = instruction[w].count,
         disc => taken = 0,
         filter[w].class \in {"Passthru", "Data"} /\ IsKnown(filter[w].totalSize) =>
           readSoFar[w] + taken <= filter[w].totalSize,
         FilterHelper(w, filter[w], stream, taken, disc, << >>, NextEvent),
         \/ readAZero' = readAZero
         \/ disc /\ readAZero' = [readAZero EXCEPT ![w] = TRUE]
  PROVE  \E ran : RunsInLoop(w, stream, taken, disc, ran)
PROOF
<1> DEFINE ticket == nextTicket + Len(<< >>)
<1>1. PICK ran :
        /\ ran = RunWrapper(filter[w], uncommittedBytes[w] \o SubSeq(stream, 1, taken),
                            readSoFar[w] + taken, disc, ticket)
        /\ Helped(w, stream, taken, << >>, ran)
        /\ ran.ended = "ok" => NextEvent
        /\ ran.ended # "ok" => stage' = ran.ended /\ todo' = << >>
  BY HelperRuns
<1>2. /\ stage = "work" /\ todo \in Seq(Events)
      /\ 1 \in 1..Len(todo) /\ todo[1] = << "recv", w >>
  BY Handled DEF LoopInv, AtEvent
<1>3. instruction[w].type # "QuitFilter"
  BY <1>2 DEF LoopInv, ReadsAreFresh, WillRead, ReadIsFresh
<1>4. /\ ~HasEnded /\ IsFilter(filter[w]) /\ \A v \in Conn : ~Waits(v)
      /\ uncommittedBytes[w] = << >> /\ instruction[w] \in InstructionSet
      /\ ThroughFits(filter[w], instruction[w], readSoFar[w]) /\ readSoFar[w] \in Nat
  BY <1>2 DEF LoopInv, StreamInv, Typed, LoopTyped, HasEnded, Waits, NothingUncommitted,
     ThroughIsInTime
<1>5. WaitsFor(filter[w], instruction[w]) /\ ~readAZero[w]
  BY <1>3, <1>4 DEF InstructionsInv
<1>0. ticket = nextTicket
  BY EmptySeq DEF LoopInv, StreamInv, Typed
<1> HIDE DEF ticket
<1>6. ran = RunWrapper(filter[w], SubSeq(stream, 1, taken), readSoFar[w] + taken, disc, nextTicket)
  <2>1. SubSeq(stream, 1, taken) \in Seq(Alphabet)
    BY Split
  <2>2. << >> \o SubSeq(stream, 1, taken) = SubSeq(stream, 1, taken)
    BY <2>1, ConcatEmptySeq
  <2> QED
    BY <1>0, <1>1, <1>4, <2>2
<1>7. filter[w].class # "Dead"
  BY <1>3, <1>5 DEF WaitsFor
<1>8. disc /\ filter[w].class \in {"Passthru", "Data"} /\ IsKnown(filter[w].totalSize) =>
        readSoFar[w] + taken < filter[w].totalSize
  <2>1. SUFFICES ASSUME disc, filter[w].class \in {"Passthru", "Data"},
                        IsKnown(filter[w].totalSize)
                 PROVE  readSoFar[w] + taken < filter[w].totalSize
    OBVIOUS
  <2> DEFINE total == filter[w].totalSize
             soFar == readSoFar[w]
             n == instruction[w].count
  <2>2. n = total - soFar /\ n > 0 /\ soFar <= total
    BY <1>3, <1>4, <2>1 DEF ThroughFits
  <2>3. n \in Nat /\ soFar \in Nat /\ taken = 0 /\ total \in Nat
    BY <1>4, <2>1 DEF InstructionSet, IsFilter, IsKnown
  <2> HIDE DEF total, soFar, n
  <2>4. soFar + taken < total
    BY <2>2, <2>3
  <2> QED
    BY <2>4 DEF total, soFar
<1>9. Runs(w, filter[w], stream, taken, disc, nextTicket, ran)
  BY <1>3, <1>4, <1>6, <1>7, <1>8 DEF Runs
<1>10. IsRun(ran, filter[w].class, taken)
  BY <1>9, GivenIs
<1>11. Leaves(w, disc, ran)
  <2>1. ran.ended = "ok" => stage' \in {"compute", "work"}
    BY <1>1 DEF NextEvent
  <2>2. \A v \in Conn : ~Waits(v)'
    BY <1>1, <1>10, <2>1 DEF Waits, IsRun
  <2>3. \A v \in Conn : v # w => readAZero'[v] = readAZero[v]
    BY DEF LoopInv, LoopTyped
  <2>4. readAZero'[w] => disc
    BY <1>5
  <2> QED
    BY <1>1, <1>4, <2>1, <2>2, <2>3, <2>4 DEF Leaves, HasEnded
<1> QED
  BY <1>1, <1>3, <1>4, <1>9, <1>11 DEF RunsInLoop

\* A run in the loop keeps the invariant of a transfer.
LEMMA RecvRunKeepsTransfer ==
  ASSUME LoopInv, TransferInv, NEW w \in Conn,
         NEW stream, NEW taken, NEW disc, NEW ran, RunsInLoop(w, stream, taken, disc, ran),
         NEW buffer, Brings(w, buffer, stream),
         UNCHANGED << sock, disconnected >> \/ ShutdownAndClose(w)
  PROVE  TransferInv'
PROOF
<1>1. /\ ~HasEnded
      /\ Runs(w, filter[w], stream, taken, disc, nextTicket, ran)
      /\ Helped(w, stream, taken, << >>, ran) /\ Leaves(w, disc, ran)
  BY DEF RunsInLoop
<1>2. InstructionsInv'
  BY <1>1, InstructionsBehindRun DEF TransferInv
<1>3. BodyInv' /\ WhyAsserted'
  BY <1>1, BodyBehindRun DEF TransferInv
<1>4. SocketsInv'
  BY SocketsStay DEF TransferInv
<1> QED
  BY <1>2, <1>3, <1>4 DEF TransferInv

\* A recv that tells of the disconnection.
LEMMA DisconnectionRuns ==
  ASSUME LoopInv, InstructionsInv, NEW w \in Conn, RecvZero(w) \/ RecvReset(w)
  PROVE  \E ran : RunsInLoop(w, unfilteredBytes[w], 0, TRUE, ran)
PROOF
<1> DEFINE stream == unfilteredBytes[w]
<1>1. /\ AtEvent("recv", w)
      /\ FilterHelper(w, filter[w], stream, 0, TRUE, << >>, NextEvent)
  BY DEF RecvZero, RecvReset
<1>2. stream \in Seq(Alphabet) /\ 0 \in 0..Len(stream)
  BY LenProperties DEF LoopInv, StreamInv, Typed
<1>3. \/ readAZero' = readAZero
      \/ readAZero' = [readAZero EXCEPT ![w] = TRUE]
  BY DEF RecvZero, RecvReset
<1>4. filter[w].class \in {"Passthru", "Data"} /\ IsKnown(filter[w].totalSize) =>
        readSoFar[w] + 0 <= filter[w].totalSize
  BY DEF LoopInv, StreamInv, ThroughIsInTime, LoopTyped
<1> HIDE DEF stream
<1>5. \E ran : RunsInLoop(w, stream, 0, TRUE, ran)
  BY <1>1, <1>2, <1>3, <1>4, ReceivedRuns
<1> QED
  BY <1>5 DEF stream

\* A disconnection keeps it.
LEMMA DisconnectionKeepsTransfer ==
  ASSUME LoopInv, TransferInv, NEW w \in Conn, RecvZero(w) \/ RecvReset(w)
  PROVE  TransferInv'
PROOF
<1>1. PICK ran : RunsInLoop(w, unfilteredBytes[w], 0, TRUE, ran)
  BY DisconnectionRuns DEF TransferInv
<1>2. /\ UNCHANGED bytesReadSoFar
      /\ UNCHANGED << sock, disconnected >> \/ ShutdownAndClose(w)
  BY DEF RecvZero, RecvReset
<1>3. Brings(w, << >>, unfilteredBytes[w])
  BY <1>2, NothingComes
<1> QED
  BY <1>1, <1>2, <1>3, RecvRunKeepsTransfer

\* A recv that brings bytes: they are enough for a run, or are kept.
DataComes(w, buffer, stream) ==
  /\ Brings(w, buffer, stream)
  /\ \/ \E taken, ran : RunsInLoop(w, stream, taken, FALSE, ran)
     \/ /\ unfilteredBytes' = [unfilteredBytes EXCEPT ![w] = stream]
        /\ NextEvent
        /\ UNCHANGED << uncommittedBytes, placeholders, filter, instruction, readSoFar,
                        held, nextTicket, consumed >>

\* A recv brings bytes so.
LEMMA RecvBrings ==
  ASSUME LoopInv, InstructionsInv, NEW w \in Conn, RecvData(w)
  PROVE  \E buffer, stream : DataComes(w, buffer, stream)
PROOF
<1> DEFINE buffer(n) == SubSeq(toCome[w], 1, n)
           stream(n) == WithUnfiltered(w, buffer(n))
<1>1. PICK n \in 1..Least(MaxRecv, Len(toCome[w])) :
        /\ bytesReadSoFar' = [bytesReadSoFar EXCEPT ![w] = @ \o buffer(n)]
        /\ IF Received(w, stream(n), n) > 0
             THEN FilterHelper(w, filter[w], stream(n), Received(w, stream(n), n),
                               FALSE, << >>, NextEvent)
             ELSE /\ unfilteredBytes' = [unfilteredBytes EXCEPT ![w] = stream(n)]
                  /\ NextEvent
                  /\ UNCHANGED << uncommittedBytes, placeholders, filter, instruction, readSoFar,
                                  held, nextTicket, consumed >>
  BY DEF RecvData
<1>2. AtEvent("recv", w) /\ UNCHANGED << sock, disconnected, readAZero >>
  BY DEF RecvData
<1> DEFINE buf == buffer(n)
           str == stream(n)
<1>3. toCome[w] \in Seq(Alphabet) /\ unfilteredBytes[w] \in Seq(Alphabet)
      /\ bytesReadSoFar \in [Conn -> Seq(Alphabet)]
  BY DEF LoopInv, StreamInv, Typed
<1>4. n \in 0..Len(toCome[w]) /\ n \in Nat
  <2>1. Len(toCome[w]) \in Nat /\ MaxRecv \in Nat
    BY <1>3, ParasockAssumption, LenProperties
  <2> QED
    BY <2>1 DEF Least
<1>5. buf \in Seq(Alphabet) /\ Len(buf) = n
  BY <1>3, <1>4, Split
<1>6. str = unfilteredBytes[w] \o buf
  BY DEF WithUnfiltered
<1>7. bytesReadSoFar' = [bytesReadSoFar EXCEPT ![w] = @ \o buf]
  BY <1>1
<1> HIDE DEF buf, str
<1>8. str \in Seq(Alphabet) /\ Len(str) = Len(unfilteredBytes[w]) + n
      /\ Len(unfilteredBytes[w]) \in Nat
  BY <1>3, <1>5, <1>6, ConcatProperties, LenProperties
<1>9. Brings(w, buf, str)
  BY <1>3, <1>5, <1>6, <1>7 DEF Brings
<1>10. CASE Received(w, str, n) > 0
  <2> DEFINE taken == Received(w, str, n)
  <2>1. FilterHelper(w, filter[w], str, taken, FALSE, << >>, NextEvent)
    BY <1>1, <1>10 DEF str
  <2>2. /\ taken \in 0..Len(str)
        /\ filter[w].class \in {"Passthru", "Data"} /\ IsKnown(filter[w].totalSize) =>
             readSoFar[w] + taken <= filter[w].totalSize
    BY <1>2, <1>4, <1>5, <1>6, <1>10, ReceivedIsThere
  <2>3. taken > 0 /\ (instruction[w].type = "ThruDelimiter" => taken = ThroughDelimiter(str))
    BY <1>10 DEF Received
  <2>4. instruction[w].type = "BytesExact" => taken = instruction[w].count
    <3>1. SUFFICES ASSUME instruction[w].type = "BytesExact"
                   PROVE  taken = instruction[w].count
      OBVIOUS
    <3>2. /\ stage = "work" /\ todo \in Seq(Events)
          /\ 1 \in 1..Len(todo) /\ todo[1] = << "recv", w >>
      BY <1>2, Handled DEF LoopInv, AtEvent
    <3>3. needToRead[w] = instruction[w].count - Len(unfilteredBytes[w])
      BY <3>1, <3>2 DEF LoopInv, ReadsAreFresh, WillRead, ReadIsFresh
    <3>4. taken = IF n >= needToRead[w] THEN Len(str) - n + needToRead[w] ELSE 0
      BY <3>1 DEF Received
    <3> DEFINE k == instruction[w].count
               raw == Len(unfilteredBytes[w])
               len == Len(str)
               need == needToRead[w]
    <3>5. k \in Nat /\ raw \in Nat /\ len = raw + n /\ need = k - raw
          /\ taken = IF n >= need THEN len - n + need ELSE 0
      BY <1>8, <3>3, <3>4 DEF LoopInv, StreamInv, Typed, InstructionSet
    <3> HIDE DEF k, raw, len, need, taken
    <3>6. taken = k
      BY <1>4, <2>3, <3>5
    <3> QED
      BY <3>6 DEF k
  <2> HIDE DEF taken
  <2>5. \E ran : RunsInLoop(w, str, taken, FALSE, ran)
    BY <1>2, <1>8, <2>1, <2>2, <2>3, <2>4, ReceivedRuns
  <2>6. DataComes(w, buf, str)
    BY <1>9, <2>5 DEF DataComes
  <2> QED
    BY <2>6
<1>11. CASE ~(Received(w, str, n) > 0)
  <2>1. /\ unfilteredBytes' = [unfilteredBytes EXCEPT ![w] = str]
        /\ NextEvent
        /\ UNCHANGED << uncommittedBytes, placeholders, filter, instruction, readSoFar,
                        held, nextTicket, consumed >>
    BY <1>1, <1>11 DEF str
  <2>2. DataComes(w, buf, str)
    BY <1>9, <2>1 DEF DataComes
  <2> QED
    BY <2>2
<1> QED
  BY <1>10, <1>11

\* The same, for what it keeps.
LEMMA RecvDataKeepsTransfer ==
  ASSUME LoopInv, TransferInv, NEW w \in Conn, RecvData(w)
  PROVE  TransferInv'
PROOF
<1>1. PICK buf, str : DataComes(w, buf, str)
  BY RecvBrings DEF TransferInv
<1>2. AtEvent("recv", w) /\ UNCHANGED << sock, disconnected, readAZero >>
  BY DEF RecvData
<1>3. /\ unfilteredBytes[w] \in Seq(Alphabet) /\ bytesReadSoFar \in [Conn -> Seq(Alphabet)]
      /\ Brings(w, buf, str)
  BY <1>1 DEF DataComes, LoopInv, StreamInv, Typed
<1>4. buf \in Seq(Alphabet) /\ str = unfilteredBytes[w] \o buf
  BY <1>3 DEF Brings
<1>5. CASE \E taken, ran : RunsInLoop(w, str, taken, FALSE, ran)
  BY <1>2, <1>3, <1>5, RecvRunKeepsTransfer
<1>6. CASE /\ unfilteredBytes' = [unfilteredBytes EXCEPT ![w] = str]
            /\ NextEvent
            /\ UNCHANGED << uncommittedBytes, filter, instruction, readSoFar, consumed >>
  <2>1. /\ ~HasEnded /\ \A v \in Conn : ~Waits(v)' /\ ~Waits(v)
        /\ stage' # "asserted"
    BY <1>2, <1>6 DEF HasEnded, Waits, AtEvent, NextEvent
  <2>2. TakenBefore' = TakenBefore /\ Began' = Began /\ "server" \in Conn
    BY <1>6 DEF TakenBefore, Began, Conn
  <2>3. InstructionsInv'
    BY <1>2, <1>6, <2>1, <2>2 DEF TransferInv, InstructionsInv
  <2>4. ASSUME Began, NEW z \in Seq(Symbols), IsBodyWith(z)'
        PROVE  Expected(filter["server"], instruction["server"],
                        unfilteredBytes'["server"] \o z)
    <3>1. CASE w # "server"
      <4>1. /\ bytesReadSoFar'["server"] = bytesReadSoFar["server"]
            /\ unfilteredBytes'["server"] = unfilteredBytes["server"]
        BY <1>3, <1>6, <2>2, <3>1 DEF Brings, LoopInv, StreamInv, Typed
      <4>2. IsBodyWith(z)
        BY <2>2, <2>4, <4>1 DEF IsBodyWith, SentWith
      <4> QED
        BY <2>1, <2>2, <2>4, <4>1, <4>2 DEF TransferInv, BodyInv
    <3>2. CASE w = "server"
      <4>1. bytesReadSoFar'["server"] = bytesReadSoFar["server"] \o buf
        BY <1>3, <2>2, <3>2 DEF Brings
      <4>2. buf \o z \in Seq(Symbols) /\ IsBodyWith(buf \o z)
        BY <1>4, <2>2, <2>4, <4>1, SentMoves
      <4>3. Expected(filter["server"], instruction["server"],
                     unfilteredBytes["server"] \o (buf \o z))
        BY <2>1, <2>2, <2>4, <4>2 DEF TransferInv, BodyInv
      <4>4. unfilteredBytes'["server"] = str
        BY <1>6, <2>2, <3>2 DEF LoopInv, StreamInv, Typed
      <4>5. str \o z = unfilteredBytes["server"] \o (buf \o z)
        <5> DEFINE raw == unfilteredBytes["server"]
        <5>1. raw \in Seq(Symbols) /\ buf \in Seq(Symbols) /\ str = raw \o buf
          BY <1>3, <1>4, <3>2, SymbolSets
        <5> HIDE DEF raw
        <5>2. raw \o buf \o z = raw \o (buf \o z)
          BY <5>1, Regrouped
        <5> QED
          BY <5>1, <5>2 DEF raw
      <4> QED
        BY <4>3, <4>4, <4>5
    <3> QED
      BY <3>1, <3>2
  <2>5. BodyInv'
    BY <1>6, <2>2, <2>4 DEF TransferInv, BodyInv
  <2>6. WhyAsserted' /\ SocketsInv'
    BY <1>2, <2>1, SocketsStay DEF TransferInv, WhyAsserted
  <2> QED
    BY <2>3, <2>5, <2>6 DEF TransferInv
<1> QED
  BY <1>1, <1>5, <1>6 DEF DataComes

\* A filter begins with what it may wait for.
LEMMA BeginsToWait ==
  ASSUME NEW f, IsFilter(f), NEW ticket,
         f.class = "Chunked" => ChunkFits(f, ThruDelimiter(0))
  PROVE  /\ WaitsFor(Begun(f, ticket), FirstInstruction(f))
         /\ f.class = "Chunked" => /\ FirstInstruction(f).type = "ThruDelimiter"
                                   /\ Begun(f, ticket).chunkState = f.chunkState
PROOF
<1> DEFINE g == Begun(f, ticket)
           inst == FirstInstruction(f)
<1>1. CASE f.class = "Chunked"
  <2>1. inst = ThruDelimiter(0) /\ inst.type = "ThruDelimiter"
    BY <1>1 DEF FirstInstruction, ThruDelimiter, Instruction
  <2>2. g = WithChunk(f, ticket)
    BY <1>1 DEF Begun
  <2>3. /\ DOMAIN g = ChunkMembers /\ g.class = f.class /\ g.totalSize = f.totalSize
        /\ g.chunkState = f.chunkState /\ g.chunkSize = f.chunkSize
        /\ g.chunkString = f.chunkString /\ g.subReadSoFar = f.subReadSoFar
        /\ g.subUnfiltered = f.subUnfiltered /\ g.subInstruction = f.subInstruction
    BY <1>1, <2>2, Members DEF WithChunk, ChunkFits
  <2>4. ChunkFits(g, inst)
    BY <1>1, <2>1, <2>3 DEF ChunkFits, SubWaits
  <2> QED
    BY <1>1, <2>1, <2>3, <2>4 DEF WaitsFor, LineClasses, OneLineClasses
<1>2. CASE f.class # "Chunked"
  <2>1. g = f
    BY <1>2 DEF Begun
  <2>2. f.class = "Dead" => inst.type = "QuitFilter"
    BY DEF FirstInstruction, QuitFilter, Instruction
  <2>3. f.class \in LineClasses => inst.type = "ThruDelimiter"
    BY DEF FirstInstruction, ThruDelimiter, Instruction, LineClasses, OneLineClasses
  <2>4. f.class \in {"Passthru", "Data"} /\ ~IsKnown(f.totalSize) => inst.type = "BytesUnknown"
    <3>1. SUFFICES ASSUME f.class \in {"Passthru", "Data"}, ~IsKnown(f.totalSize)
                   PROVE  inst.type = "BytesUnknown"
      OBVIOUS
    <3>2. inst = SubFirstInstruction(f.totalSize)
      BY <3>1 DEF FirstInstruction
    <3>3. f.totalSize # 0
      BY <3>1 DEF IsKnown, UNKNOWN
    <3> QED
      BY <3>1, <3>2, <3>3 DEF SubFirstInstruction, BytesUnknown, Instruction
  <2> QED
    BY <1>2, <2>1, <2>2, <2>3, <2>4 DEF WaitsFor
<1> QED
  BY <1>1, <1>2

\* Direction w is set up: its filter is told of the disconnection at once, or
\* gives its first instruction.
SetUp(w) ==
  LET f == Begun(filter[w], nextTicket)
      first == FirstOutputs(filter[w])
  IN  /\ w \in Conn /\ Waits(w) /\ ~HasEnded /\ ~readAZero[w]
      /\ readSoFar[w] = 0 /\ uncommittedBytes[w] = << >>
      /\ IsFilter(filter[w]) /\ IsFilter(f) /\ f.class = filter[w].class
      /\ f.class # "Chunked" => f = filter[w]
      /\ \/ \E ran :
              /\ Runs(w, f, unfilteredBytes[w], 0, TRUE, nextTicket + Len(first), ran)
              /\ Helped(w, unfilteredBytes[w], 0, first, ran)
              /\ Leaves(w, TRUE, ran)
         \/ /\ instruction' = [instruction EXCEPT ![w] = FirstInstruction(filter[w])]
            /\ filter' = [filter EXCEPT ![w] = f]
            /\ FilterOutputs(Other(w), first)
            /\ UNCHANGED << readSoFar, unfilteredBytes, uncommittedBytes, consumed >>
            /\ ~Waits(w)' /\ \A v \in Conn : v # w => (Waits(v)' <=> Waits(v))
            /\ stage' \in {"compute", "setup"}

\* The first steps of the loop are of this form.
LEMMA SetupSetsUp ==
  ASSUME LoopInv, InstructionsInv, Setup
  PROVE  \E w : SetUp(w)
PROOF
<1>1. stage = "setup" /\ TodoIsOrdered
  BY DEF Setup, LoopInv
<1>2. PICK w : w = Head(todo)
  OBVIOUS
<1>3. w \in Conn /\ Waits(w)
  <2>1. << "client", "server" >>[1] = "client" /\ << "server" >>[1] = "server"
    OBVIOUS
  <2> QED
    BY <1>1, <1>2, <2>1 DEF TodoIsOrdered, Conn, Waits
<1> DEFINE f == Begun(filter[w], nextTicket)
           inst == FirstInstruction(filter[w])
           first == FirstOutputs(filter[w])
           stream == unfilteredBytes[w]
<1>4. /\ IsFilter(filter[w]) /\ IsFilter(f) /\ f.class = filter[w].class
      /\ f.class # "Chunked" => f = filter[w]
  <2>1. IsFilter(filter[w])
    BY <1>3 DEF LoopInv, StreamInv, Typed
  <2> QED
    BY <2>1, FiltersBegin
<1>5. stream \in Seq(Alphabet) /\ 0 \in 0..Len(stream) /\ ~HasEnded /\ readSoFar[w] = 0
      /\ uncommittedBytes[w] = << >> /\ ~readAZero[w]
  BY <1>1, <1>3, LenProperties DEF LoopInv, StreamInv, Typed, HasEnded, ThroughIsInTime,
     NothingUncommitted, InstructionsInv
<1>6. UNCHANGED readAZero
  BY DEF Setup
<1>7. ASSUME \/ \E ran : /\ Runs(w, f, stream, 0, TRUE, nextTicket + Len(first), ran)
                         /\ Helped(w, stream, 0, first, ran)
                         /\ Leaves(w, TRUE, ran)
             \/ /\ instruction' = [instruction EXCEPT ![w] = inst]
                /\ filter' = [filter EXCEPT ![w] = f]
                /\ FilterOutputs(Other(w), first)
                /\ UNCHANGED << readSoFar, unfilteredBytes, uncommittedBytes, consumed >>
                /\ ~Waits(w)' /\ \A v \in Conn : v # w => (Waits(v)' <=> Waits(v))
                /\ stage' \in {"compute", "setup"}
      PROVE  \E v : SetUp(v)
  <2>1. SetUp(w)
    BY <1>3, <1>4, <1>5, <1>7 DEF SetUp
  <2> QED
    BY <2>1
<1>8. CASE sock[w] = "invalid" /\ inst.type # "QuitFilter"
  <2> DEFINE ticket == nextTicket + Len(first)
             taken == 0
  <2>0. f.class # "Dead"
    BY <1>4, <1>8 DEF FirstInstruction, QuitFilter, Instruction
  <2>1. FilterHelper(w, f, stream, taken, TRUE, first, NextSetup)
    BY <1>2, <1>8 DEF Setup
  <2>2. taken \in 0..Len(stream) /\ readSoFar[w] + taken = 0
    BY <1>5
  <2>3. f.class \in {"Passthru", "Data"} /\ IsKnown(f.totalSize) => 0 < f.totalSize
    <3>1. SUFFICES ASSUME f.class \in {"Passthru", "Data"}, IsKnown(f.totalSize)
                   PROVE  0 < f.totalSize
      OBVIOUS
    <3>2. f = filter[w]
      BY <1>4, <3>1
    <3>3. f.totalSize \in Nat
      BY <1>4, <3>1 DEF IsFilter, IsKnown
    <3>4. inst = SubFirstInstruction(f.totalSize)
      BY <1>4, <3>1, <3>2 DEF FirstInstruction
    <3>5. f.totalSize # 0
      BY <1>8, <3>1, <3>4 DEF SubFirstInstruction, QuitFilter, Instruction
    <3> HIDE DEF f
    <3> QED
      BY <3>3, <3>5
  <2> HIDE DEF f, inst, first, stream, ticket, taken
  <2>4. PICK ran \in {RunWrapper(f, uncommittedBytes[w] \o SubSeq(stream, 1, taken),
                                 readSoFar[w] + taken, TRUE, ticket)} :
          /\ Helped(w, stream, taken, first, ran)
          /\ ran.ended = "ok" => NextSetup
          /\ ran.ended # "ok" => stage' = ran.ended /\ todo' = << >>
    BY <2>1 DEF FilterHelper, Helped, ticket
  <2>5. ran = RunWrapper(f, SubSeq(stream, 1, taken), readSoFar[w] + taken, TRUE, ticket)
    <3>1. SubSeq(stream, 1, taken) \in Seq(Alphabet)
      BY <1>5, <2>2, Split
    <3>2. << >> \o SubSeq(stream, 1, taken) = SubSeq(stream, 1, taken)
      BY <3>1, ConcatEmptySeq
    <3> QED
      BY <1>5, <2>4, <3>2
  <2>6. Runs(w, f, stream, taken, TRUE, ticket, ran)
    <3>1. f.class \in {"Passthru", "Data"} /\ IsKnown(f.totalSize) =>
            /\ readSoFar[w] + taken <= f.totalSize
            /\ readSoFar[w] + taken < f.totalSize
      <4>1. f.totalSize \in Nat \/ ~(f.class \in {"Passthru", "Data"} /\ IsKnown(f.totalSize))
        BY <1>4 DEF IsFilter, IsKnown
      <4> QED
        BY <2>2, <2>3, <4>1
    <3> QED
      BY <1>3, <1>4, <1>5, <2>0, <2>2, <2>5, <3>1 DEF Runs
  <2>7. IsRun(ran, f.class, taken)
    BY <2>6, GivenIs
  <2>8. Leaves(w, TRUE, ran)
    <3>1. CASE ran.ended = "ok"
      <4>1. /\ \A v \in Conn : Waits(v)' => v # w /\ Waits(v)
            /\ \A v \in Conn : v # w => (Waits(v)' <=> Waits(v))
        BY <1>1, <1>2, <2>4, <3>1, NextSetupTurns
      <4>2. stage' \in {"compute", "setup"}
        BY <2>4, <3>1 DEF NextSetup
      <4> QED
        BY <1>6, <3>1, <4>1, <4>2 DEF Leaves, HasEnded
    <3>2. CASE ran.ended # "ok"
      <4>1. stage' = ran.ended /\ ran.ended \in {"thrown", "asserted", "looping"}
        BY <2>4, <2>7, <3>2 DEF IsRun
      <4> QED
        BY <1>6, <3>2, <4>1 DEF Leaves, HasEnded, Waits
    <3> QED
      BY <3>1, <3>2
  <2>9. taken = 0 /\ ticket = nextTicket + Len(first)
    BY DEF taken, ticket
  <2> QED
    BY <1>7, <2>4, <2>6, <2>8, <2>9
<1>9. CASE ~(sock[w] = "invalid" /\ inst.type # "QuitFilter")
  <2>1. /\ instruction' = [instruction EXCEPT ![w] = inst]
        /\ filter' = [filter EXCEPT ![w] = f]
        /\ FilterOutputs(Other(w), first)
        /\ NextSetup
        /\ UNCHANGED << readSoFar, unfilteredBytes, uncommittedBytes, consumed >>
    BY <1>2, <1>9 DEF Setup
  <2> HIDE DEF f, inst, first, stream
  <2>2. /\ ~Waits(w)' /\ \A v \in Conn : v # w => (Waits(v)' <=> Waits(v))
    BY <1>1, <1>2, <2>1, NextSetupTurns
  <2>3. stage' \in {"compute", "setup"}
    BY <2>1 DEF NextSetup
  <2> QED
    BY <1>7, <2>1, <2>2, <2>3
<1> QED
  BY <1>8, <1>9

\* The loop's first steps: each filter gives its first instruction.
LEMMA SetupKeepsTransfer ==
  ASSUME LoopInv, TransferInv, Setup
  PROVE  TransferInv'
PROOF
<1>1. PICK w : SetUp(w)
  BY SetupSetsUp DEF TransferInv
<1> DEFINE f == Begun(filter[w], nextTicket)
           inst == FirstInstruction(filter[w])
           first == FirstOutputs(filter[w])
           stream == unfilteredBytes[w]
<1>2. /\ w \in Conn /\ Waits(w) /\ ~HasEnded /\ ~readAZero[w]
      /\ readSoFar[w] = 0 /\ uncommittedBytes[w] = << >>
      /\ IsFilter(filter[w]) /\ f.class = filter[w].class
      /\ f.class # "Chunked" => f = filter[w]
  BY <1>1 DEF SetUp
<1>3. UNCHANGED << sock, disconnected, bytesReadSoFar, readAZero >>
  BY DEF Setup
<1>4. SocketsInv'
  BY <1>3, SocketsStay DEF TransferInv
<1>5. ASSUME NEW ran, NEW ticket, Runs(w, f, stream, 0, TRUE, ticket, ran),
             Helped(w, stream, 0, first, ran), Leaves(w, TRUE, ran)
      PROVE  TransferInv'
  <2> HIDE DEF f, first
  <2>1. Brings(w, << >>, stream)
    BY <1>2, <1>3, NothingComes
  <2> HIDE DEF stream
  <2>2. InstructionsInv'
    BY <1>2, <1>5, InstructionsBehindRun DEF TransferInv
  <2>3. BodyInv' /\ WhyAsserted'
    BY <1>2, <1>5, <2>1, BodyBehindRun DEF TransferInv
  <2> QED
    BY <1>4, <2>2, <2>3 DEF TransferInv
<1>6. ASSUME instruction' = [instruction EXCEPT ![w] = inst],
             filter' = [filter EXCEPT ![w] = f],
             UNCHANGED << readSoFar, unfilteredBytes, uncommittedBytes, consumed >>,
             ~Waits(w)', \A v \in Conn : v # w => (Waits(v)' <=> Waits(v)),
             stage' \in {"compute", "setup"}
      PROVE  TransferInv'
  <2>1. "client" \in Conn /\ "server" \in Conn
    BY DEF Conn
  <2>2. filter[w].class = "Chunked" =>
          /\ w = "server" /\ ChunkFits(filter[w], ThruDelimiter(0))
          /\ filter[w].chunkState = "BeginChunk"
    BY <1>2 DEF TransferInv, InstructionsInv, Began, Conn
  <2>3. /\ WaitsFor(f, inst)
        /\ filter[w].class = "Chunked" =>
             inst.type = "ThruDelimiter" /\ f.chunkState = "BeginChunk"
    BY <1>2, <2>2, BeginsToWait
  <2> HIDE DEF f, inst
  <2>4. /\ filter'[w] = f /\ instruction'[w] = inst
        /\ \A v \in Conn : v # w => filter'[v] = filter[v] /\ instruction'[v] = instruction[v]
    BY <1>2, <1>6 DEF LoopInv, StreamInv, Typed
  <2>5. InstructionsInv'
    BY <1>2, <1>3, <1>6, <2>1, <2>3, <2>4 DEF TransferInv, InstructionsInv, Began
  <2>6. TakenBefore' = TakenBefore /\ \A z : IsBodyWith(z)' <=> IsBodyWith(z)
    <3>1. TakenBefore' = TakenBefore
      BY <1>6 DEF TakenBefore
    <3> QED
      BY <1>3, <3>1 DEF IsBodyWith, SentWith
  <2>7. ASSUME ~Waits("server")', Began', NEW z \in Seq(Symbols), IsBodyWith(z)
        PROVE  Expected(filter'["server"], instruction'["server"],
                        unfilteredBytes'["server"] \o z)
    <3>1. CASE w # "server"
      BY <1>2, <1>6, <2>1, <2>4, <2>7, <3>1 DEF TransferInv, BodyInv, Began
    <3>2. CASE w = "server"
      <4>1. f.class = "Chunked" /\ filter[w].class = "Chunked"
        BY <1>2, <2>4, <2>7, <3>2 DEF Began
      <4>2. SentWith(z) = unfilteredBytes["server"] \o z
        BY <1>2, <3>2, SentAtFirst
      <4>3. PICK body \in Bodies : SentWith(z) = Encoded(body)
        BY <2>7 DEF IsBodyWith
      <4>4. body \in BodySet
        BY TransferAssumption DEF BodySet
      <4>5. inst.type = "ThruDelimiter" /\ f.chunkState = "BeginChunk"
        BY <2>3, <4>1
      <4>6. Expected(f, inst, unfilteredBytes["server"] \o z)
        BY <4>2, <4>3, <4>4, <4>5 DEF Expected
      <4> QED
        BY <1>6, <2>4, <3>2, <4>6
    <3> QED
      BY <3>1, <3>2
  <2>8. BodyInv'
    BY <2>6, <2>7 DEF TransferInv, BodyInv
  <2>9. WhyAsserted'
    BY <1>6, <2>1 DEF WhyAsserted
  <2> QED
    BY <1>4, <2>5, <2>8, <2>9 DEF TransferInv
<1> QED
  BY <1>1, <1>5, <1>6 DEF SetUp

\* A new chunked filter fits its first instruction.
LEMMA NewChunksFit ==
  ASSUME NEW f, f = ChunkedFilter(f.totalSize, f.subReadSoFar),
         f.subReadSoFar \in 0..(SizeValues - 1)
  PROVE  ChunkFits(f, ThruDelimiter(0)) /\ f.chunkState = "BeginChunk"
PROOF
<1>1. /\ DOMAIN f = ChunkMembers /\ f.chunkState = "BeginChunk" /\ f.chunkString = << >>
      /\ f.subUnfiltered = << >> /\ f.subInstruction = SubFirstInstruction(f.totalSize)
  <2>1. \A total, garbage :
          /\ DOMAIN ChunkedFilter(total, garbage) = ChunkMembers
          /\ ChunkedFilter(total, garbage).chunkState = "BeginChunk"
          /\ ChunkedFilter(total, garbage).chunkString = << >>
          /\ ChunkedFilter(total, garbage).subUnfiltered = << >>
          /\ ChunkedFilter(total, garbage).subInstruction = SubFirstInstruction(total)
    BY Members DEF ChunkedFilter
  <2> QED
    BY <2>1
<1>2. << >> \in Seq(Alphabet)
  BY EmptySeq
<1>3. f.subReadSoFar \in Nat
  BY DEF SizeValues
<1>4. ~IsKnown(f.totalSize) => f.subInstruction.type = "BytesUnknown"
  <2>1. ~IsKnown(f.totalSize) => f.totalSize # 0
    BY DEF IsKnown, UNKNOWN
  <2> QED
    BY <1>1, <2>1 DEF SubFirstInstruction, BytesUnknown, Instruction
<1>5. SubWaits(f)
  BY <1>1, <1>3, <1>4 DEF SubWaits
<1>6. ThruDelimiter(0).type = "ThruDelimiter"
  BY DEF ThruDelimiter, Instruction
<1> QED
  BY <1>1, <1>2, <1>5, <1>6 DEF ChunkFits

\* A call begins.
LEMMA StartKeepsTransfer ==
  ASSUME LoopInv, TransferInv, case \in Cases, NEW filters \in FilterPairs[case],
         StartCall(filters)
  PROVE  TransferInv'
PROOF
<1>1. stage = "idle" /\ stage' = "setup" /\ filter' = filters
      /\ readSoFar' = [w \in Conn |-> 0] /\ readAZero' = [w \in Conn |-> FALSE]
      /\ todo' = << "client", "server" >>
      /\ UNCHANGED << sock, disconnected, consumed, uncommittedBytes >>
  BY DEF StartCall, sockbufVars, Directions
<1>2. "client" \in Conn /\ "server" \in Conn
  BY DEF Conn
<1>3. \A w \in Conn : Waits(w)' /\ ~readAZero'[w]
  BY <1>1 DEF Waits
<1>4. /\ filters["client"].class # "Chunked"
      /\ filters["server"].class = "Chunked" =>
           /\ ChunkFits(filters["server"], ThruDelimiter(0))
           /\ filters["server"].chunkState = "BeginChunk"
  <2>1. PICK f : f = filters["server"]
    OBVIOUS
  <2>2. /\ filters["client"].class # "Chunked"
        /\ f.class = "Chunked" => /\ f = ChunkedFilter(f.totalSize, f.subReadSoFar)
                                  /\ f.subReadSoFar \in 0..(SizeValues - 1)
    BY <2>1, TransferAssumption
  <2>3. f.class = "Chunked" => ChunkFits(f, ThruDelimiter(0)) /\ f.chunkState = "BeginChunk"
    BY <2>2, NewChunksFit
  <2> QED
    BY <2>1, <2>2, <2>3
<1>5. InstructionsInv'
  BY <1>1, <1>2, <1>3, <1>4 DEF InstructionsInv, Began
<1>6. TakenBefore' \in Nat
  <2>1. consumed["server"] \in Seq(Alphabet) /\ uncommittedBytes["server"] \in Seq(Alphabet)
    BY <1>2 DEF LoopInv, StreamInv, Typed
  <2>2. Len(consumed["server"]) \in Nat /\ Len(uncommittedBytes["server"]) \in Nat
    BY <2>1, LenProperties
  <2> DEFINE nc == Len(consumed["server"])
             nu == Len(uncommittedBytes["server"])
  <2>3. TakenBefore' = nc + nu - 0
    BY <1>1, <1>2 DEF TakenBefore
  <2>4. nc \in Nat /\ nu \in Nat
    BY <2>2
  <2> HIDE DEF nc, nu
  <2>5. nc + nu - 0 \in Nat
    BY <2>4
  <2> QED
    BY <2>3, <2>5
<1>7. BodyInv'
  BY <1>2, <1>3, <1>6 DEF BodyInv
<1>8. SocketsInv' /\ WhyAsserted'
  BY <1>1, SocketsStay DEF TransferInv, WhyAsserted
<1> QED
  BY <1>5, <1>7, <1>8 DEF TransferInv

\* A placeholder is fulfilled between two calls.
LEMMA FulfillKeepsTransfer ==
  ASSUME LoopInv, TransferInv, stage = "idle", NEW h, NEW contents, FulfillHeld(h, contents)
  PROVE  TransferInv'
PROOF
<1>1. UNCHANGED << sock, disconnected, unfilteredBytes, uncommittedBytes, bytesReadSoFar,
                   filter, instruction, readSoFar, readAZero, stage, todo, consumed >>
  BY DEF FulfillHeld, loopVars
<1>2. /\ ~HasEnded /\ \A v \in Conn : Waits(v)' <=> Waits(v)
      /\ stage' # "asserted"
  BY <1>1 DEF HasEnded, Waits
<1>3. InstructionsInv' /\ BodyInv'
  BY <1>1, <1>2, TransferUntouched DEF TransferInv
<1>4. SocketsInv' /\ WhyAsserted'
  BY <1>1, <1>2, SocketsStay DEF TransferInv, WhyAsserted
<1> QED
  BY <1>3, <1>4 DEF TransferInv

\* The initial states: two dead filters.
LEMMA TransferInit ==
  ASSUME NEW input, NEW peers, InitWith(input, peers, Conn)
  PROVE  TransferInv
PROOF
<1>1. /\ DeadFilter.class = "Dead" /\ QuitFilter(0).type = "QuitFilter"
  BY DEF DeadFilter, Filter, QuitFilter, Instruction
<1>2. "client" \in Conn /\ "server" \in Conn
  BY DEF Conn
<1>3. /\ sock = [w \in Conn |-> "open"] /\ stage = "idle"
      /\ filter = [w \in Conn |-> DeadFilter]
      /\ instruction = [w \in Conn |-> QuitFilter(0)]
      /\ readSoFar = [w \in Conn |-> 0]
      /\ consumed = [w \in Conn |-> << >>] /\ uncommittedBytes = [w \in Conn |-> << >>]
  BY DEF InitWith
<1>4. SocketsInv /\ WhyAsserted
  BY <1>3 DEF SocketsInv, WhyAsserted
<1>5. InstructionsInv
  <2>1. \A w \in Conn : ~Waits(w) /\ WaitsFor(filter[w], instruction[w])
                        /\ instruction[w].type = "QuitFilter"
    BY <1>1, <1>3 DEF Waits, WaitsFor, LineClasses, OneLineClasses
  <2>2. filter["client"].class # "Chunked"
    BY <1>1, <1>2, <1>3
  <2> QED
    BY <1>2, <2>1, <2>2 DEF InstructionsInv
<1>6. TakenBefore = 0
  <2>1. consumed["server"] = << >> /\ uncommittedBytes["server"] = << >> /\ readSoFar["server"] = 0
    BY <1>2, <1>3
  <2>2. Len(<< >>) = 0
    BY EmptySeq
  <2> QED
    BY <2>1, <2>2 DEF TakenBefore
<1>7. ~Began
  BY <1>1, <1>2, <1>3 DEF Began
<1> QED
  BY <1>4, <1>5, <1>6, <1>7 DEF TransferInv, BodyInv

\* Every step of the loop, and a reset.
LEMMA LoopKeepsTransfer ==
  ASSUME LoopInv, TransferInv, Loop
  PROVE  TransferInv'
PROOF
<1>1. CASE Setup
  BY <1>1, SetupKeepsTransfer
<1>2. ASSUME NEW w \in Conn, FilterBuffered(w)
      PROVE  TransferInv'
  BY <1>2, FilterBufferedKeepsTransfer
<1>3. CASE Decide \/ PollReady \/ PollTimeout \/ PollFails
  BY <1>3, OthersKeepTransfer
<1>4. ASSUME NEW w \in Conn, Sends(w) \/ RecvFails(w)
      PROVE  TransferInv'
  BY <1>4, OthersKeepTransfer
<1>5. ASSUME NEW w \in Conn, RecvData(w)
      PROVE  TransferInv'
  BY <1>5, RecvDataKeepsTransfer
<1>6. ASSUME NEW w \in Conn, RecvZero(w) \/ RecvReset(w)
      PROVE  TransferInv'
  BY <1>6, DisconnectionKeepsTransfer
<1> QED
  BY <1>1, <1>2, <1>3, <1>4, <1>5, <1>6 DEF Loop, Sends

\* When the loop has come to a quit of the chunked filter, the CRLF is left.
LEMMA QuitLeavesCrLf ==
  ASSUME LoopInv, TransferInv, HasQuitChunks, IsBodyWith(toCome["server"])
  PROVE  Taken("server") = SubSeq(Sent, 1, Len(Sent) - 2)
PROOF
<1> DEFINE c == consumed["server"]
           r == readSoFar["server"]
           raw == unfilteredBytes["server"]
           z == toCome["server"]
<1>1. "server" \in Conn
  BY DEF Conn
<1>2. /\ c \in Seq(Symbols) /\ raw \in Seq(Symbols) /\ z \in Seq(Symbols) /\ r \in Nat
      /\ Len(c) \in Nat
  <2>1. /\ c \in Seq(Alphabet) /\ raw \in Seq(Alphabet) /\ z \in Seq(Alphabet) /\ r \in Nat
    BY <1>1 DEF LoopInv, StreamInv, Typed, LoopTyped
  <2> HIDE DEF c, raw, z, r
  <2> QED
    BY <2>1, SymbolSets, LenProperties
<1>3. /\ stage = "idle" /\ instruction["server"].type = "QuitFilter" /\ Began
  BY DEF HasQuitChunks, HasQuit
<1>4. ~HasEnded /\ ~Waits("server") /\ uncommittedBytes["server"] = << >>
  BY <1>1, <1>3 DEF HasEnded, Waits, LoopInv, StreamInv, NothingUncommitted
<1>5. raw \o z = CRLF
  BY <1>2, <1>3, <1>4 DEF TransferInv, BodyInv, Expected
<1>6. bytesReadSoFar["server"] = c \o << >> \o raw
  BY <1>1, <1>4 DEF LoopInv, StreamInv, NoByteLost
<1>7. TakenBefore = Len(c) - r /\ r <= Len(c)
  <2>1. Len(uncommittedBytes["server"]) = 0
    BY <1>4, EmptySeq
  <2>2. TakenBefore = Len(c) + 0 - r
    BY <2>1 DEF TakenBefore
  <2>3. TakenBefore \in Nat
    BY DEF TransferInv, BodyInv
  <2> HIDE DEF c, r
  <2> QED
    BY <1>2, <2>2, <2>3
<1>8. Taken("server") = From(c, Len(c) - r + 1)
  BY DEF Taken
<1>9. Sent = From(bytesReadSoFar["server"] \o z, TakenBefore + 1)
  BY DEF Sent
<1> HIDE DEF c, r, raw, z
<1>10. bytesReadSoFar["server"] \o z = c \o CRLF
  <2>1. bytesReadSoFar["server"] = c \o raw
    BY <1>2, <1>6, ConcatEmptySeq
  <2>2. c \o raw \o z = c \o (raw \o z)
    BY <1>2, Regrouped
  <2> QED
    BY <1>5, <2>1, <2>2
<1> DEFINE b == CRLF
<1>11. b \in Seq(Symbols) /\ Len(b) = 2 /\ Len(b) >= 1
  <2>1. CRLF \in Seq(Symbols) /\ Len(CRLF) = 2
    BY SymbolSets
  <2> QED
    BY <2>1
<1> HIDE DEF b
<1>12. /\ From(c, Len(c) - r + 1) \in Seq(Symbols)
       /\ From(c \o b, Len(c \o b) - (r + Len(b)) + 1) = From(c, Len(c) - r + 1) \o b
       /\ Len(c \o b) = Len(c) + Len(b)
  <2>1. /\ From(c, Len(c) - r + 1) \in Seq(Symbols)
        /\ From(c \o b, Len(c \o b) - (r + Len(b)) + 1) = From(c, Len(c) - r + 1) \o b
    BY <1>2, <1>7, <1>11, EndGrows
  <2>2. Len(c \o b) = Len(c) + Len(b)
    BY <1>2, <1>11, ConcatProperties
  <2> QED
    BY <2>1, <2>2
<1>13. Len(c \o b) - (r + Len(b)) + 1 = TakenBefore + 1
  <2> DEFINE n == Len(c)
             m == Len(c \o b)
  <2>1. n \in Nat /\ m = n + 2 /\ Len(b) = 2 /\ r \in Nat /\ TakenBefore = n - r
    BY <1>2, <1>7, <1>11, <1>12
  <2> HIDE DEF n, m
  <2>2. m - (r + 2) + 1 = (n - r) + 1
    BY <2>1
  <2> QED
    BY <2>1, <2>2 DEF n, m
<1>14. Sent = Taken("server") \o b /\ Taken("server") \in Seq(Symbols)
  BY <1>8, <1>9, <1>10, <1>12, <1>13 DEF b
<1> DEFINE t == Taken("server")
<1> HIDE DEF t
<1>15. Sent = t \o b /\ t \in Seq(Symbols)
  BY <1>14 DEF t
<1>16. Len(t \o b) - 2 = Len(t) /\ Len(t) \in Nat
  <2>1. Len(t \o b) = Len(t) + Len(b)
    BY <1>11, <1>15, ConcatProperties
  <2>2. Len(t) \in Nat
    BY <1>15, LenProperties
  <2> DEFINE n == Len(t)
             m == Len(t \o b)
  <2>3. n \in Nat /\ m = n + 2
    BY <1>11, <2>1, <2>2
  <2> HIDE DEF n, m
  <2>4. m - 2 = n
    BY <2>3
  <2> QED
    BY <2>2, <2>4 DEF n, m
<1>17. SubSeq(t \o b, 1, Len(t)) = t
  BY <1>11, <1>15, <1>16, FirstPart
<1> QED
  BY <1>15, <1>16, <1>17 DEF t

-----------------------------------------------------------------------------
(* The invariant of the loop under a caller.                               *)

\* The inductive invariant of the loop, for the caller it has here.
IInv == TypeOK /\ TodoIsOrdered /\ ReadsAreFresh /\ StreamInv

\* The part of the invariant that is not the loop's.
CallsInv == case \in Cases /\ calls \in 0..MaxCalls[case]

\* Before a step and behind it, the invariant is the loop's and the calls'.
LEMMA IInvIsLoopInv ==
  /\ IInv <=> LoopInv /\ CallsInv
  /\ IInv' <=> LoopInv' /\ CallsInv'
BY DEF IInv, LoopInv, CallsInv, TypeOK, LoopTyped, ConnMap

\* The initial states.
LEMMA InitHolds == Init => IInv /\ LinesInv
PROOF
<1> SUFFICES ASSUME Init PROVE IInv /\ LinesInv
  OBVIOUS
<1>1. PICK input \in Inputs[case], peers \in Peers : InitWith(input, peers, Conn)
  BY DEF Init
<1>2. input \in [Conn -> Seq(Alphabet)] /\ MaxCalls[case] \in Nat /\ case \in Cases
  BY CallerAssumption DEF Init
<1>3. CallsInv
  BY <1>2 DEF Init, CallsInv
<1> QED
  BY <1>1, <1>2, <1>3, LoopInit, IInvIsLoopInv

\* Every step keeps the invariant, and the lines.
LEMMA StepKeeps == IInv /\ LinesInv /\ [Next]_callerVars => IInv' /\ LinesInv'
PROOF
<1> SUFFICES ASSUME IInv, LinesInv, [Next]_callerVars PROVE IInv' /\ LinesInv'
  OBVIOUS
<1>1. LoopInv /\ CallsInv
  BY IInvIsLoopInv
<1>2. CASE Call
  <2>1. PICK filters \in FilterPairs[case] : StartCall(filters)
    BY <1>2 DEF Call
  <2>2. /\ DOMAIN filters = Conn
        /\ \A w \in Conn : IsFilter(filters[w])
        /\ MaxCalls[case] \in Nat
    BY <1>1, <2>1, CallerAssumption DEF CallsInv
  <2>3. CallsInv'
    BY <1>1, <1>2, <2>2 DEF CallsInv, Call
  <2>4. LoopInv' /\ LinesInv'
    BY <1>1, <2>1, <2>2, StartKeeps
  <2> QED
    BY <2>3, <2>4, IInvIsLoopInv
<1>3. CASE Fulfill
  <2>1. PICK h \in held, contents \in Contents : FulfillHeld(h, contents)
    BY <1>3 DEF Fulfill
  <2>2. /\ UNCHANGED << sock, disconnected, unfilteredBytes, uncommittedBytes,
                        bytesReadSoFar, loopVars, nextTicket, consumed, peerVars >>
        /\ held' = held \ {h}
    BY <2>1 DEF FulfillHeld
  <2>3. /\ sock' \in [Conn -> {"open", "invalid"}] /\ disconnected' \in [Conn -> BOOLEAN]
        /\ held' \subseteq Conn \X (0..nextTicket)
        /\ toCome' \in [Conn -> Seq(Alphabet)]
    BY <1>1, <2>2 DEF LoopInv, LoopTyped, StreamInv, Typed, peerVars
  <2>4. LoopInv' /\ LinesInv'
    BY <1>1, <2>2, <2>3, CallerKeeps DEF loopVars, peerVars, HasEnded
  <2>5. CallsInv'
    BY <1>1, <1>3 DEF Fulfill, callVars, CallsInv
  <2> QED
    BY <2>4, <2>5, IInvIsLoopInv
<1>4. CASE LoopStep
  <2>1. LoopInv' /\ LinesInv'
    BY <1>1, <1>4, LoopKeeps DEF LoopStep
  <2> QED
    BY <1>1, <1>4, <2>1, IInvIsLoopInv DEF LoopStep, callVars, CallsInv
<1>5. ASSUME NEW w \in Conn, PeerReset(w), UNCHANGED callVars
      PROVE  IInv' /\ LinesInv'
  BY <1>1, <1>5, ResetKeeps, IInvIsLoopInv DEF callVars, CallsInv
<1>6. CASE UNCHANGED callerVars
  BY <1>1, <1>6, StutterKeeps, IInvIsLoopInv DEF callerVars, callVars, CallsInv
<1> QED
  BY <1>2, <1>3, <1>4, <1>5, <1>6 DEF Next

\* So does it the invariant of a transfer.
LEMMA TransferKept == IInv /\ TransferInv /\ [Next]_callerVars => TransferInv'
PROOF
<1> SUFFICES ASSUME IInv, TransferInv, [Next]_callerVars PROVE TransferInv'
  OBVIOUS
<1>1. LoopInv /\ CallsInv
  BY IInvIsLoopInv
<1>2. CASE Call
  <2>1. PICK filters \in FilterPairs[case] : StartCall(filters)
    BY <1>2 DEF Call
  <2> QED
    BY <1>1, <2>1, StartKeepsTransfer DEF CallsInv
<1>3. CASE Fulfill
  <2>1. PICK h \in held, contents \in Contents : FulfillHeld(h, contents)
    BY <1>3 DEF Fulfill
  <2>2. stage = "idle"
    BY <1>3 DEF Fulfill
  <2> QED
    BY <1>1, <2>1, <2>2, FulfillKeepsTransfer
<1>4. CASE LoopStep
  BY <1>1, <1>4, LoopKeepsTransfer DEF LoopStep
<1>5. ASSUME NEW w \in Conn, PeerReset(w)
      PROVE  TransferInv'
  BY <1>1, <1>5, OthersKeepTransfer
<1>6. CASE UNCHANGED callerVars
  <2>1. UNCHANGED vars
    BY <1>6 DEF callerVars
  <2> QED
    BY <1>1, <2>1, OthersKeepTransfer
<1> QED
  BY <1>2, <1>3, <1>4, <1>5, <1>6 DEF Next
-----------------------------------------------------------------------------
(* The theorems on calls and transfers.                                    *)

\* The invariant holds in every state of every behavior: Init establishes it and
\* each of the loop's, the caller's and the peers' steps keeps it.
THEOREM Invariance == Spec => [](IInv /\ LinesInv)
PROOF
<1>1. Init => IInv /\ LinesInv
  BY InitHolds
<1>2. (IInv /\ LinesInv) /\ [Next]_callerVars => (IInv /\ LinesInv)'
  BY StepKeeps
<1> QED
  BY <1>1, <1>2, PTL DEF Spec

\* Whatever the peers send and the filters are, the variables of the loop stay in
\* their types (doBidirectionalFilteredProxyCore's locals and the SockBufs).
THEOREM TypeCorrectness == Spec => []TypeOK
PROOF
<1>1. IInv => TypeOK
  BY DEF IInv
<1> QED
  BY <1>1, Invariance, PTL

\* Whatever is received, however recv cuts it, whoever fails: every byte is once and
\* in order with a filter that committed it, or uncommitted, or unfiltered.
THEOREM NoByteIsLost == Spec => []NoByteLost
PROOF
<1>1. IInv => NoByteLost
  BY DEF IInv, StreamInv
<1> QED
  BY <1>1, Invariance, PTL

\* A PassthruFilter of a known size, whatever the size, lets no byte past its size
\* through and quits only at its size.
THEOREM PassthruIsExact == Spec => []PassthruTakesItsSize
PROOF
<1>1. ASSUME IInv
      PROVE  PassthruTakesItsSize
  <2>1. SUFFICES ASSUME NEW w \in Conn, filter[w].class = "Passthru",
                        IsKnown(filter[w].totalSize)
                 PROVE  /\ readSoFar[w] <= filter[w].totalSize
                        /\ HasQuit(w) => readSoFar[w] = filter[w].totalSize
    BY DEF PassthruTakesItsSize
  <2>2. readSoFar[w] <= filter[w].totalSize
    BY <1>1, <2>1 DEF IInv, StreamInv, ThroughIsInTime
  <2>3. ASSUME HasQuit(w)
        PROVE  readSoFar[w] = filter[w].totalSize
    <3>1. ThroughFits(filter[w], instruction[w], readSoFar[w])
      BY <1>1, <2>3 DEF IInv, StreamInv, ThroughIsInTime, HasQuit, HasEnded, Waits
    <3> QED
      BY <2>1, <2>3, <3>1 DEF ThroughFits, HasQuit
  <2> QED
    BY <2>2, <2>3
<1> QED
  BY <1>1, Invariance, PTL

\* However recv cuts up what the peers send, and whatever comes behind it: a filter
\* of a line that quits has taken the blank lines in front of its line and the line
\* (OneLineFilter::runFilter), one of a header what ends with the first blank line
\* (HeaderFilter::runFilter), and a PassthruFilter of known size that size.
THEOREM FiltersAreExact == Spec => []FiltersTakeTheirParts
PROOF
<1>1. Spec => []LinesInv
  BY Invariance, PTL
<1>2. LinesInv => OneLineIsOneLine
  <2>1. SUFFICES ASSUME LinesInv, NEW w \in Conn, HasQuit(w), filter[w].class \in OneLineClasses
                 PROVE  OneLine(Taken(w))
    BY DEF OneLineIsOneLine, OneLine, OneLineClasses
  <2>2. /\ stage = "idle" /\ ~HasEnded /\ ~Waits(w) /\ instruction[w].type = "QuitFilter"
    BY <2>1 DEF HasQuit, HasEnded, Waits
  <2> QED
    BY <2>1, <2>2 DEF LinesInv, LinesFit, LineClasses
<1>3. LinesInv => HeaderEndsAtBlankLine
  <2>1. SUFFICES ASSUME LinesInv, NEW w \in Conn, HasQuit(w), filter[w].class = "Header"
                 PROVE  BlankAt(Taken(w)) = {Len(Taken(w)) - 1}
    BY DEF HeaderEndsAtBlankLine, BlankAt
  <2>2. /\ stage = "idle" /\ ~HasEnded /\ ~Waits(w) /\ instruction[w].type = "QuitFilter"
    BY <2>1 DEF HasQuit, HasEnded, Waits
  <2> QED
    BY <2>1, <2>2 DEF LinesInv, LinesFit, LineClasses
<1>4. LinesInv /\ PassthruTakesItsSize => FiltersTakeTheirParts
  BY <1>2, <1>3 DEF FiltersTakeTheirParts
<1> QED
  BY <1>1, <1>4, PassthruIsExact, PTL

\* A call that returns without a timeout has done its work: both filters have quit,
\* and all that could be written to an open socket is written (LDone, Done).
THEOREM ReturnsAreComplete == Spec => ReturnsWhenDone
PROOF
<1>1. ASSUME IInv, [Next]_callerVars, stage # "idle", stage' = "idle", ~timedOut'
      PROVE  \A w \in Conn :
               /\ instruction'[w].type = "QuitFilter"
               /\ sock'[w] = "open" => ~HasKnownWritesPending(placeholders'[w])
  <2>1. CASE LoopStep
    BY <1>1, <2>1, LoopReturns, IInvIsLoopInv DEF LoopStep
  <2>2. CASE Call
    BY <1>1, <2>2 DEF Call, StartCall
  <2>3. CASE Fulfill
    BY <1>1, <2>3 DEF Fulfill
  <2>4. CASE \E w \in Conn : PeerReset(w) /\ UNCHANGED callVars
    BY <1>1, <2>4 DEF PeerReset, loopVars
  <2>5. CASE UNCHANGED callerVars
    BY <1>1, <2>5 DEF callerVars, vars, loopVars
  <2> QED
    BY <1>1, <2>1, <2>2, <2>3, <2>4, <2>5 DEF Next
<1>2. IInv /\ [Next]_callerVars =>
        [ stage # "idle" /\ stage' = "idle" /\ ~timedOut' =>
            \A w \in Conn :
              /\ instruction'[w].type = "QuitFilter"
              /\ sock'[w] = "open" => ~HasKnownWritesPending(placeholders'[w])
        ]_callerVars
  BY <1>1
<1> QED
  BY <1>2, Invariance, PTL DEF Spec, ReturnsWhenDone

\* The invariant of a transfer holds in every state: each filter waits for what its
\* class may wait for, a chunked filter is where it should be in whichever body the
\* server turns out to send, and only the named causes stop the program.
THEOREM TransferInvariance == Spec => []TransferInv
PROOF
<1>1. Init => TransferInv
  <2> SUFFICES ASSUME Init PROVE TransferInv
    OBVIOUS
  <2>1. PICK input \in Inputs[case], peers \in Peers : InitWith(input, peers, Conn)
    BY DEF Init
  <2> QED
    BY <2>1, TransferInit
<1>2. IInv /\ TransferInv /\ [Next]_callerVars => TransferInv'
  BY TransferKept
<1> QED
  BY <1>1, <1>2, Invariance, PTL DEF Spec

\* A send that was given up midway, a connection that was reset, and a chunked body
\* that came with a length besides or with framing that is wrong make an Assert of
\* the loop or of a filter fail; no cut of the input, no order of calls and
\* contents, no timeout of poll, no interrupt and no failure of a call does.  (What
\* is still to come of an input is one of the continuations the invariant is about.)
THEOREM AssertsHaveCauses == Spec => []FailedAssertsHaveACause
PROOF
<1>1. ASSUME IInv, TransferInv
      PROVE  FailedAssertsHaveACause
  <2>1. toCome["server"] \in Seq(Symbols)
    BY <1>1, IInvIsLoopInv, SymbolSets DEF LoopInv, StreamInv, Typed, Conn
  <2>2. ASSUME \A z \in Seq(Symbols) : ~IsBodyWith(z)
        PROVE  \A body \in Bodies : ~IsTheBody(body)
    <3>1. ~IsBodyWith(toCome["server"])
      BY <2>1, <2>2
    <3>2. SentWith(toCome["server"]) = Sent
      BY DEF SentWith, Sent
    <3> QED
      BY <3>1, <3>2 DEF IsBodyWith, IsTheBody
  <2> QED
    BY <1>1, <2>2 DEF TransferInv, WhyAsserted, FailedAssertsHaveACause, NoAssertFailure
<1> QED
  BY <1>1, Invariance, TransferInvariance, PTL

\* However recv cuts a chunked body of any number of chunks: a filter of it that has
\* quit has taken the input through the line of the last chunk, and the empty line
\* behind that is left to the next reader of the connection.
THEOREM QuitLeavesTheTrailer == Spec => []QuitsAtTheLastChunk
PROOF
<1>1. ASSUME IInv, TransferInv
      PROVE  QuitsAtTheLastChunk
  <2>1. SUFFICES ASSUME NEW body \in Bodies, IsTheBody(body), HasQuitChunks
                 PROVE  Taken("server") = SubSeq(Sent, 1, Len(Sent) - 2)
    BY DEF QuitsAtTheLastChunk
  <2>2. SentWith(toCome["server"]) = Sent
    BY DEF SentWith, Sent
  <2>3. IsBodyWith(toCome["server"])
    BY <2>1, <2>2 DEF IsBodyWith, IsTheBody
  <2> QED
    BY <1>1, <2>1, <2>3, IInvIsLoopInv, QuitLeavesCrLf
<1> QED
  BY <1>1, Invariance, TransferInvariance, PTL
-----------------------------------------------------------------------------
(* The invariant of the output.                                            *)

\* What the program writes: what the peers send, what its callers fill in and
\* begin a stream with, and its own.
CallersTexts ==
  Contents \union
  UNION { { filters[w].sendFirst : w \in { v \in Conn : filters[v].class = "Passthru" } } :
            filters \in UNION { FilterPairs[c] : c \in Cases } }
Bytes ==
  Alphabet \union {"r", "n", "0", "Flat", "worm"} \union { Digits[k] : k \in Nat }
    \union UNION { { s[k] : k \in DOMAIN s } : s \in CallersTexts }

\* What the sub-filter may ask for.
SubInstructionSet ==
  { i \in InstructionSet : i.type \in {"QuitFilter", "BytesMax", "BytesUnknown"} }

\* The members of a chunked filter.
ChunkTyped(f) ==
  /\ DOMAIN f = ChunkMembers
  /\ f.totalSize \in Nat \union {UNKNOWN}
  /\ f.chunkString \in Seq(Bytes) /\ f.subUnfiltered \in Seq(Bytes)
  /\ f.subReadSoFar \in Nat /\ f.subInstruction \in SubInstructionSet
  /\ f.sizePlaceholder \in Nat /\ f.charsWritten \in Nat

FiltersTyped ==
  \A w \in Conn :
    /\ filter[w].class = "Chunked" => ChunkTyped(filter[w])
    /\ Waits(w) /\ filter[w].class = "Passthru" => filter[w].sendFirst \in Seq(Bytes)

\* A placeholder that a caller still has is a hole of its stream; so is that of the
\* chunk that a filter is writing, and no caller has it.
HeldAreHoles == \A h \in held : IsHoleOf(placeholders[h[1]], h[2])
IsWriting(f, inst) == f.class = "Chunked" /\ inst.type # "QuitFilter"
ChunkIsHole ==
  ~HasEnded /\ ~Waits("server") /\ IsWriting(filter["server"], instruction["server"]) =>
    /\ IsHoleOf(placeholders["client"], filter["server"].sizePlaceholder)
    /\ << "client", filter["server"].sizePlaceholder >> \notin held

\* The inductive invariant of the output.
OutputInv ==
  /\ DequesTyped(Bytes, placeholders, nextTicket)
  /\ bytesWrittenSoFar \in [Conn -> Seq(Bytes)]
  /\ FiltersTyped /\ HeldAreHoles /\ ChunkIsHole
-----------------------------------------------------------------------------
(* The strings that filters write.                                         *)

ReplaceTurns == [buf : Seq(Bytes), offset : Nat]

\* One turn of filterBuffer's loop.
LEMMA ReplaceIsTyped ==
  ASSUME NEW turn \in ReplaceTurns
  PROVE  ReplaceFirst(turn) \in ReplaceTurns
PROOF
<1> DEFINE buf == turn.buf
           n == Len(buf)
           found == Matches(buf, turn.offset)
           place == CHOOSE p \in found : \A q \in found : p <= q
<1>1. buf \in Seq(Bytes) /\ n \in Nat /\ turn.offset \in Nat
  BY LenProperties DEF ReplaceTurns
<1>2. CASE found = {}
  BY <1>2 DEF ReplaceFirst
<1>3. CASE found # {}
  <2>1. found \subseteq Nat /\ \A p \in found : p \in 0..(n - 1)
    BY <1>1 DEF Matches
  <2>2. place \in 0..(n - 1)
    <3>1. \E p \in found : \A q \in found : p <= q
      BY <1>3, <2>1, Minimum
    <3> HIDE DEF found
    <3> QED
      BY <2>1, <3>1
  <2> HIDE DEF place
  <2>3. place \in 0..n /\ place + 2 \in 1..(n + 1) /\ place \in Nat
    BY <1>1, <2>2
  <2>4. SubSeq(buf, 1, place) \in Seq(Bytes) /\ SubSeq(buf, place + 2, n) \in Seq(Bytes)
    <3> HIDE DEF buf, n
    <3>1. SubSeq(buf, 1, place) \in Seq(Bytes)
      BY <1>1, <2>3, SubSeqProperties DEF n
    <3>2. SubSeq(buf, place + 2, n) \in Seq(Bytes)
      BY <1>1, <2>3, SubSeqProperties DEF n
    <3> QED
      BY <3>1, <3>2
  <2>5. Replacement \in Seq(Bytes)
    BY DEF Replacement, Bytes
  <2>6. SubSeq(buf, 1, place) \o Replacement \o SubSeq(buf, place + 2, n) \in Seq(Bytes)
    <3> HIDE DEF buf, n
    <3> QED
      BY <2>4, <2>5, ConcatProperties
  <2>7. NextOffset(place) \in Nat
    BY <2>3 DEF NextOffset, Replacement
  <2>8. ReplaceFirst(turn)
          = [buf |-> SubSeq(buf, 1, place) \o Replacement \o SubSeq(buf, place + 2, n),
             offset |-> NextOffset(place)]
    BY <1>3, Zenon DEF ReplaceFirst, place
  <2> HIDE DEF buf, n
  <2> QED
    BY <2>6, <2>7, <2>8 DEF ReplaceTurns
<1> QED
  BY <1>2, <1>3

\* filterBuffer makes a string of a string.
LEMMA FilterBufferIsTyped ==
  ASSUME NEW s \in Seq(Bytes)
  PROVE  FilterBuffer(s) \in Seq(Bytes)
PROOF
<1> DEFINE n == Len(s)
           T == ReplaceTurns
           start == [buf |-> s, offset |-> 0]
           Next1(v) == CHOOSE y \in { ReplaceFirst(u) : u \in {v} } : TRUE
           Goes(h) == h = [k \in 0..n |-> IF k = 0 THEN start ELSE Next1(h[k - 1])]
           step == [x \in T \X (1..n) |-> ReplaceFirst(x[1])]
           t == CHOOSE h : Goes(h)
<1>1. n \in Nat /\ start \in T
  BY LenProperties DEF ReplaceTurns
<1>2. \A v : Next1(v) = ReplaceFirst(v)
  OBVIOUS
<1>3. step \in [T \X (1..n) -> T]
  BY ReplaceIsTyped
<1>4. FilterBuffer(s) = t[n].buf
  BY Zenon DEF FilterBuffer, Once
<1> HIDE DEF Next1, start, T, n
<1>5. PICK r \in [0..n -> T] : GoesOnBy(r, start, step, n)
  <2> HIDE DEF step
  <2> QED
    BY <1>1, <1>3, Recursion
<1>6. Goes(r)
  <2>1. ASSUME NEW k \in 0..n
        PROVE  r[k] = IF k = 0 THEN start ELSE Next1(r[k - 1])
    <3>1. CASE k = 0
      BY <1>5, <3>1 DEF GoesOnBy
    <3>2. CASE k # 0
      <4>1. k \in 1..n /\ k - 1 \in 0..n
        BY <1>1, <3>2
      <4>2. r[k] = step[<< r[k - 1], k >>]
        <5> HIDE DEF step
        <5> QED
          BY <1>5, <4>1 DEF GoesOnBy
      <4>3. r[k - 1] \in T
        BY <4>1
      <4>4. step[<< r[k - 1], k >>] = ReplaceFirst(r[k - 1])
        BY <4>1, <4>3
      <4> HIDE DEF step
      <4> QED
        BY <1>2, <3>2, <4>2, <4>4
    <3> QED
      BY <3>1, <3>2
  <2> DEFINE g == [k \in 0..n |-> IF k = 0 THEN start ELSE Next1(r[k - 1])]
  <2>2. r = g
    BY <2>1
  <2> QED
    BY <2>2
<1>7. Goes(t)
  <2> HIDE DEF Goes
  <2> QED
    BY <1>6
<1> HIDE DEF t, step
<1>8. \A k \in 0..n : t[k] = IF k = 0 THEN start ELSE Next1(t[k - 1])
  BY <1>7
<1> DEFINE P == { k \in Nat : k <= n => t[k] \in T }
<1>9. 0 \in P
  <2>1. 0 \in 0..n
    BY <1>1
  <2> QED
    BY <1>1, <1>8, <2>1
<1>10. ASSUME NEW k \in Nat, k \in P PROVE k + 1 \in P
  <2>1. SUFFICES ASSUME k + 1 <= n PROVE t[k + 1] \in T
    OBVIOUS
  <2>2. k + 1 \in 0..n /\ k + 1 # 0 /\ (k + 1) - 1 = k /\ t[k] \in T
    BY <1>1, <1>10, <2>1
  <2>3. t[k + 1] = ReplaceFirst(t[k])
    BY <1>2, <1>8, <2>2
  <2> QED
    BY <2>2, <2>3, ReplaceIsTyped DEF T
<1>11. t[n] \in T
  <2> HIDE DEF P
  <2>1. Nat \subseteq P
    BY <1>9, <1>10, SetInduction
  <2> QED
    BY <1>1, <2>1 DEF P
<1> QED
  BY <1>4, <1>11 DEF T, ReplaceTurns

SubTurns ==
  [left : Seq(Bytes), readSoFar : Nat, instruction : SubInstructionSet,
   output : Seq(Bytes), goes : {"more", "done", "asserted"}]

\* runSubCore.
LEMMA SubRunIsTyped ==
  ASSUME NEW total \in Nat \union {UNKNOWN}, NEW turn \in SubTurns,
         NEW n \in 0..Len(turn.left), NEW more \in {"more", "done"}
  PROVE  SubRun(total, turn, n, more) \in SubTurns
PROOF
<1> DEFINE left == turn.left
           soFar == (turn.readSoFar + n) % SizeValues
           inst == SubInstruction(total, soFar, n)
           rest == SubSeq(left, n + 1, Len(left))
           out == turn.output \o FilterBuffer(SubSeq(left, 1, n))
<1>1. /\ left \in Seq(Bytes) /\ Len(left) \in Nat /\ n \in Nat /\ n \in 0..Len(left)
      /\ turn.readSoFar \in Nat /\ turn.output \in Seq(Bytes)
  BY LenProperties DEF SubTurns
<1>2. soFar \in Nat
  <2> DEFINE s == turn.readSoFar
  <2>1. s \in Nat
    BY <1>1
  <2> HIDE DEF s
  <2>2. (s + n) % SizeValues \in Nat
    BY <1>1, <2>1 DEF SizeValues
  <2> QED
    BY <2>2 DEF s
<1> HIDE DEF soFar
<1>3. CASE ~SubCoreAccepts(total, soFar)
  BY <1>3 DEF SubRun, SubTurns, soFar
<1>4. CASE SubCoreAccepts(total, soFar)
  <2>1. inst \in InstructionSet
    BY <1>1, <1>2, <1>4, SubInstructionIsTyped
  <2>2. inst.type \in {"QuitFilter", "BytesMax", "BytesUnknown"}
    BY DEF SubInstruction, QuitFilter, BytesMax, BytesUnknown, Instruction
  <2>3. rest \in Seq(Bytes) /\ SubSeq(left, 1, n) \in Seq(Bytes)
    <3>1. left \in Seq(Bytes)
      BY <1>1
    <3> HIDE DEF left
    <3> QED
      BY <1>1, <3>1, Split DEF From
  <2>4. out \in Seq(Bytes)
    <3>1. FilterBuffer(SubSeq(left, 1, n)) \in Seq(Bytes)
      BY <2>3, FilterBufferIsTyped
    <3> QED
      BY <1>1, <3>1, ConcatProperties
  <2>5. SubRun(total, turn, n, more)
          = [left |-> rest, readSoFar |-> soFar, instruction |-> inst,
             output |-> out, goes |-> more]
    BY <1>4 DEF SubRun, soFar
  <2> HIDE DEF inst, rest, out
  <2> QED
    BY <1>2, <2>1, <2>2, <2>3, <2>4, <2>5 DEF SubTurns, SubInstructionSet
<1> QED
  BY <1>3, <1>4

\* One turn of the sub-filter.
LEMMA SubTurnIsTyped ==
  ASSUME NEW total \in Nat \union {UNKNOWN}, NEW turn \in SubTurns
  PROVE  SubTurn(total, turn) \in SubTurns
PROOF
<1> DEFINE inst == turn.instruction
           n == Len(turn.left)
           m == IF n > inst.count THEN inst.count ELSE n
<1>1. /\ n \in Nat /\ inst.count \in Nat
      /\ inst.type \in {"QuitFilter", "BytesMax", "BytesUnknown"}
  BY LenProperties DEF SubTurns, SubInstructionSet, InstructionSet
<1>2. n \in 0..n /\ m \in 0..n
  BY <1>1
<1>3. /\ SubRun(total, turn, n, "done") \in SubTurns
      /\ SubRun(total, turn, m, "more") \in SubTurns
  <2> HIDE DEF m
  <2> QED
    BY <1>2, SubRunIsTyped
<1>4. /\ [turn EXCEPT !.goes = "asserted"] \in SubTurns
      /\ [turn EXCEPT !.goes = "done"] \in SubTurns
  BY DEF SubTurns
<1>5. CASE turn.goes # "more"
  BY <1>5 DEF SubTurn
<1>6. CASE turn.goes = "more"
  <2>1. n = 0 \/ n > 0
    BY <1>1
  <2> QED
    BY <1>1, <1>3, <1>4, <1>6, <2>1 DEF SubTurn
<1> QED
  BY <1>5, <1>6

\* The sub-filter, fed.
LEMMA FedIsTyped ==
  ASSUME NEW f, ChunkTyped(f), NEW data \in Seq(Bytes)
  PROVE  Fed(f, data) \in SubTurns
PROOF
<1> DEFINE n == Len(f.subUnfiltered) + Len(data) + 1
           T == SubTurns
           start == FirstTurn(f, data)
           total == f.totalSize
           Next1(v) == CHOOSE y \in { SubTurn(total, u) : u \in {v} } : TRUE
           Goes(h) == h = [k \in 0..n |-> IF k = 0 THEN start ELSE Next1(h[k - 1])]
           step == [x \in T \X (1..n) |-> SubTurn(total, x[1])]
           t == CHOOSE h : Goes(h)
<1>0. total \in Nat \union {UNKNOWN}
  BY DEF ChunkTyped
<1>1. n \in Nat /\ start \in T
  <2>1. f.subUnfiltered \in Seq(Bytes) /\ f.subReadSoFar \in Nat
        /\ f.subInstruction \in SubInstructionSet
    BY DEF ChunkTyped
  <2>2. Len(f.subUnfiltered) \in Nat /\ Len(data) \in Nat
    BY <2>1, LenProperties
  <2>3. f.subUnfiltered \o data \in Seq(Bytes) /\ << >> \in Seq(Bytes)
    BY <2>1, ConcatProperties, EmptySeq
  <2>4. n \in Nat
    BY <2>2
  <2>5. start \in T
    BY <2>1, <2>3 DEF FirstTurn, SubTurns
  <2> QED
    BY <2>4, <2>5
<1>2. \A v : Next1(v) = SubTurn(total, v)
  OBVIOUS
<1>4. Fed(f, data) = t[n]
  BY Zenon DEF Fed, Once
<1> HIDE DEF start, n, total
<1>3. step \in [T \X (1..n) -> T]
  BY <1>0, SubTurnIsTyped
<1> HIDE DEF Next1, T
<1>5. PICK r \in [0..n -> T] : GoesOnBy(r, start, step, n)
  <2> HIDE DEF step
  <2> QED
    BY <1>1, <1>3, Recursion
<1>6. Goes(r)
  <2>1. ASSUME NEW k \in 0..n
        PROVE  r[k] = IF k = 0 THEN start ELSE Next1(r[k - 1])
    <3>1. CASE k = 0
      BY <1>5, <3>1 DEF GoesOnBy
    <3>2. CASE k # 0
      <4>1. k \in 1..n /\ k - 1 \in 0..n
        BY <1>1, <3>2
      <4>2. r[k] = step[<< r[k - 1], k >>]
        <5> HIDE DEF step
        <5> QED
          BY <1>5, <4>1 DEF GoesOnBy
      <4>3. r[k - 1] \in T
        BY <4>1
      <4>4. step[<< r[k - 1], k >>] = SubTurn(total, r[k - 1])
        BY <4>1, <4>3
      <4> HIDE DEF step
      <4> QED
        BY <1>2, <3>2, <4>2, <4>4
    <3> QED
      BY <3>1, <3>2
  <2> DEFINE g == [k \in 0..n |-> IF k = 0 THEN start ELSE Next1(r[k - 1])]
  <2>2. r = g
    BY <2>1
  <2> QED
    BY <2>2
<1>7. Goes(t)
  <2> HIDE DEF Goes
  <2> QED
    BY <1>6
<1> HIDE DEF t, step
<1>8. \A k \in 0..n : t[k] = IF k = 0 THEN start ELSE Next1(t[k - 1])
  BY <1>7
<1> DEFINE P == { k \in Nat : k <= n => t[k] \in T }
<1>9. 0 \in P
  <2>1. 0 \in 0..n
    BY <1>1
  <2> QED
    BY <1>1, <1>8, <2>1
<1>10. ASSUME NEW k \in Nat, k \in P PROVE k + 1 \in P
  <2>1. SUFFICES ASSUME k + 1 <= n PROVE t[k + 1] \in T
    OBVIOUS
  <2>2. k + 1 \in 0..n /\ k + 1 # 0 /\ (k + 1) - 1 = k /\ t[k] \in T
    BY <1>1, <1>10, <2>1
  <2>3. t[k + 1] = SubTurn(total, t[k])
    BY <1>2, <1>8, <2>2
  <2> QED
    BY <1>0, <2>2, <2>3, SubTurnIsTyped DEF T
<1>11. t[n] \in T
  <2> HIDE DEF P
  <2>1. Nat \subseteq P
    BY <1>9, <1>10, SetInduction
  <2> QED
    BY <1>1, <2>1 DEF P
<1> QED
  BY <1>4, <1>11 DEF T
-----------------------------------------------------------------------------
(* The holes of a written chunk.                                           *)

\* A run fills the hole of the chunk that is being written, or holes that it has
\* reserved itself; the hole of the chunk that is being written then is one.
FillsItsHoles(sp, g, inst, outputs, lo) ==
  /\ outputs \in Seq(OutputOf(Bytes))
  /\ \A j \in 1..Len(outputs) :
       /\ outputs[j].op # "place"
       /\ outputs[j].op = "fill" =>
            /\ outputs[j].id \notin FilledBy(outputs, j - 1)
            /\ outputs[j].id = sp \/ outputs[j].id \in ReservedBy(outputs, lo, j - 1)
  /\ inst.type # "QuitFilter" =>
       LET n == Len(outputs)
       IN  /\ g.sizePlaceholder \notin FilledBy(outputs, n)
           /\ g.sizePlaceholder = sp \/ g.sizePlaceholder \in ReservedBy(outputs, lo, n)

\* The outputs are outputs.
LEMMA OutputsOfChunks ==
  ASSUME NEW s \in Seq(Bytes), NEW id \in Nat
  PROVE  String(s) \in OutputOf(Bytes) /\ Own \in OutputOf(Bytes)
         /\ Place \in OutputOf(Bytes) /\ Fill(id, s) \in OutputOf(Bytes)
PROOF
<1>1. << >> \in Seq(Bytes)
  BY EmptySeq
<1> QED
  BY <1>1 DEF OutputOf, String, Own, Place, Fill

\* A run that outputs nothing fills nothing.
LEMMA NothingIsFilled ==
  ASSUME NEW sp, NEW g, g.sizePlaceholder = sp, NEW inst, NEW lo
  PROVE  FillsItsHoles(sp, g, inst, << >>, lo)
PROOF
<1>1. << >> \in Seq(OutputOf(Bytes)) /\ Len(<< >>) = 0 /\ \A j \in 1..0 : FALSE
  BY EmptySeq
<1>2. FilledBy(<< >>, 0) = {}
  BY <1>1 DEF FilledBy
<1> QED
  BY <1>1, <1>2 DEF FillsItsHoles

\* One more, and two more, behind a sequence t of length n.
OneMore(S, t, n, u, a) ==
  /\ u \in Seq(S) /\ Len(u) = n + 1 /\ \A i \in 1..n : u[i] = t[i]
  /\ u[n + 1] = a
TwoMore(S, t, n, u, a, b) ==
  /\ u \in Seq(S) /\ Len(u) = n + 2 /\ \A i \in 1..n : u[i] = t[i]
  /\ u[n + 1] = a /\ u[n + 2] = b

\* One more.
LEMMA AndOne ==
  ASSUME NEW S, NEW t \in Seq(S), NEW n \in Nat, Len(t) = n, NEW a \in S
  PROVE  OneMore(S, t, n, t \o << a >>, a)
PROOF
<1> DEFINE e == << a >>
           u == t \o e
<1>1. e \in Seq(S) /\ Len(e) = 1 /\ e[1] = a
  OBVIOUS
<1> HIDE DEF e
<1>2. /\ u \in Seq(S) /\ Len(u) = n + 1
      /\ \A i \in 1..(n + 1) : u[i] = IF i <= n THEN t[i] ELSE e[i - n]
  <2>1. /\ u \in Seq(S) /\ Len(u) = Len(t) + Len(e)
        /\ \A i \in 1..(Len(t) + Len(e)) : u[i] = IF i <= Len(t) THEN t[i] ELSE e[i - Len(t)]
    BY <1>1, ConcatProperties
  <2> QED
    BY <1>1, <2>1
<1> HIDE DEF u
<1>3. u[n + 1] = a
  <2>1. n + 1 \in 1..(n + 1) /\ ~(n + 1 <= n) /\ (n + 1) - n = 1
    OBVIOUS
  <2> QED
    BY <1>1, <1>2, <2>1
<1>4. \A i \in 1..n : u[i] = t[i]
  BY <1>2
<1>5. OneMore(S, t, n, u, a)
  BY <1>2, <1>3, <1>4 DEF OneMore
<1> QED
  BY <1>5 DEF u, e

\* Two more.
LEMMA AndTwo ==
  ASSUME NEW S, NEW t \in Seq(S), NEW n \in Nat, Len(t) = n, NEW a \in S, NEW b \in S
  PROVE  TwoMore(S, t, n, t \o << a, b >>, a, b)
PROOF
<1> DEFINE e == << a, b >>
           u == t \o e
<1>1. e \in Seq(S) /\ Len(e) = 2 /\ e[1] = a /\ e[2] = b
  OBVIOUS
<1> HIDE DEF e
<1>2. /\ u \in Seq(S) /\ Len(u) = n + 2
      /\ \A i \in 1..(n + 2) : u[i] = IF i <= n THEN t[i] ELSE e[i - n]
  <2>1. /\ u \in Seq(S) /\ Len(u) = Len(t) + Len(e)
        /\ \A i \in 1..(Len(t) + Len(e)) : u[i] = IF i <= Len(t) THEN t[i] ELSE e[i - Len(t)]
    BY <1>1, ConcatProperties
  <2> HIDE DEF u
  <2> QED
    BY <1>1, <2>1
<1> HIDE DEF u
<1>3. u[n + 1] = a /\ u[n + 2] = b
  <2>1. n + 1 \in 1..(n + 2) /\ ~(n + 1 <= n) /\ (n + 1) - n = 1
    OBVIOUS
  <2>2. n + 2 \in 1..(n + 2) /\ ~(n + 2 <= n) /\ (n + 2) - n = 2
    OBVIOUS
  <2> QED
    BY <1>1, <1>2, <2>1, <2>2
<1>4. \A i \in 1..n : u[i] = t[i]
  BY <1>2
<1>5. TwoMore(S, t, n, u, a, b)
  BY <1>2, <1>3, <1>4 DEF TwoMore
<1> QED
  BY <1>5 DEF u, e

\* The end of the first chunk.
LEMMA FirstEnds ==
  ASSUME NEW sp \in Nat, NEW h \in Seq(Bytes), NEW c \in Seq(Bytes), NEW z \in Seq(Bytes),
         NEW g, NEW inst, inst.type = "QuitFilter", NEW lo
  PROVE  FillsItsHoles(sp, g, inst, << >> \o << Fill(sp, h), String(c) >> \o << String(z) >>, lo)
PROOF
<1> DEFINE S == OutputOf(Bytes)
           f == Fill(sp, h)
           d == String(c)
           e == String(z)
           p == << >> \o << f, d >>
           o == p \o << e >>
<1>1. f \in S /\ d \in S /\ e \in S /\ << >> \in Seq(S) /\ Len(<< >>) = 0 /\ 0 \in Nat
  BY OutputsOfChunks, EmptySeq
<1>2. /\ f.op = "fill" /\ f.id = sp /\ d.op = "string" /\ e.op = "string"
  BY DEF Fill, String
<1> HIDE DEF S, f, d, e
<1>3. p \in Seq(S) /\ Len(p) = 0 + 2 /\ p[0 + 1] = f /\ p[0 + 2] = d
  <2>1. TwoMore(S, << >>, 0, p, f, d)
    BY <1>1, AndTwo
  <2> QED
    BY <2>1 DEF OneMore, TwoMore
<1> HIDE DEF p
<1>4. /\ 0 + 1 = 1 /\ 0 + 2 = 2 /\ 2 \in Nat /\ 2 + 1 = 3
      /\ 1 \in 1..2 /\ 2 \in 1..2
  OBVIOUS
<1>5. o \in Seq(S) /\ Len(o) = 2 + 1 /\ (\A i \in 1..2 : o[i] = p[i]) /\ o[2 + 1] = e
  <2>1. Len(p) = 2
    BY <1>3, <1>4
  <2>2. OneMore(S, p, 2, o, e)
    BY <1>1, <1>3, <1>4, <2>1, AndOne
  <2> QED
    BY <2>2 DEF OneMore, TwoMore
<1> HIDE DEF o
<1>6. Len(o) = 3 /\ o[1] = f /\ o[2] = d /\ o[3] = e
  BY <1>3, <1>4, <1>5
<1>7. FilledBy(o, 1 - 1) = {}
  <2>1. \A i \in 1..(1 - 1) : FALSE
    OBVIOUS
  <2> QED
    BY <2>1 DEF FilledBy
<1>8. \A j \in 1..3 : /\ o[j].op # "place"
                      /\ o[j].op = "fill" => j = 1 /\ o[j].id = sp
  <2>1. \A j \in 1..3 : j = 1 \/ j = 2 \/ j = 3
    OBVIOUS
  <2> QED
    BY <1>2, <1>6, <2>1
<1>9. FillsItsHoles(sp, g, inst, o, lo)
  BY <1>5, <1>6, <1>7, <1>8 DEF FillsItsHoles, S
<1> QED
  BY <1>9 DEF o, p, f, d, e

\* The outputs of a written chunk, and of the beginning of the next one.
ChunkOutputs(o, x, f, d) ==
  /\ o \in Seq(OutputOf(Bytes)) /\ Len(o) = 5
  /\ o[1] = x /\ o[2] = f /\ o[3] = d /\ o[4] = Own /\ o[5] = d

\* Five outputs in a row.
LEMMA OutputsAre ==
  ASSUME NEW x \in OutputOf(Bytes), NEW f \in OutputOf(Bytes), NEW d \in OutputOf(Bytes)
  PROVE  ChunkOutputs(<< x >> \o << f, d >> \o << Own, d >>, x, f, d)
PROOF
<1> DEFINE S == OutputOf(Bytes)
           w == Own
           q == << x >>
           p == q \o << f, d >>
           o == p \o << w, d >>
<1>1. q \in Seq(S) /\ Len(q) = 1 /\ q[1] = x /\ x \in S /\ f \in S /\ d \in S
  OBVIOUS
<1>2. w \in S
  <2>1. << >> \in Seq(Bytes)
    BY EmptySeq
  <2> QED
    BY <2>1, OutputsOfChunks
<1> HIDE DEF S, w, q
<1>3. /\ 1 \in Nat /\ 3 \in Nat /\ 1 + 1 = 2 /\ 1 + 2 = 3 /\ 3 + 1 = 4 /\ 3 + 2 = 5
      /\ 1 \in 1..1 /\ 1 \in 1..3 /\ 2 \in 1..3 /\ 3 \in 1..3
  OBVIOUS
<1>4. /\ p \in Seq(S) /\ Len(p) = 1 + 2 /\ (\A i \in 1..1 : p[i] = q[i])
      /\ p[1 + 1] = f /\ p[1 + 2] = d
  <2>1. TwoMore(S, q, 1, p, f, d)
    BY <1>1, <1>3, AndTwo
  <2> QED
    BY <2>1 DEF OneMore, TwoMore
<1> HIDE DEF p
<1>5. /\ o \in Seq(S) /\ Len(o) = 3 + 2 /\ (\A i \in 1..3 : o[i] = p[i])
      /\ o[3 + 1] = w /\ o[3 + 2] = d
  <2>1. Len(p) = 3
    BY <1>3, <1>4
  <2>2. TwoMore(S, p, 3, o, w, d)
    BY <1>1, <1>2, <1>3, <1>4, <2>1, AndTwo
  <2> QED
    BY <2>2 DEF OneMore, TwoMore
<1> HIDE DEF o
<1>6. /\ o \in Seq(S) /\ Len(o) = 5
      /\ o[1] = x /\ o[2] = f /\ o[3] = d /\ o[4] = w /\ o[5] = d
  BY <1>1, <1>3, <1>4, <1>5
<1>7. ChunkOutputs(o, x, f, d)
  BY <1>6 DEF ChunkOutputs, S, w
<1> QED
  BY <1>7 DEF o, p, q, w

\* A chunk is written, and the next one begun.
LEMMA ChunkIsWritten ==
  ASSUME NEW sp \in Nat, NEW x \in Seq(Bytes), NEW h \in Seq(Bytes), NEW c \in Seq(Bytes),
         NEW lo \in Nat, sp < lo, NEW g, g.sizePlaceholder = lo + 3, NEW inst,
         NEW o, ChunkOutputs(o, String(x), Fill(sp, h), String(c))
  PROVE  FillsItsHoles(sp, g, inst, o, lo)
PROOF
<1>1. /\ o \in Seq(OutputOf(Bytes)) /\ Len(o) = 5
      /\ o[1].op = "string" /\ o[2].op = "fill" /\ o[2].id = sp /\ o[3].op = "string"
      /\ o[4].op = "own" /\ o[5].op = "string"
  BY DEF ChunkOutputs, String, Fill, Own
<1>2. FilledBy(o, 2 - 1) = {}
  <2>1. \A i \in 1..(2 - 1) : i = 1
    OBVIOUS
  <2> QED
    BY <1>1, <2>1 DEF FilledBy
<1>3. \A j \in 1..5 : /\ o[j].op # "place"
                      /\ o[j].op = "fill" => j = 2 /\ o[j].id = sp
  <2>1. \A j \in 1..5 : j = 1 \/ j = 2 \/ j = 3 \/ j = 4 \/ j = 5
    OBVIOUS
  <2> QED
    BY <1>1, <2>1
<1>4. FilledBy(o, 5) \subseteq {sp}
  BY <1>3 DEF FilledBy
<1>5. lo + 3 \in ReservedBy(o, lo, 5) /\ lo + 3 # sp
  <2>1. 4 \in 1..5 /\ lo + 4 - 1 = lo + 3 /\ lo + 3 # sp
    OBVIOUS
  <2>2. lo + 4 - 1 \in ReservedBy(o, lo, 5)
    BY <1>1, <2>1 DEF ReservedBy
  <2> QED
    BY <2>1, <2>2
<1> DEFINE next == lo + 3
<1>6. g.sizePlaceholder = next /\ next \in ReservedBy(o, lo, 5) /\ next \notin FilledBy(o, 5)
  BY <1>4, <1>5
<1> HIDE DEF next
<1> QED
  BY <1>1, <1>2, <1>3, <1>6 DEF FillsItsHoles

\* A chunk is written, and the next one is the last.
LEMMA LastIsWritten ==
  ASSUME NEW sp \in Nat, NEW x \in Seq(Bytes), NEW h \in Seq(Bytes), NEW c \in Seq(Bytes),
         NEW k \in Seq(Bytes), NEW z \in Seq(Bytes),
         NEW lo \in Nat, sp < lo, NEW g, NEW inst, inst.type = "QuitFilter",
         NEW p, ChunkOutputs(p, String(x), Fill(sp, h), String(c)),
         NEW next, next = lo + 3
  PROVE  FillsItsHoles(sp, g, inst, p \o << Fill(next, k), String(c) >> \o << String(z) >>, lo)
PROOF
<1> DEFINE S == OutputOf(Bytes)
           f == Fill(next, k)
           d == String(c)
           e == String(z)
           q == p \o << f, d >>
           o == q \o << e >>
<1>1. next \in Nat /\ f \in S /\ d \in S /\ e \in S
  <2>1. next \in Nat
    OBVIOUS
  <2> QED
    BY <2>1, OutputsOfChunks
<1>2. /\ f.op = "fill" /\ f.id = next /\ d.op = "string" /\ e.op = "string"
  BY DEF Fill, String
<1>3. /\ p \in Seq(S) /\ Len(p) = 5
      /\ p[1].op = "string" /\ p[2].op = "fill" /\ p[2].id = sp /\ p[3].op = "string"
      /\ p[4].op = "own" /\ p[5].op = "string"
  BY DEF ChunkOutputs, String, Fill, Own
<1> HIDE DEF S, f, d, e
<1>4. /\ 5 \in Nat /\ 5 + 1 = 6 /\ 5 + 2 = 7 /\ 7 \in Nat /\ 7 + 1 = 8
      /\ \A i \in 1..5 : i \in 1..7
      /\ 6 \in 1..7 /\ 7 \in 1..7
      /\ 1 \in 1..5 /\ 2 \in 1..5 /\ 3 \in 1..5 /\ 4 \in 1..5 /\ 5 \in 1..5
  OBVIOUS
<1>5. /\ q \in Seq(S) /\ Len(q) = 5 + 2 /\ (\A i \in 1..5 : q[i] = p[i])
      /\ q[5 + 1] = f /\ q[5 + 2] = d
  <2>1. TwoMore(S, p, 5, q, f, d)
    BY <1>1, <1>3, <1>4, AndTwo
  <2> QED
    BY <2>1 DEF OneMore, TwoMore
<1> HIDE DEF q
<1>6. o \in Seq(S) /\ Len(o) = 7 + 1 /\ (\A i \in 1..7 : o[i] = q[i]) /\ o[7 + 1] = e
  <2>1. Len(q) = 7
    BY <1>4, <1>5
  <2>2. OneMore(S, q, 7, o, e)
    BY <1>1, <1>4, <1>5, <2>1, AndOne
  <2> QED
    BY <2>2 DEF OneMore, TwoMore
<1> HIDE DEF o
<1>7. /\ o \in Seq(S) /\ Len(o) = 8
      /\ o[1].op = "string" /\ o[2].op = "fill" /\ o[2].id = sp /\ o[3].op = "string"
      /\ o[4].op = "own" /\ o[5].op = "string"
      /\ o[6].op = "fill" /\ o[6].id = next /\ o[7].op = "string" /\ o[8].op = "string"
  BY <1>2, <1>3, <1>4, <1>5, <1>6
<1>8. FilledBy(o, 2 - 1) = {}
  <2>1. \A i \in 1..(2 - 1) : i = 1
    OBVIOUS
  <2> QED
    BY <1>7, <2>1 DEF FilledBy
<1>9. \A j \in 1..8 : /\ o[j].op # "place"
                      /\ o[j].op = "fill" => \/ j = 2 /\ o[j].id = sp
                                             \/ j = 6 /\ o[j].id = next
  <2>1. \A j \in 1..8 : \/ j = 1 \/ j = 2 \/ j = 3 \/ j = 4
                        \/ j = 5 \/ j = 6 \/ j = 7 \/ j = 8
    OBVIOUS
  <2> QED
    BY <1>7, <2>1
<1>10. FilledBy(o, 6 - 1) \subseteq {sp}
  <2>1. \A i \in 1..(6 - 1) : i \in 1..8 /\ i # 6
    OBVIOUS
  <2> QED
    BY <1>9, <2>1 DEF FilledBy
<1>11. next \in ReservedBy(o, lo, 6 - 1) /\ next # sp
  <2>1. 4 \in 1..(6 - 1) /\ lo + 4 - 1 = next /\ next # sp
    OBVIOUS
  <2>2. lo + 4 - 1 \in ReservedBy(o, lo, 6 - 1)
    BY <1>7, <2>1 DEF ReservedBy
  <2> QED
    BY <2>1, <2>2
<1>12. next \notin FilledBy(o, 6 - 1)
  BY <1>10, <1>11
<1>13. FillsItsHoles(sp, g, inst, o, lo)
  <2>1. ASSUME NEW j \in 1..Len(o)
        PROVE  /\ o[j].op # "place"
               /\ o[j].op = "fill" =>
                    /\ o[j].id \notin FilledBy(o, j - 1)
                    /\ o[j].id = sp \/ o[j].id \in ReservedBy(o, lo, j - 1)
    <3>1. j \in 1..8
      BY <1>7
    <3>2. CASE o[j].op # "fill"
      BY <1>9, <3>1, <3>2
    <3>3. CASE j = 2 /\ o[j].id = sp
      BY <1>7, <1>8, <3>3
    <3>4. CASE j = 6 /\ o[j].id = next
      BY <1>7, <1>11, <1>12, <3>4
    <3> QED
      BY <1>9, <3>1, <3>2, <3>3, <3>4
  <2>2. o \in Seq(OutputOf(Bytes))
    BY <1>6 DEF S
  <2> QED
    BY <2>1, <2>2, Zenon DEF FillsItsHoles
<1> QED
  BY <1>13 DEF o, q, f, d, e

\* What a run of a chunked filter leaves.
ChunkRan(f, ran, ticket) ==
  /\ ChunkTyped(ran.filter)
  /\ FillsItsHoles(f.sizePlaceholder, ran.filter, ran.instruction, ran.outputs, ticket)

\* Strings of its own.
LEMMA OwnStrings ==
  /\ CRLF \in Seq(Bytes) /\ << "0" >> \o CRLF \in Seq(Bytes)
  /\ \A n \in Nat : Hex(n) \in Seq(Bytes)
PROOF
<1>1. "r" \in Bytes /\ "n" \in Bytes /\ "0" \in Bytes /\ \A k \in Nat : Digits[k] \in Bytes
  BY DEF Bytes
<1>2. CRLF \in Seq(Bytes) /\ << "0" >> \in Seq(Bytes)
  BY <1>1 DEF CRLF
<1>3. << "0" >> \o CRLF \in Seq(Bytes)
  BY <1>2, ConcatProperties
<1>4. ASSUME NEW n \in Nat PROVE Hex(n) \in Seq(Bytes)
  <2> DEFINE a == (n \div 16) + 1
             b == (n % 16) + 1
  <2>1. a \in Nat /\ b \in Nat /\ n + 1 \in Nat
    OBVIOUS
  <2> HIDE DEF a, b
  <2>2. << Digits[n + 1] >> \in Seq(Bytes) /\ << Digits[a], Digits[b] >> \in Seq(Bytes)
    <3>1. Digits[n + 1] \in Bytes /\ Digits[a] \in Bytes /\ Digits[b] \in Bytes
      BY <1>1, <2>1
    <3> QED
      BY <3>1
  <2>3. Hex(n) = IF n < 16 THEN << Digits[n + 1] >> ELSE << Digits[a], Digits[b] >>
    BY DEF Hex, a, b
  <2> QED
    BY <2>2, <2>3
<1> QED
  BY <1>2, <1>3, <1>4

\* A run that ends the loop.
LEMMA NothingRan ==
  ASSUME NEW f, NEW g, ChunkTyped(g), NEW how, NEW ticket
  PROVE  ChunkRan(f, Ended(g, how), ticket)
PROOF
<1> DEFINE ran == Ended(g, how)
<1>1. ran.filter = g /\ ran.instruction.type = "QuitFilter" /\ ran.outputs = << >>
  BY DEF Ended, Ran, QuitFilter, Instruction
<1> HIDE DEF ran
<1>2. << >> \in Seq(OutputOf(Bytes)) /\ Len(<< >>) = 0 /\ \A j \in 1..0 : FALSE
  BY EmptySeq
<1>3. FillsItsHoles(f.sizePlaceholder, ran.filter, ran.instruction, ran.outputs, ticket)
  BY <1>1, <1>2 DEF FillsItsHoles
<1> QED
  BY <1>1, <1>3 DEF ChunkRan, ran

\* What a size line comes to, behind the outputs that are there.
SizeLineRan(f, outputs, ran) ==
  /\ ChunkTyped(ran.filter)
  /\ \/ \E how : ran = Ended(f, how)
     \/ /\ ran.instruction.type = "QuitFilter"
        /\ ran.outputs = outputs \o FinishChunk(f) \o << String(<< "0" >> \o CRLF) >>
     \/ ran.filter.sizePlaceholder = f.sizePlaceholder /\ ran.outputs = outputs

\* A size line comes to that.
LEMMA SizeLineIsTyped ==
  ASSUME NEW f, ChunkTyped(f), NEW line, Len(line) \in Nat, NEW outputs
  PROVE  SizeLineRan(f, outputs, RunSizeLine(f, line, outputs))
PROOF
<1> DEFINE size == ScanHex(line)
           ran == RunSizeLine(f, line, outputs)
<1>1. CASE Len(line) < 3 \/ (size = 0 /\ f.subUnfiltered # << >>)
  <2>1. \E how : ran = Ended(f, how)
    <3>1. CASE Len(line) < 3
      BY <3>1 DEF RunSizeLine
    <3>2. CASE ~(Len(line) < 3) /\ size = 0 /\ f.subUnfiltered # << >>
      <4>1. Len(line) >= 3
        BY <3>2
      <4> QED
        BY <3>2, <4>1 DEF RunSizeLine
    <3> QED
      BY <1>1, <3>1, <3>2
  <2> HIDE DEF ran
  <2>2. ran.filter = f
    BY <2>1 DEF Ended, Ran
  <2> QED
    BY <2>1, <2>2 DEF SizeLineRan, ran
<1>2. CASE Len(line) >= 3 /\ size = 0 /\ f.subUnfiltered = << >>
  <2> DEFINE total == f.subReadSoFar
             h == [f EXCEPT !.totalSize = total,
                            !.filteredCharsSent = @ + f.charsWritten,
                            !.contentLengthFiltered = f.filteredCharsSent + f.charsWritten]
             g == InNextState(h)
             inst == QuitFilter(Len(line))
             out == outputs \o FinishChunk(f) \o << String(<< "0" >> \o CRLF) >>
  <2>1. ran = Ran(g, inst, out)
    BY <1>2 DEF RunSizeLine
  <2>2. inst.type = "QuitFilter"
    BY DEF QuitFilter, Instruction
  <2>3. ChunkTyped(g)
    <3>0. total \in Nat
      BY DEF ChunkTyped
    <3>1. /\ DOMAIN h = ChunkMembers /\ h.totalSize = total
          /\ h.chunkString = f.chunkString /\ h.subUnfiltered = f.subUnfiltered
          /\ h.subReadSoFar = f.subReadSoFar /\ h.subInstruction = f.subInstruction
          /\ h.sizePlaceholder = f.sizePlaceholder /\ h.charsWritten = f.charsWritten
      <4> HIDE DEF total
      <4> QED
        BY Members DEF ChunkTyped
    <3> HIDE DEF h, total
    <3>2. /\ DOMAIN g = ChunkMembers /\ g.totalSize = h.totalSize
          /\ g.chunkString = h.chunkString /\ g.subUnfiltered = h.subUnfiltered
          /\ g.subReadSoFar = h.subReadSoFar /\ g.subInstruction = h.subInstruction
          /\ g.sizePlaceholder = h.sizePlaceholder /\ g.charsWritten = h.charsWritten
      BY <3>1, Members DEF InNextState
    <3> HIDE DEF g
    <3> QED
      BY <3>0, <3>1, <3>2 DEF ChunkTyped
  <2> HIDE DEF g, inst
  <2>4. ran.filter = g /\ ran.instruction = inst /\ ran.outputs = out
    <3> HIDE DEF ran, out
    <3> QED
      BY <2>1 DEF Ran
  <2> HIDE DEF ran
  <2> QED
    BY <2>2, <2>3, <2>4 DEF SizeLineRan, ran
<1>3. CASE ~(Len(line) < 3) /\ size # 0
  <2> DEFINE h == [f EXCEPT !.chunkSize = size]
             g == InNextState(h)
             inst == BytesExact(size, Len(line))
  <2>1. ran = Ran(g, inst, outputs)
    BY <1>3 DEF RunSizeLine
  <2>2. ChunkTyped(g) /\ g.sizePlaceholder = f.sizePlaceholder
    <3>1. /\ DOMAIN h = ChunkMembers /\ h.totalSize = f.totalSize
          /\ h.chunkString = f.chunkString /\ h.subUnfiltered = f.subUnfiltered
          /\ h.subReadSoFar = f.subReadSoFar /\ h.subInstruction = f.subInstruction
          /\ h.sizePlaceholder = f.sizePlaceholder /\ h.charsWritten = f.charsWritten
      <4> HIDE DEF size
      <4> QED
        BY Members DEF ChunkTyped
    <3> HIDE DEF h
    <3>2. /\ DOMAIN g = ChunkMembers /\ g.totalSize = h.totalSize
          /\ g.chunkString = h.chunkString /\ g.subUnfiltered = h.subUnfiltered
          /\ g.subReadSoFar = h.subReadSoFar /\ g.subInstruction = h.subInstruction
          /\ g.sizePlaceholder = h.sizePlaceholder /\ g.charsWritten = h.charsWritten
      BY <3>1, Members DEF InNextState
    <3> HIDE DEF g
    <3> QED
      BY <3>1, <3>2 DEF ChunkTyped
  <2> HIDE DEF g, inst
  <2>3. ran.filter = g /\ ran.outputs = outputs
    <3> HIDE DEF ran
    <3> QED
      BY <2>1 DEF Ran
  <2> HIDE DEF ran
  <2> QED
    BY <2>2, <2>3 DEF SizeLineRan, ran
<1> HIDE DEF ran, size
<1> QED
  BY <1>1, <1>2, <1>3 DEF ran

\* The first size line.
LEMMA FirstSizeRan ==
  ASSUME NEW f, ChunkTyped(f), NEW line, Len(line) \in Nat, NEW ticket
  PROVE  ChunkRan(f, RunSizeLine(f, line, << >>), ticket)
PROOF
<1> DEFINE ran == RunSizeLine(f, line, << >>)
           sp == f.sizePlaceholder
<1>1. SizeLineRan(f, << >>, ran)
  BY SizeLineIsTyped
<1>2. sp \in Nat /\ f.charsWritten \in Nat
  BY DEF ChunkTyped
<1> HIDE DEF ran
<1>3. CASE \E how : ran = Ended(f, how)
  BY <1>3, NothingRan DEF ran
<1>4. CASE /\ ran.instruction.type = "QuitFilter"
           /\ ran.outputs = << >> \o FinishChunk(f) \o << String(<< "0" >> \o CRLF) >>
  <2> DEFINE h == Hex(f.charsWritten)
             z == << "0" >> \o CRLF
             c == CRLF
  <2>1. h \in Seq(Bytes) /\ z \in Seq(Bytes) /\ c \in Seq(Bytes)
    BY <1>2, OwnStrings
  <2>2. ran.outputs = << >> \o << Fill(sp, h), String(c) >> \o << String(z) >>
    BY <1>4 DEF FinishChunk
  <2> HIDE DEF h, z, c, sp
  <2>3. FillsItsHoles(sp, ran.filter, ran.instruction,
                      << >> \o << Fill(sp, h), String(c) >> \o << String(z) >>, ticket)
    BY <1>2, <1>4, <2>1, FirstEnds
  <2> QED
    BY <1>1, <2>2, <2>3 DEF ChunkRan, SizeLineRan, sp, ran
<1>5. CASE ran.filter.sizePlaceholder = sp /\ ran.outputs = << >>
  <2>1. FillsItsHoles(sp, ran.filter, ran.instruction, << >>, ticket)
    BY <1>5, NothingIsFilled
  <2> QED
    BY <1>1, <1>5, <2>1 DEF ChunkRan, SizeLineRan, ran
<1> QED
  BY <1>1, <1>3, <1>4, <1>5 DEF SizeLineRan

\* The next size line, behind a chunk that has been collected.
LEMMA NextSizeRan ==
  ASSUME NEW f, ChunkTyped(f), NEW line, Len(line) \in Nat,
         NEW ticket \in Nat, f.sizePlaceholder < ticket
  PROVE  ChunkRan(f, RunNextSize(f, line, ticket), ticket)
PROOF
<1>1. CASE f.chunkString = << >>
  <2>1. RunNextSize(f, line, ticket) = RunSizeLine(f, line, << >>)
    BY <1>1 DEF RunNextSize
  <2> QED
    BY <2>1, FirstSizeRan
<1>2. CASE f.chunkString # << >>
  <2>1. PICK fed : fed = Fed(f, f.chunkString)
    OBVIOUS
  <2>2. fed \in SubTurns
    BY <2>1, FedIsTyped DEF ChunkTyped
  <2> DEFINE g == WithFed(f, fed)
             written == << String(fed.output) >> \o FinishChunk(g)
             h == [g EXCEPT !.filteredCharsSent = @ + g.charsWritten]
             n == ticket + Len(written)
             next == WithChunk(h, n)
             out == written \o NewChunk
             ran == RunNextSize(f, line, ticket)
  <2>3. ran = IF fed.goes = "asserted" THEN Ended(f, "asserted")
              ELSE RunSizeLine(next, line, out)
    BY <1>2, <2>1 DEF RunNextSize, Once
  <2>4. CASE fed.goes = "asserted"
    <3>1. ran = Ended(f, "asserted")
      BY <2>3, <2>4
    <3> HIDE DEF ran
    <3> QED
      BY <3>1, NothingRan DEF ran
  <2>5. CASE fed.goes # "asserted"
    <3> DEFINE sp == f.sizePlaceholder
               x == fed.output
               hex == Hex(g.charsWritten)
               c == CRLF
    <3>1. ran = RunSizeLine(next, line, out)
      BY <2>3, <2>5
    <3>2. /\ fed.left \in Seq(Bytes) /\ fed.readSoFar \in Nat
          /\ fed.instruction \in SubInstructionSet /\ x \in Seq(Bytes)
      BY <2>2 DEF SubTurns
    <3>3. /\ DOMAIN g = ChunkMembers /\ g.totalSize = f.totalSize
          /\ g.chunkString = f.chunkString /\ g.subUnfiltered = fed.left
          /\ g.subReadSoFar = fed.readSoFar /\ g.subInstruction = fed.instruction
          /\ g.sizePlaceholder = sp /\ g.charsWritten = f.charsWritten + Len(x)
      BY Members DEF WithFed, ChunkTyped
    <3>4. sp \in Nat /\ g.charsWritten \in Nat /\ sp < ticket
      <4>1. f.charsWritten \in Nat /\ Len(x) \in Nat /\ sp \in Nat
        BY <3>2, LenProperties DEF ChunkTyped
      <4> QED
        BY <3>3, <4>1
    <3>5. written = << String(x) >> \o << Fill(sp, hex), String(c) >>
      <4> HIDE DEF g
      <4> QED
        BY <3>3 DEF FinishChunk
    <3>6. out = << String(x) >> \o << Fill(sp, hex), String(c) >> \o << Own, String(c) >>
      <4> HIDE DEF written
      <4> QED
        BY <3>5 DEF NewChunk
    <3>7. hex \in Seq(Bytes) /\ c \in Seq(Bytes)
      BY <3>4, OwnStrings
    <3>8. n = ticket + 3
      <4> DEFINE a == String(x)
                 b == Fill(sp, hex)
                 d == String(c)
      <4> HIDE DEF a, b, d
      <4>1. written = << a >> \o << b, d >>
        BY <3>5 DEF a, b, d
      <4>2. << a >> \o << b, d >> = << a, b, d >> /\ Len(<< a, b, d >>) = 3
        BY Tuples
      <4>3. Len(written) = 3
        BY <4>1, <4>2
      <4> QED
        BY <4>3
    <3> HIDE DEF g, n, x, hex, c, out, sp
    <3>9. /\ DOMAIN next = ChunkMembers /\ next.totalSize = f.totalSize
          /\ next.chunkString = f.chunkString /\ next.subUnfiltered = fed.left
          /\ next.subReadSoFar = fed.readSoFar /\ next.subInstruction = fed.instruction
          /\ next.sizePlaceholder = n /\ next.charsWritten = 0
      <4>1. /\ DOMAIN h = ChunkMembers /\ h.totalSize = f.totalSize
            /\ h.chunkString = f.chunkString /\ h.subUnfiltered = fed.left
            /\ h.subReadSoFar = fed.readSoFar /\ h.subInstruction = fed.instruction
        BY <3>3, Members
      <4> HIDE DEF h
      <4> QED
        BY <4>1, Members DEF WithChunk
    <3> HIDE DEF next, ran
    <3>10. n \in Nat
      BY <3>8
    <3>11. ChunkTyped(next)
      BY <3>2, <3>9, <3>10 DEF ChunkTyped
    <3>12. SizeLineRan(next, out, ran)
      BY <3>1, <3>11, SizeLineIsTyped
    <3>13. String(x) \in OutputOf(Bytes) /\ Fill(sp, hex) \in OutputOf(Bytes)
           /\ String(c) \in OutputOf(Bytes)
      BY <3>2, <3>4, <3>7, OutputsOfChunks DEF x
    <3>14. ChunkOutputs(out, String(x), Fill(sp, hex), String(c))
      BY <3>6, <3>13, OutputsAre
    <3>15. x \in Seq(Bytes)
      BY <3>2
    <3>16. CASE \E how : ran = Ended(next, how)
      BY <3>11, <3>16, NothingRan DEF ran
    <3>17. CASE /\ ran.instruction.type = "QuitFilter"
                /\ ran.outputs = out \o FinishChunk(next) \o << String(<< "0" >> \o CRLF) >>
      <4> DEFINE k == Hex(next.charsWritten)
                 z == << "0" >> \o CRLF
      <4>1. k \in Seq(Bytes) /\ z \in Seq(Bytes)
        BY <3>9, OwnStrings
      <4>2. ran.outputs = out \o << Fill(n, k), String(c) >> \o << String(z) >>
        BY <3>9, <3>17 DEF FinishChunk, c
      <4> HIDE DEF k, z
      <4>3. FillsItsHoles(sp, ran.filter, ran.instruction,
                          out \o << Fill(n, k), String(c) >> \o << String(z) >>, ticket)
        BY <3>4, <3>7, <3>8, <3>14, <3>15, <3>17, <4>1, LastIsWritten
      <4> QED
        BY <3>12, <4>2, <4>3 DEF ChunkRan, SizeLineRan, sp, ran
    <3>18. CASE ran.filter.sizePlaceholder = next.sizePlaceholder /\ ran.outputs = out
      <4>1. ran.filter.sizePlaceholder = ticket + 3
        BY <3>8, <3>9, <3>18
      <4>2. FillsItsHoles(sp, ran.filter, ran.instruction, out, ticket)
        BY <3>4, <3>7, <3>14, <3>15, <4>1, ChunkIsWritten
      <4> QED
        BY <3>12, <3>18, <4>2 DEF ChunkRan, SizeLineRan, sp, ran
    <3> QED
      BY <3>12, <3>16, <3>17, <3>18 DEF SizeLineRan
  <2> QED
    BY <2>4, <2>5
<1> QED
  BY <1>1, <1>2

\* The data of a chunk, and the CRLF behind it: nothing is output.
LEMMA ChunkDataRan ==
  ASSUME NEW f, ChunkTyped(f), NEW bytes \in Seq(Bytes), NEW ticket
  PROVE  ChunkRan(f, RunChunkData(f, bytes), ticket)
PROOF
<1> DEFINE all == f.chunkString \o bytes
           h == [f EXCEPT !.chunkString = all]
           g == InNextState(h)
           inst == ThruDelimiter(Len(bytes))
           ran == RunChunkData(f, bytes)
<1>1. ran = Ended(f, "asserted") \/ ran = Ran(g, inst, << >>)
  BY DEF RunChunkData
<1>2. all \in Seq(Bytes)
  BY ConcatProperties DEF ChunkTyped
<1> HIDE DEF all
<1>3. ChunkTyped(g) /\ g.sizePlaceholder = f.sizePlaceholder
  <2>1. /\ DOMAIN h = ChunkMembers /\ h.totalSize = f.totalSize
        /\ h.chunkString = all /\ h.subUnfiltered = f.subUnfiltered
        /\ h.subReadSoFar = f.subReadSoFar /\ h.subInstruction = f.subInstruction
        /\ h.sizePlaceholder = f.sizePlaceholder /\ h.charsWritten = f.charsWritten
    BY Members DEF ChunkTyped
  <2> HIDE DEF h
  <2>2. /\ DOMAIN g = ChunkMembers /\ g.totalSize = h.totalSize
        /\ g.chunkString = h.chunkString /\ g.subUnfiltered = h.subUnfiltered
        /\ g.subReadSoFar = h.subReadSoFar /\ g.subInstruction = h.subInstruction
        /\ g.sizePlaceholder = h.sizePlaceholder /\ g.charsWritten = h.charsWritten
    BY <2>1, Members DEF InNextState
  <2> HIDE DEF g
  <2> QED
    BY <1>2, <2>1, <2>2 DEF ChunkTyped
<1> HIDE DEF g, inst, ran
<1>4. CASE ran = Ended(f, "asserted")
  BY <1>4, NothingRan DEF ran
<1>5. CASE ran = Ran(g, inst, << >>)
  <2>1. ran.filter = g /\ ran.outputs = << >>
    BY <1>5 DEF Ran
  <2>2. FillsItsHoles(f.sizePlaceholder, g, ran.instruction, << >>, ticket)
    BY <1>3, NothingIsFilled
  <2> QED
    BY <1>3, <2>1, <2>2 DEF ChunkRan, ran
<1> QED
  BY <1>1, <1>4, <1>5

\* The CRLF behind the data of a chunk: nothing is output.
LEMMA ChunkCrLfRan ==
  ASSUME NEW f, ChunkTyped(f), NEW bytes, NEW ticket
  PROVE  ChunkRan(f, RunChunkCrLf(f, bytes), ticket)
PROOF
<1> DEFINE g == InNextState(f)
           inst == ThruDelimiter(2)
           ran == RunChunkCrLf(f, bytes)
<1>1. ran = Ended(f, "asserted") \/ ran = Ran(g, inst, << >>)
  BY DEF RunChunkCrLf
<1>2. ChunkTyped(g) /\ g.sizePlaceholder = f.sizePlaceholder
  <2>1. /\ DOMAIN g = ChunkMembers /\ g.totalSize = f.totalSize
        /\ g.chunkString = f.chunkString /\ g.subUnfiltered = f.subUnfiltered
        /\ g.subReadSoFar = f.subReadSoFar /\ g.subInstruction = f.subInstruction
        /\ g.sizePlaceholder = f.sizePlaceholder /\ g.charsWritten = f.charsWritten
    BY Members DEF InNextState, ChunkTyped
  <2> HIDE DEF g
  <2> QED
    BY <2>1 DEF ChunkTyped
<1> HIDE DEF g, inst, ran
<1>3. CASE ran = Ended(f, "asserted")
  BY <1>3, NothingRan DEF ran
<1>4. CASE ran = Ran(g, inst, << >>)
  <2>1. ran.filter = g /\ ran.outputs = << >>
    BY <1>4 DEF Ran
  <2>2. FillsItsHoles(f.sizePlaceholder, g, ran.instruction, << >>, ticket)
    BY <1>2, NothingIsFilled
  <2> QED
    BY <1>2, <2>1, <2>2 DEF ChunkRan, ran
<1> QED
  BY <1>1, <1>3, <1>4

\* What comes in is written.
LEMMA BytesOfAlphabet == \A s \in Seq(Alphabet) : s \in Seq(Bytes)
PROOF
<1>1. Alphabet \subseteq Bytes
  BY DEF Bytes
<1> QED
  BY <1>1, SeqMonotonic

\* runWrapper of a chunked filter.
LEMMA ChunkedRan ==
  ASSUME NEW f, IsFilter(f), f.class = "Chunked", ChunkTyped(f),
         NEW bytes \in Seq(Alphabet), NEW disc \in BOOLEAN, NEW soFar,
         NEW ticket \in Nat, f.sizePlaceholder < ticket
  PROVE  ChunkRan(f, RunWrapper(f, bytes, soFar, disc, ticket), ticket)
PROOF
<1> DEFINE run == RunFilter(f, bytes, soFar, disc, ticket)
           ran == RunWrapper(f, bytes, soFar, disc, ticket)
<1>1. bytes \in Seq(Bytes) /\ Len(bytes) \in Nat
  BY BytesOfAlphabet, LenProperties
<1>2. ran = run \/ ran = Ended(f, "asserted")
  BY DEF RunWrapper, Once
<1>3. ChunkRan(f, run, ticket)
  <2>1. f.chunkState \in {"BeginChunk", "ReadChunkSize", "ReadChunkData", "ReadChunkCrLf"}
    BY DEF IsFilter, NextChunkState
  <2>2. run = RunChunked(f, bytes, soFar, disc, ticket)
    BY DEF RunFilter
  <2>3. CASE disc
    <3>1. run = Ended(f, "thrown") \/ run = Ended(f, "asserted")
      BY <2>2, <2>3 DEF RunChunked, RunCutOff
    <3> HIDE DEF run
    <3> QED
      BY <3>1, NothingRan
  <2>4. CASE ~disc /\ f.chunkState = "BeginChunk"
    <3>1. run = RunSizeLine(f, bytes, << >>)
      BY <2>2, <2>4 DEF RunChunked
    <3> QED
      BY <1>1, <3>1, FirstSizeRan
  <2>5. CASE ~disc /\ f.chunkState = "ReadChunkSize"
    <3>1. run = RunNextSize(f, bytes, ticket)
      BY <2>2, <2>5 DEF RunChunked
    <3> QED
      BY <1>1, <3>1, NextSizeRan
  <2>6. CASE ~disc /\ f.chunkState = "ReadChunkData"
    <3>1. run = RunChunkData(f, bytes)
      BY <2>2, <2>6 DEF RunChunked
    <3> QED
      BY <1>1, <3>1, ChunkDataRan
  <2>7. CASE ~disc /\ f.chunkState = "ReadChunkCrLf"
    <3>1. run = RunChunkCrLf(f, bytes)
      BY <2>2, <2>7 DEF RunChunked
    <3> QED
      BY <1>1, <3>1, ChunkCrLfRan
  <2> QED
    BY <2>1, <2>3, <2>4, <2>5, <2>6, <2>7
<1> HIDE DEF run, ran
<1>4. CASE ran = run
  BY <1>3, <1>4 DEF ran
<1>5. CASE ran = Ended(f, "asserted")
  BY <1>5, NothingRan DEF ran
<1> QED
  BY <1>2, <1>4, <1>5

\* Outputs that fill no place.
PlainOutputs(outputs) ==
  /\ outputs \in Seq(OutputOf(Bytes))
  /\ \A j \in 1..Len(outputs) : outputs[j].op # "fill"

\* Short outputs that fill no place.
LEMMA PlainTuples ==
  ASSUME NEW s \in Seq(Bytes)
  PROVE  /\ PlainOutputs(<< >>) /\ PlainOutputs(<< String(s) >>)
         /\ PlainOutputs(<< Place >>) /\ PlainOutputs(<< Place, Place, Place >>)
         /\ PlainOutputs(<< Own, String(s) >>)
PROOF
<1> DEFINE S == OutputOf(Bytes)
           a == String(s)
           b == Place
           c == Own
<1>1. a \in S /\ b \in S /\ c \in S
  BY OutputsOfChunks
<1>2. a.op # "fill" /\ b.op # "fill" /\ c.op # "fill"
  BY DEF String, Place, Own
<1> HIDE DEF S, a, b, c
<1>3. PlainOutputs(<< >>)
  <2>1. << >> \in Seq(S) /\ Len(<< >>) = 0 /\ \A j \in 1..0 : FALSE
    BY EmptySeq
  <2> QED
    BY <2>1 DEF PlainOutputs, S
<1>4. ASSUME NEW x \in {a, b} PROVE PlainOutputs(<< x >>)
  <2>1. << x >> \in Seq(S) /\ Len(<< x >>) = 1 /\ << x >>[1] = x
    BY <1>1
  <2>2. \A j \in 1..1 : j = 1
    OBVIOUS
  <2> QED
    BY <1>2, <2>1, <2>2 DEF PlainOutputs, S
<1>5. PlainOutputs(<< b, b, b >>)
  <2> DEFINE o == << b, b, b >>
  <2>1. o \in Seq(S) /\ Len(o) = 3 /\ o[1] = b /\ o[2] = b /\ o[3] = b
    BY <1>1
  <2>2. \A j \in 1..3 : j = 1 \/ j = 2 \/ j = 3
    OBVIOUS
  <2> HIDE DEF o
  <2>3. PlainOutputs(o)
    BY <1>2, <2>1, <2>2 DEF PlainOutputs, S
  <2> QED
    BY <2>3 DEF o
<1>6. PlainOutputs(<< c, a >>)
  <2> DEFINE o == << c, a >>
  <2>1. o \in Seq(S) /\ Len(o) = 2 /\ o[1] = c /\ o[2] = a
    BY <1>1
  <2>2. \A j \in 1..2 : j = 1 \/ j = 2
    OBVIOUS
  <2> HIDE DEF o
  <2>3. PlainOutputs(o)
    BY <1>2, <2>1, <2>2 DEF PlainOutputs, S
  <2> QED
    BY <2>3 DEF o
<1> QED
  BY <1>3, <1>4, <1>5, <1>6 DEF a, b, c

\* More of them behind.
LEMMA PlainBehind ==
  ASSUME NEW p, PlainOutputs(p), NEW q, PlainOutputs(q)
  PROVE  PlainOutputs(p \o q)
PROOF
<1> DEFINE n == Len(p)
           m == Len(q)
           S == OutputOf(Bytes)
           o == p \o q
<1>1. p \in Seq(S) /\ q \in Seq(S) /\ (\A j \in 1..n : p[j].op # "fill")
      /\ (\A j \in 1..m : q[j].op # "fill")
  BY DEF PlainOutputs
<1> HIDE DEF S
<1>2. /\ n \in Nat /\ m \in Nat /\ o \in Seq(S) /\ Len(o) = n + m
      /\ \A j \in 1..(n + m) : o[j] = IF j <= n THEN p[j] ELSE q[j - n]
  BY <1>1, ConcatProperties, LenProperties
<1> HIDE DEF n, m, o
<1>3. ASSUME NEW j \in 1..(n + m) PROVE o[j].op # "fill"
  <2>1. CASE j <= n
    BY <1>1, <1>2, <2>1
  <2>2. CASE ~(j <= n)
    <3>1. j - n \in 1..m
      BY <1>2, <2>2
    <3> QED
      BY <1>1, <1>2, <2>2, <3>1
  <2> QED
    BY <2>1, <2>2
<1> QED
  BY <1>2, <1>3 DEF PlainOutputs, o, S

\* runWrapper of any other filter.
LEMMA PlainRan ==
  ASSUME NEW f, IsFilter(f), f.class # "Chunked",
         NEW bytes \in Seq(Alphabet), NEW disc \in BOOLEAN, NEW soFar, NEW ticket
  PROVE  PlainOutputs(RunWrapper(f, bytes, soFar, disc, ticket).outputs)
PROOF
<1> DEFINE run == RunFilter(f, bytes, soFar, disc, ticket)
           ran == RunWrapper(f, bytes, soFar, disc, ticket)
<1>1. bytes \in Seq(Bytes) /\ FilterBuffer(bytes) \in Seq(Bytes)
  BY BytesOfAlphabet, FilterBufferIsTyped
<1>2. /\ PlainOutputs(<< >>) /\ PlainOutputs(<< String(bytes) >>)
      /\ PlainOutputs(<< String(FilterBuffer(bytes)) >>)
      /\ PlainOutputs(<< Place >>) /\ PlainOutputs(<< Place, Place, Place >>)
  BY <1>1, PlainTuples
<1>3. ran = run \/ ran = Ended(f, "asserted")
  BY DEF RunWrapper, Once
<1>4. \A how : Ended(f, how).outputs = << >>
  BY DEF Ended, Ran
<1>5. \A g, inst, outputs : Ran(g, inst, outputs).outputs = outputs
  BY DEF Ran
<1>6. PlainOutputs(run.outputs)
  <2>1. CASE f.class = "Dead"
    BY <1>2, <1>4, <2>1 DEF RunFilter, RunDead
  <2>2. CASE f.class \in {"RequestLine", "ResponseLine"}
    <3>1. run = RunOneLine(f, bytes, disc)
      BY <2>2 DEF RunFilter
    <3>2. \/ \E how : run = Ended(f, how)
          \/ \E inst : \/ run = Ran(f, inst, << >>)
                       \/ run = Ran(f, inst, << Place >>)
                       \/ run = Ran(f, inst, << String(bytes) >>)
      BY <3>1 DEF RunOneLine
    <3> HIDE DEF run
    <3>3. \/ run.outputs = << >> \/ run.outputs = << Place >>
          \/ run.outputs = << String(bytes) >>
      BY <1>4, <1>5, <3>2
    <3> QED
      BY <1>2, <3>3
  <2>3. CASE f.class = "Header"
    <3>1. run = RunHeader(f, bytes, disc)
      BY <2>3 DEF RunFilter
    <3>2. \/ \E how : run = Ended(f, how)
          \/ \E inst : run = Ran(f, inst, << Place, Place, Place >>)
          \/ \E inst : run = Ran(f, inst, << >>)
      BY <3>1 DEF RunHeader
    <3> HIDE DEF run
    <3>3. run.outputs = << >> \/ run.outputs = << Place, Place, Place >>
      BY <1>4, <1>5, <3>2
    <3> QED
      BY <1>2, <3>3
  <2>4. CASE f.class \in {"Passthru", "Data"}
    <3> DEFINE out == LetThrough(f, bytes)
    <3>1. run = RunThrough(f, bytes, soFar, disc)
      BY <2>4 DEF RunFilter
    <3>2. \/ \E how : run = Ended(f, how)
          \/ \E g, inst : run = Ran(g, inst, << String(out) >>)
      BY <3>1 DEF RunThrough
    <3> HIDE DEF run, out
    <3>3. run.outputs = << >> \/ run.outputs = << String(out) >>
      BY <1>4, <1>5, <3>2
    <3> QED
      BY <1>2, <3>3 DEF out, LetThrough
  <2> QED
    BY <2>1, <2>2, <2>3, <2>4 DEF IsFilter, Classes
<1> HIDE DEF run, ran
<1> QED
  BY <1>2, <1>3, <1>4, <1>6 DEF ran
-----------------------------------------------------------------------------
(* The steps of the loop and of its caller, as steps of the streams.       *)

\* What a step does to the output of v: it adds to it, fills a hole of it and
\* adds, or takes bytes from its front; or nothing.
StreamMoves(v) ==
  \/ /\ bytesWrittenSoFar'[v] = bytesWrittenSoFar[v]
     /\ CellsStep(placeholders[v], placeholders'[v])
  \/ \E b \in Seq(Bytes) :
       /\ bytesWrittenSoFar'[v] = bytesWrittenSoFar[v] \o b
       /\ IsWritten(CellsOfAll(placeholders[v]), ByteCells(b), CellsOfAll(placeholders'[v]))

OutputKept == OutputInv' /\ \A v \in Conn : StreamMoves(v)

\* The same of what is still to be written (Unwritten), which is not all of the
\* deque when a send was given up midway.
StreamSteps(v) ==
  \/ /\ bytesWrittenSoFar'[v] = bytesWrittenSoFar[v]
     /\ CellsStep(Unwritten(v), Unwritten(v)')
  \/ \E b \in Seq(Bytes) :
       /\ bytesWrittenSoFar'[v] = bytesWrittenSoFar[v] \o b
       /\ IsWritten(CellsOfAll(Unwritten(v)), ByteCells(b), CellsOfAll(Unwritten(v)'))

OutputStepped == OutputInv' /\ \A v \in Conn : StreamSteps(v)

\* The outputs of a run, to one connection: no placeholder that a caller has, or
\* gets, is filled.
LEMMA OutputsKeep ==
  ASSUME held \subseteq Conn \X (0..nextTicket),
         DequesTyped(Bytes, placeholders, nextTicket), HeldAreHoles,
         NEW out \in Conn, NEW outputs \in Seq(OutputOf(Bytes)),
         FillsFit(placeholders[out], outputs, nextTicket), FilterOutputs(out, outputs),
         \A i \in FilledBy(outputs, Len(outputs)) : << out, i >> \notin held,
         \A j \in 1..Len(outputs) : outputs[j].op = "place" =>
           nextTicket + j - 1 \notin FilledBy(outputs, Len(outputs)),
         UNCHANGED bytesWrittenSoFar
  PROVE  /\ DequesTyped(Bytes, placeholders, nextTicket)'
         /\ HeldAreHoles'
         /\ \A v \in Conn : StreamMoves(v)
PROOF
<1> DEFINE n == Len(outputs)
           filled == FilledBy(outputs, n)
           reserved == ReservedBy(outputs, nextTicket, n)
<1>1. /\ DequesTyped(Bytes, placeholders', nextTicket')
      /\ \A v \in Conn : v # out => placeholders'[v] = placeholders[v]
      /\ CellsStep(placeholders[out], placeholders'[out])
      /\ HolesStay(placeholders[out], placeholders'[out], filled)
      /\ \A h \in reserved \ filled : IsHoleOf(placeholders'[out], h)
  BY OutputsStep
<1>2. held' = held \union { << out, nextTicket + k - 1 >> :
                              k \in { k \in 1..n : outputs[k].op = "place" } }
  BY DEF FilterOutputs
<1>3. ASSUME NEW j \in 1..n, outputs[j].op = "place"
      PROVE  nextTicket + j - 1 \in reserved \ filled
  BY <1>3 DEF ReservedBy
<1> HIDE DEF filled, reserved, n
<1>4. ASSUME NEW h \in held PROVE IsHoleOf(placeholders'[h[1]], h[2])
  <2>1. h[1] \in Conn /\ h = << h[1], h[2] >> /\ IsHoleOf(placeholders[h[1]], h[2])
    BY DEF HeldAreHoles
  <2>2. CASE h[1] # out
    BY <1>1, <2>1, <2>2
  <2>3. CASE h[1] = out
    <3>1. h[2] \notin filled
      BY <2>1, <2>3 DEF filled, n
    <3> QED
      BY <1>1, <2>1, <2>3, <3>1 DEF HolesStay
  <2> QED
    BY <2>2, <2>3
<1>5. ASSUME NEW h \in held' PROVE IsHoleOf(placeholders'[h[1]], h[2])
  <2>1. CASE h \in held
    BY <1>4, <2>1
  <2>2. CASE h \notin held
    <3>1. PICK k \in 1..n : outputs[k].op = "place" /\ h = << out, nextTicket + k - 1 >>
      BY <1>2, <2>2
    <3> QED
      BY <1>1, <1>3, <3>1
  <2> QED
    BY <2>1, <2>2
<1>6. ASSUME NEW v \in Conn PROVE StreamMoves(v)
  <2>1. CellsStep(placeholders[v], placeholders'[v])
    BY <1>1 DEF CellsStep
  <2> QED
    BY <2>1 DEF StreamMoves
<1> QED
  BY <1>1, <1>5, <1>6 DEF HeldAreHoles, DequesTyped

\* Outputs that fill no place.
LEMMA PlainFits ==
  ASSUME NEW outputs, PlainOutputs(outputs), NEW phs, NEW lo
  PROVE  /\ outputs \in Seq(OutputOf(Bytes))
         /\ FillsFit(phs, outputs, lo)
         /\ FilledBy(outputs, Len(outputs)) = {}
BY DEF PlainOutputs, FillsFit, FilledBy

\* The outputs of a chunked filter's run.
LEMMA ChunkFills ==
  ASSUME NEW phs \in Deques(Bytes), NEW lo \in Nat, IdsBelow(phs, lo),
         NEW sp, IsHoleOf(phs, sp), NEW g, NEW inst, NEW outputs,
         FillsItsHoles(sp, g, inst, outputs, lo)
  PROVE  /\ outputs \in Seq(OutputOf(Bytes))
         /\ FillsFit(phs, outputs, lo)
         /\ \A i \in FilledBy(outputs, Len(outputs)) : i = sp \/ lo <= i
         /\ \A j \in 1..Len(outputs) : outputs[j].op # "place"
PROOF
<1>1. sp \in Nat /\ sp < lo
  BY HoleIsOld
<1>2. outputs \in Seq(OutputOf(Bytes)) /\ Len(outputs) \in Nat
  BY LenProperties DEF FillsItsHoles
<1>3. ASSUME NEW k \in Nat, NEW i \in ReservedBy(outputs, lo, k)
      PROVE  i \in Nat /\ lo <= i
  BY <1>3 DEF ReservedBy
<1>4. ASSUME NEW j \in 1..Len(outputs), outputs[j].op = "fill"
      PROVE  /\ outputs[j].id \notin FilledBy(outputs, j - 1)
             /\ \/ outputs[j].id = sp
                \/ outputs[j].id \in ReservedBy(outputs, lo, j - 1) /\ lo <= outputs[j].id
  BY <1>2, <1>3, <1>4 DEF FillsItsHoles
<1>5. ASSUME NEW k \in 0..Len(outputs), NEW i \in FilledBy(outputs, k)
      PROVE  i = sp \/ lo <= i
  <2>1. PICK j \in 1..k : outputs[j].op = "fill" /\ i = outputs[j].id
    BY DEF FilledBy
  <2> QED
    BY <1>2, <1>4, <2>1
<1>6. FillsFit(phs, outputs, lo)
  <2>1. SUFFICES ASSUME NEW j \in 1..Len(outputs), outputs[j].op = "fill"
                 PROVE  /\ outputs[j].id \notin FilledBy(outputs, j - 1)
                        /\ \/ /\ outputs[j].id < lo /\ IsHoleOf(phs, outputs[j].id)
                              /\ \A i \in FilledBy(outputs, j - 1) : ~(i < lo)
                           \/ lo <= outputs[j].id /\ outputs[j].id \in ReservedBy(outputs, lo, j - 1)
    BY DEF FillsFit
  <2>2. CASE outputs[j].id = sp
    <3>1. \A i \in FilledBy(outputs, j - 1) : i # sp
      BY <1>4, <2>1, <2>2
    <3>2. j - 1 \in 0..Len(outputs)
      BY <1>2
    <3>3. \A i \in FilledBy(outputs, j - 1) : lo <= i /\ i \in Nat
      <4>1. TAKE i \in FilledBy(outputs, j - 1)
      <4>2. PICK m \in 1..(j - 1) : outputs[m].op = "fill" /\ i = outputs[m].id
        BY DEF FilledBy
      <4>3. i \in ReservedBy(outputs, lo, m - 1) /\ m \in 1..Len(outputs) /\ m - 1 \in Nat
        BY <1>2, <1>4, <3>1, <4>2
      <4> QED
        BY <1>3, <4>3
    <3> QED
      BY <1>1, <1>4, <2>1, <2>2, <3>3
  <2>3. CASE outputs[j].id # sp
    BY <1>4, <2>1, <2>3
  <2> QED
    BY <2>2, <2>3
<1> QED
  BY <1>2, <1>5, <1>6 DEF FillsItsHoles

\* The placeholders of the callers have old tickets.
LEMMA HeldAreOld ==
  ASSUME DequesTyped(Bytes, placeholders, nextTicket), HeldAreHoles,
         NEW v \in Conn, NEW i, << v, i >> \in held
  PROVE  i \in Nat /\ i < nextTicket
PROOF
<1>1. IsHoleOf(placeholders[<< v, i >>[1]], << v, i >>[2])
  BY DEF HeldAreHoles
<1>2. IsHoleOf(placeholders[v], i)
  BY <1>1
<1>3. placeholders[v] \in Deques(Bytes) /\ IdsBelow(placeholders[v], nextTicket)
  BY DEF DequesTyped
<1> QED
  BY <1>2, <1>3, HoleIsOld

\* Behind a run, the filters have their members.
LEMMA FiltersBehindRun ==
  ASSUME LoopInv, FiltersTyped, NEW w \in Conn, NEW class, class = filter[w].class,
         NEW stream, NEW taken, NEW first, NEW ran, Helped(w, stream, taken, first, ran),
         NEW disc, Leaves(w, disc, ran), IsRun(ran, class, taken),
         class = "Chunked" => ChunkTyped(ran.filter)
  PROVE  FiltersTyped'
PROOF
<1>1. /\ filter'[w] = ran.filter /\ ran.filter.class = class
      /\ \A v \in Conn : v # w => filter'[v] = filter[v]
  BY OnlyTheRun DEF IsRun
<1>2. \A v \in Conn : Waits(v)' => v # w /\ Waits(v)
  BY DEF Leaves
<1>3. ASSUME NEW v \in Conn
      PROVE  /\ filter'[v].class = "Chunked" => ChunkTyped(filter'[v])
             /\ Waits(v)' /\ filter'[v].class = "Passthru" => filter'[v].sendFirst \in Seq(Bytes)
  <2>1. CASE v = w
    BY <1>1, <1>2, <2>1
  <2>2. CASE v # w
    BY <1>1, <1>2, <2>2 DEF FiltersTyped
  <2> QED
    BY <2>1, <2>2
<1> QED
  BY <1>3 DEF FiltersTyped, ChunkTyped

\* Outputs that fill no place.
LEMMA PlainOutputsKeep ==
  ASSUME LoopInv, OutputInv, NEW out \in Conn, NEW outputs, PlainOutputs(outputs),
         FilterOutputs(out, outputs), UNCHANGED bytesWrittenSoFar
  PROVE  /\ DequesTyped(Bytes, placeholders, nextTicket)'
         /\ (bytesWrittenSoFar \in [Conn -> Seq(Bytes)])'
         /\ HeldAreHoles'
         /\ \A v \in Conn : StreamMoves(v)
         /\ \A v \in Conn : v # out => placeholders'[v] = placeholders[v]
         /\ \A v, i : << v, i >> \in held' \ held => v = out
PROOF
<1>1. /\ outputs \in Seq(OutputOf(Bytes)) /\ FillsFit(placeholders[out], outputs, nextTicket)
      /\ FilledBy(outputs, Len(outputs)) = {}
  BY PlainFits
<1>2. /\ held \subseteq Conn \X (0..nextTicket)
      /\ DequesTyped(Bytes, placeholders, nextTicket) /\ HeldAreHoles
      /\ bytesWrittenSoFar' \in [Conn -> Seq(Bytes)]
  BY DEF LoopInv, LoopTyped, OutputInv
<1>3. /\ DequesTyped(Bytes, placeholders, nextTicket)' /\ HeldAreHoles'
      /\ \A v \in Conn : StreamMoves(v)
  BY <1>1, <1>2, OutputsKeep
<1>4. \A v \in Conn : v # out => placeholders'[v] = placeholders[v]
  BY <1>1, <1>2, OutputsStep
<1>5. \A v, i : << v, i >> \in held' \ held => v = out
  BY DEF FilterOutputs
<1> QED
  BY <1>2, <1>3, <1>4, <1>5

\* A run whose outputs fill no place: one of any other filter, or the last of a
\* chunked one.
LEMMA PlainRunKeepsOutput ==
  ASSUME LoopInv, InstructionsInv, OutputInv, ~HasEnded, NEW w \in Conn, NEW class, class = filter[w].class,
         NEW stream, NEW taken, NEW first, NEW ran, Helped(w, stream, taken, first, ran),
         NEW disc, Leaves(w, disc, ran), IsRun(ran, class, taken),
         PlainOutputs(first \o ran.outputs),
         class = "Chunked" => ran.ended # "ok" /\ ChunkTyped(ran.filter),
         UNCHANGED bytesWrittenSoFar
  PROVE  OutputKept
PROOF
<1>1. Other(w) \in Conn /\ FilterOutputs(Other(w), first \o ran.outputs)
  BY DEF Helped, Other, Conn
<1>2. /\ DequesTyped(Bytes, placeholders, nextTicket)'
      /\ (bytesWrittenSoFar \in [Conn -> Seq(Bytes)])' /\ HeldAreHoles'
      /\ \A v \in Conn : StreamMoves(v)
      /\ \A v \in Conn : v # Other(w) => placeholders'[v] = placeholders[v]
      /\ \A v, i : << v, i >> \in held' \ held => v = Other(w)
  BY <1>1, PlainOutputsKeep
<1>3. FiltersTyped'
  BY FiltersBehindRun DEF OutputInv
<1>4. ChunkIsHole'
  <2>1. SUFFICES ASSUME ~HasEnded', ~Waits("server")',
                        IsWriting(filter'["server"], instruction'["server"])
                 PROVE  /\ IsHoleOf(placeholders'["client"], filter'["server"].sizePlaceholder)
                        /\ << "client", filter'["server"].sizePlaceholder >> \notin held'
    BY DEF ChunkIsHole
  <2>2. "server" \in Conn /\ "client" \in Conn
    BY DEF Conn
  <2>3. w = "client"
    <3>1. w # "server"
      <4>1. SUFFICES ASSUME w = "server" PROVE FALSE
        OBVIOUS
      <4>2. filter'["server"] = ran.filter /\ ran.filter.class = class
        BY <4>1, OnlyTheRun DEF IsRun
      <4>3. class = "Chunked" /\ ran.ended # "ok"
        BY <2>1, <4>2 DEF IsWriting
      <4>4. stage' \in {"thrown", "asserted", "looping"}
        BY <4>3 DEF Leaves, IsRun
      <4> QED
        BY <2>1, <4>4 DEF HasEnded
    <3> QED
      BY <3>1 DEF Conn
  <2>4. filter'["server"] = filter["server"] /\ instruction'["server"] = instruction["server"]
        /\ ~Waits("server")
    BY <2>1, <2>2, <2>3, OnlyTheRun DEF Leaves
  <2>5. /\ IsHoleOf(placeholders["client"], filter["server"].sizePlaceholder)
        /\ << "client", filter["server"].sizePlaceholder >> \notin held
    BY <2>1, <2>4 DEF OutputInv, ChunkIsHole
  <2>6. Other(w) = "server"
    BY <2>3 DEF Other
  <2> QED
    BY <1>2, <2>2, <2>4, <2>5, <2>6
<1> QED
  BY <1>2, <1>3, <1>4 DEF OutputKept, OutputInv

\* A run of a chunked filter.
LEMMA ChunkedRunKeepsOutput ==
  ASSUME LoopInv, InstructionsInv, OutputInv, ~HasEnded, ~Waits("server"),
         instruction["server"].type # "QuitFilter",
         NEW f, f = filter["server"], f.class = "Chunked",
         NEW stream, NEW taken, NEW disc, NEW ran,
         Runs("server", f, stream, taken, disc, nextTicket, ran),
         Helped("server", stream, taken, << >>, ran), Leaves("server", disc, ran),
         UNCHANGED bytesWrittenSoFar
  PROVE  OutputKept
PROOF
<1> DEFINE sp == f.sizePlaceholder
           outputs == ran.outputs
           given == SubSeq(stream, 1, taken)
           phs == placeholders["client"]
           g == ran.filter
<1>1. "server" \in Conn /\ "client" \in Conn /\ Other("server") = "client"
  BY DEF Conn, Other
<1>2. IsHoleOf(phs, sp) /\ << "client", sp >> \notin held
  BY DEF OutputInv, ChunkIsHole, IsWriting
<1>3. /\ phs \in Deques(Bytes) /\ nextTicket \in Nat /\ IdsBelow(phs, nextTicket)
      /\ DequesTyped(Bytes, placeholders, nextTicket)
  BY <1>1 DEF OutputInv, DequesTyped
<1>4. sp \in Nat /\ sp < nextTicket
  BY <1>2, <1>3, HoleIsOld
<1>5. /\ given \in Seq(Alphabet) /\ IsRun(ran, f.class, taken)
      /\ ran = RunWrapper(f, given, readSoFar["server"] + taken, disc, nextTicket)
      /\ IsFilter(f) /\ disc \in BOOLEAN /\ ChunkTyped(f)
  <2>1. ChunkTyped(f)
    BY <1>1 DEF OutputInv, FiltersTyped
  <2>2. given \in Seq(Alphabet) /\ IsRun(ran, f.class, taken)
    BY GivenIs
  <2> QED
    BY <2>1, <2>2 DEF Runs
<1> HIDE DEF given, phs
<1>6. ChunkRan(f, ran, nextTicket)
  BY <1>3, <1>4, <1>5, ChunkedRan
<1>7. ChunkTyped(g) /\ FillsItsHoles(sp, g, ran.instruction, outputs, nextTicket)
  BY <1>6 DEF ChunkRan
<1> HIDE DEF sp, outputs, g
<1>8. /\ outputs \in Seq(OutputOf(Bytes)) /\ FillsFit(phs, outputs, nextTicket)
      /\ \A i \in FilledBy(outputs, Len(outputs)) : i = sp \/ nextTicket <= i
      /\ \A j \in 1..Len(outputs) : outputs[j].op # "place"
  BY <1>2, <1>3, <1>7, ChunkFills
<1>9. FilterOutputs("client", outputs)
  <2>1. << >> \o outputs = outputs
    BY <1>8, ConcatEmptySeq
  <2> QED
    BY <1>1, <2>1 DEF Helped, outputs
<1>10. \A i \in FilledBy(outputs, Len(outputs)) : << "client", i >> \notin held
  <2>1. SUFFICES ASSUME NEW i \in FilledBy(outputs, Len(outputs)), << "client", i >> \in held
                 PROVE  FALSE
    OBVIOUS
  <2>2. i \in Nat /\ i < nextTicket
    BY <1>1, <1>3, <2>1, HeldAreOld DEF OutputInv
  <2> QED
    BY <1>2, <1>3, <1>8, <2>1, <2>2
<1>11. /\ DequesTyped(Bytes, placeholders, nextTicket)' /\ HeldAreHoles'
       /\ \A v \in Conn : StreamMoves(v)
  <2>1. held \subseteq Conn \X (0..nextTicket) /\ HeldAreHoles
    BY DEF LoopInv, LoopTyped, OutputInv
  <2> QED
    BY <1>1, <1>3, <1>8, <1>9, <1>10, <2>1, OutputsKeep DEF phs
<1>12. FiltersTyped'
  <2>1. f.class = "Chunked" => ChunkTyped(ran.filter)
    BY <1>7 DEF g
  <2> QED
    BY <1>1, <1>5, <2>1, FiltersBehindRun DEF OutputInv
<1>13. ChunkIsHole'
  <2> DEFINE n == Len(outputs)
             next == filter'["server"].sizePlaceholder
  <2>1. SUFFICES ASSUME IsWriting(filter'["server"], instruction'["server"])
                 PROVE  IsHoleOf(placeholders'["client"], next) /\ << "client", next >> \notin held'
    BY DEF ChunkIsHole
  <2>2. filter'["server"] = g /\ instruction'["server"] = ran.instruction
    BY <1>1, OnlyTheRun DEF g
  <2>3. /\ next \notin FilledBy(outputs, n)
        /\ next = sp \/ next \in ReservedBy(outputs, nextTicket, n)
    BY <1>7, <2>1, <2>2 DEF FillsItsHoles, IsWriting
  <2>4. /\ HolesStay(phs, placeholders'["client"], FilledBy(outputs, n))
        /\ \A h \in ReservedBy(outputs, nextTicket, n) \ FilledBy(outputs, n) :
             IsHoleOf(placeholders'["client"], h)
    BY <1>1, <1>3, <1>8, <1>9, OutputsStep DEF phs
  <2>5. held' = held
    <3>1. { k \in 1..n : outputs[k].op = "place" } = {}
      BY <1>8
    <3>2. held' = held \union { << "client", nextTicket + k - 1 >> : k \in {} }
      BY <1>9, <3>1 DEF FilterOutputs
    <3> QED
      BY <3>2
  <2> HIDE DEF n, next
  <2>6. CASE next = sp
    BY <1>2, <2>3, <2>4, <2>5, <2>6 DEF HolesStay
  <2>7. CASE next \in ReservedBy(outputs, nextTicket, n)
    <3>1. IsHoleOf(placeholders'["client"], next)
      BY <2>3, <2>4, <2>7
    <3>2. nextTicket <= next /\ next \in Nat
      BY <1>3, <2>7 DEF ReservedBy
    <3>3. << "client", next >> \notin held
      <4>1. SUFFICES ASSUME << "client", next >> \in held PROVE FALSE
        OBVIOUS
      <4>2. next < nextTicket
        BY <1>1, <1>3, <4>1, HeldAreOld DEF OutputInv
      <4> QED
        BY <1>3, <3>2, <4>2
    <3> QED
      BY <2>5, <3>1, <3>3
  <2> QED
    BY <2>3, <2>6, <2>7
<1>14. (bytesWrittenSoFar \in [Conn -> Seq(Bytes)])'
  BY DEF OutputInv
<1> QED
  BY <1>11, <1>12, <1>13, <1>14 DEF OutputKept, OutputInv

\* A step that writes nothing and runs no filter.
LEMMA OutputUntouched ==
  ASSUME OutputInv,
         UNCHANGED << placeholders, bytesWrittenSoFar, filter, instruction, held, nextTicket >>,
         \A v \in Conn : Waits(v)' => Waits(v),
         ~HasEnded' => ~HasEnded /\ (Waits("server") => Waits("server")')
  PROVE  OutputKept
PROOF
<1>1. /\ DequesTyped(Bytes, placeholders, nextTicket)'
      /\ (bytesWrittenSoFar \in [Conn -> Seq(Bytes)])'
  BY DEF OutputInv, DequesTyped
<1>2. FiltersTyped'
  BY DEF OutputInv, FiltersTyped, ChunkTyped
<1>3. HeldAreHoles'
  BY DEF OutputInv, HeldAreHoles
<1>4. ChunkIsHole'
  BY DEF OutputInv, ChunkIsHole
<1>5. \A v \in Conn : StreamMoves(v)
  BY DEF StreamMoves, CellsStep
<1> QED
  BY <1>1, <1>2, <1>3, <1>4, <1>5 DEF OutputKept, OutputInv

\* A run that ends for good and outputs nothing.
EndsSilently(f, ran) == ran.outputs = << >> /\ ran.ended # "ok" /\ ran.filter = f

\* A chunked filter that is told of the disconnection outputs nothing.
LEMMA CutOffIsSilent ==
  ASSUME NEW f, f.class = "Chunked", NEW bytes, NEW soFar, NEW ticket
  PROVE  EndsSilently(f, RunWrapper(f, bytes, soFar, TRUE, ticket))
PROOF
<1> DEFINE run == RunFilter(f, bytes, soFar, TRUE, ticket)
           ran == RunWrapper(f, bytes, soFar, TRUE, ticket)
<1>1. run = RunChunked(f, bytes, soFar, TRUE, ticket)
  BY DEF RunFilter
<1>2. run = Ended(f, "thrown") \/ run = Ended(f, "asserted")
  BY <1>1 DEF RunChunked, RunCutOff
<1>3. ran = run \/ ran = Ended(f, "asserted")
  BY DEF RunWrapper, Once
<1>4. \A how : Ended(f, how).outputs = << >> /\ Ended(f, how).ended = how
               /\ Ended(f, how).filter = f
  BY DEF Ended, Ran
<1> HIDE DEF run, ran
<1>5. ran.outputs = << >> /\ ran.ended # "ok" /\ ran.filter = f
  BY <1>2, <1>3, <1>4
<1> QED
  BY <1>5 DEF ran, EndsSilently

\* A run in the loop, of any filter.
LEMMA RunKeepsOutput ==
  ASSUME LoopInv, InstructionsInv, OutputInv, ~HasEnded, NEW w \in Conn, ~Waits(w),
         instruction[w].type # "QuitFilter",
         NEW stream, NEW taken, NEW disc, NEW ran,
         Runs(w, filter[w], stream, taken, disc, nextTicket, ran),
         Helped(w, stream, taken, << >>, ran), Leaves(w, disc, ran),
         UNCHANGED bytesWrittenSoFar
  PROVE  OutputKept
PROOF
<1> DEFINE f == filter[w]
           given == SubSeq(stream, 1, taken)
<1>1. CASE f.class = "Chunked"
  <2>1. w = "server"
    BY <1>1 DEF InstructionsInv, Conn
  <2> QED
    BY <1>1, <2>1, ChunkedRunKeepsOutput
<1>2. CASE f.class # "Chunked"
  <2>1. given \in Seq(Alphabet) /\ IsRun(ran, f.class, taken)
    BY GivenIs
  <2>2. /\ IsFilter(f) /\ disc \in BOOLEAN
        /\ ran = RunWrapper(f, given, readSoFar[w] + taken, disc, nextTicket)
    BY DEF Runs
  <2>3. PlainOutputs(ran.outputs)
    BY <1>2, <2>1, <2>2, PlainRan
  <2>4. << >> \o ran.outputs = ran.outputs
    BY <2>3, ConcatEmptySeq DEF PlainOutputs
  <2>5. PlainOutputs(<< >> \o ran.outputs)
    BY <2>3, <2>4
  <2>6. f.class = "Chunked" => ran.ended # "ok" /\ ChunkTyped(ran.filter)
    BY <1>2
  <2> QED
    BY <2>1, <2>5, <2>6, PlainRunKeepsOutput
<1> QED
  BY <1>1, <1>2

\* A step of the loop that is a run of one filter.
LEMMA RunInLoopKeepsOutput ==
  ASSUME LoopInv, InstructionsInv, OutputInv, NEW w \in Conn,
         NEW stream, NEW taken, NEW disc, NEW ran, RunsInLoop(w, stream, taken, disc, ran),
         UNCHANGED bytesWrittenSoFar
  PROVE  OutputKept
BY RunKeepsOutput DEF RunsInLoop

\* A run on what is buffered, or one behind a recv; or what comes is kept.
LEMMA FiltersKeepOutput ==
  ASSUME LoopInv, TransferInv, OutputInv, NEW w \in Conn,
         \/ FilterBuffered(w) \/ RecvData(w) \/ RecvZero(w) \/ RecvReset(w)
  PROVE  OutputKept
PROOF
<1>1. UNCHANGED bytesWrittenSoFar /\ InstructionsInv
  BY DEF FilterBuffered, RecvData, RecvZero, RecvReset, RecvUnchanged, TransferInv
<1>2. CASE FilterBuffered(w)
  <2>1. PICK ran : RunsInLoop(w, unfilteredBytes[w], Satisfied(w), FALSE, ran)
    BY <1>1, <1>2, BufferedRuns
  <2> QED
    BY <1>1, <2>1, RunInLoopKeepsOutput
<1>3. CASE RecvZero(w) \/ RecvReset(w)
  <2>1. PICK ran : RunsInLoop(w, unfilteredBytes[w], 0, TRUE, ran)
    BY <1>1, <1>3, DisconnectionRuns
  <2> QED
    BY <1>1, <2>1, RunInLoopKeepsOutput
<1>4. CASE RecvData(w)
  <2>1. PICK buffer, stream : DataComes(w, buffer, stream)
    BY <1>1, <1>4, RecvBrings
  <2>2. CASE \E taken, ran : RunsInLoop(w, stream, taken, FALSE, ran)
    BY <1>1, <2>2, RunInLoopKeepsOutput
  <2>3. CASE /\ NextEvent
             /\ UNCHANGED << placeholders, filter, instruction, held, nextTicket >>
    <3>1. /\ ~HasEnded /\ \A v \in Conn : ~Waits(v)' /\ ~Waits(v)
      BY <1>4, <2>3 DEF RecvData, HasEnded, Waits, AtEvent, NextEvent
    <3>2. /\ \A v \in Conn : Waits(v)' => Waits(v)
          /\ ~HasEnded' => ~HasEnded /\ (Waits("server") => Waits("server")')
      BY <3>1 DEF Conn
    <3>3. UNCHANGED << placeholders, bytesWrittenSoFar, filter, instruction, held, nextTicket >>
      BY <1>1, <2>3
    <3> QED
      BY <3>2, <3>3, OutputUntouched
  <2> QED
    BY <2>1, <2>2, <2>3 DEF DataComes
<1> QED
  BY <1>2, <1>3, <1>4

\* The loop's first steps.
LEMMA SetupKeepsOutput ==
  ASSUME LoopInv, TransferInv, OutputInv, Setup
  PROVE  OutputKept
PROOF
<1>1. PICK w : SetUp(w)
  BY SetupSetsUp DEF TransferInv
<1> DEFINE f == Begun(filter[w], nextTicket)
           inst == FirstInstruction(filter[w])
           first == FirstOutputs(filter[w])
           stream == unfilteredBytes[w]
<1>2. /\ w \in Conn /\ Waits(w) /\ ~HasEnded
      /\ IsFilter(filter[w]) /\ IsFilter(f) /\ f.class = filter[w].class
      /\ f.class # "Chunked" => f = filter[w]
  BY <1>1 DEF SetUp
<1>3. UNCHANGED bytesWrittenSoFar /\ InstructionsInv
  BY DEF Setup, TransferInv
<1>4. PlainOutputs(first)
  <2>1. CASE f.class = "Chunked"
    <3>1. CRLF \in Seq(Bytes)
      BY OwnStrings
    <3> HIDE DEF f
    <3>2. first = << Own, String(CRLF) >>
      BY <1>2, <2>1 DEF FirstOutputs, NewChunk
    <3> QED
      BY <3>1, <3>2, PlainTuples
  <2>2. CASE f.class = "Passthru" /\ filter[w].sendFirst # << >>
    <3>1. filter[w].sendFirst \in Seq(Bytes)
      BY <1>2, <2>2 DEF OutputInv, FiltersTyped
    <3> HIDE DEF f
    <3>2. first = << String(filter[w].sendFirst) >>
      BY <1>2, <2>2 DEF FirstOutputs
    <3> QED
      BY <3>1, <3>2, PlainTuples
  <2>3. CASE f.class # "Chunked" /\ ~(f.class = "Passthru" /\ filter[w].sendFirst # << >>)
    <3>1. << >> \in Seq(Bytes)
      BY EmptySeq
    <3> HIDE DEF f
    <3>2. first = << >>
      BY <1>2, <2>3 DEF FirstOutputs
    <3> QED
      BY <3>1, <3>2, PlainTuples
  <2> QED
    BY <2>1, <2>2, <2>3
<1>5. f.class = "Chunked" =>
        ChunkTyped(f) /\ f.sizePlaceholder = nextTicket /\ w = "server"
  <2>1. SUFFICES ASSUME f.class = "Chunked"
                 PROVE  ChunkTyped(f) /\ f.sizePlaceholder = nextTicket /\ w = "server"
    OBVIOUS
  <2>2. w = "server"
    BY <1>2, <1>3, <2>1 DEF InstructionsInv, Conn
  <2>3. ChunkTyped(filter[w]) /\ nextTicket \in Nat
    BY <1>2, <2>1 DEF OutputInv, FiltersTyped, DequesTyped
  <2>4. f = WithChunk(filter[w], nextTicket)
    BY <1>2, <2>1 DEF Begun
  <2> DEFINE h == filter[w]
  <2> HIDE DEF f, h
  <2>5. /\ DOMAIN f = ChunkMembers /\ f.totalSize = h.totalSize
        /\ f.chunkString = h.chunkString /\ f.subUnfiltered = h.subUnfiltered
        /\ f.subReadSoFar = h.subReadSoFar /\ f.subInstruction = h.subInstruction
        /\ f.sizePlaceholder = nextTicket /\ f.charsWritten = 0
    BY <2>3, <2>4, Members DEF WithChunk, ChunkTyped, h
  <2>6. ChunkTyped(h)
    BY <2>3 DEF h
  <2> QED
    BY <2>2, <2>3, <2>5, <2>6 DEF ChunkTyped
<1>6. ASSUME NEW ran,
             Runs(w, f, stream, 0, TRUE, nextTicket + Len(first), ran),
             Helped(w, stream, 0, first, ran), Leaves(w, TRUE, ran)
      PROVE  OutputKept
  <2> DEFINE given == SubSeq(stream, 1, 0)
             ticket == nextTicket + Len(first)
  <2> HIDE DEF stream, first, f, inst, ticket
  <2>1. given \in Seq(Alphabet) /\ IsRun(ran, f.class, 0)
    BY <1>6, GivenIs DEF ticket
  <2>2. ran = RunWrapper(f, given, readSoFar[w] + 0, TRUE, ticket)
    BY <1>6 DEF Runs, ticket
  <2>3. f.class # "Chunked" => PlainOutputs(ran.outputs)
    <3> HIDE DEF given
    <3> QED
      BY <1>2, <2>1, <2>2, PlainRan
  <2>4. f.class = "Chunked" =>
          /\ ran.outputs = << >> /\ ran.ended # "ok" /\ ChunkTyped(ran.filter)
    <3>1. SUFFICES ASSUME f.class = "Chunked"
                   PROVE  ran.outputs = << >> /\ ran.ended # "ok" /\ ran.filter = f
      BY <1>5
    <3> HIDE DEF given
    <3>2. EndsSilently(f, RunWrapper(f, given, readSoFar[w] + 0, TRUE, ticket))
      BY <3>1, CutOffIsSilent
    <3> QED
      BY <2>2, <3>2 DEF EndsSilently
  <2>5. PlainOutputs(first \o ran.outputs)
    <3>1. PlainOutputs(<< >>)
      BY PlainTuples, EmptySeq
    <3> QED
      BY <1>4, <2>3, <2>4, <3>1, PlainBehind
  <2> QED
    BY <1>2, <1>3, <1>6, <2>1, <2>4, <2>5, PlainRunKeepsOutput
<1>7. ASSUME instruction' = [instruction EXCEPT ![w] = inst],
             filter' = [filter EXCEPT ![w] = f],
             FilterOutputs(Other(w), first),
             ~Waits(w)', \A v \in Conn : v # w => (Waits(v)' <=> Waits(v))
      PROVE  OutputKept
  <2> HIDE DEF f, inst, first
  <2>1. Other(w) \in Conn /\ "client" \in Conn /\ "server" \in Conn
    BY DEF Other, Conn
  <2>2. /\ DequesTyped(Bytes, placeholders, nextTicket)'
        /\ (bytesWrittenSoFar \in [Conn -> Seq(Bytes)])' /\ HeldAreHoles'
        /\ \A v \in Conn : StreamMoves(v)
        /\ \A v \in Conn : v # Other(w) => placeholders'[v] = placeholders[v]
        /\ \A v, i : << v, i >> \in held' \ held => v = Other(w)
    BY <1>3, <1>4, <1>7, <2>1, PlainOutputsKeep
  <2>3. /\ filter'[w] = f /\ instruction'[w] = inst
        /\ \A v \in Conn : v # w => filter'[v] = filter[v] /\ instruction'[v] = instruction[v]
    BY <1>2, <1>7 DEF LoopInv, StreamInv, Typed
  <2>4. FiltersTyped'
    <3>1. ASSUME NEW v \in Conn
          PROVE  /\ filter'[v].class = "Chunked" => ChunkTyped(filter'[v])
                 /\ Waits(v)' /\ filter'[v].class = "Passthru" => filter'[v].sendFirst \in Seq(Bytes)
      <4>1. CASE v = w
        BY <1>5, <1>7, <2>3, <4>1
      <4>2. CASE v # w
        BY <1>7, <2>3, <4>2 DEF OutputInv, FiltersTyped
      <4> QED
        BY <4>1, <4>2
    <3> QED
      BY <3>1 DEF FiltersTyped, ChunkTyped
  <2>5. ChunkIsHole'
    <3>1. SUFFICES ASSUME ~Waits("server")', IsWriting(filter'["server"], instruction'["server"])
                   PROVE  /\ IsHoleOf(placeholders'["client"], filter'["server"].sizePlaceholder)
                          /\ << "client", filter'["server"].sizePlaceholder >> \notin held'
      BY DEF ChunkIsHole
    <3>2. CASE w = "client"
      <4>1. Other(w) = "server" /\ ~Waits("server")
        BY <1>7, <2>1, <3>1, <3>2 DEF Other
      <4>2. IsWriting(filter["server"], instruction["server"]) /\ filter'["server"] = filter["server"]
        BY <2>1, <2>3, <3>1, <3>2
      <4> QED
        BY <1>2, <2>1, <2>2, <3>2, <4>1, <4>2 DEF OutputInv, ChunkIsHole
    <3>3. CASE w = "server"
      <4>1. f.class = "Chunked" /\ filter'["server"] = f
        BY <2>3, <3>1, <3>3 DEF IsWriting
      <4>2. f.sizePlaceholder = nextTicket /\ nextTicket \in Nat
        BY <1>5, <4>1 DEF OutputInv, DequesTyped
      <4>3. /\ first = << Own, String(CRLF) >> /\ Other(w) = "client"
        BY <1>2, <3>3, <4>1 DEF FirstOutputs, NewChunk, Other, first
      <4>4. /\ first \in Seq(OutputOf(Bytes)) /\ FilledBy(first, Len(first)) = {}
            /\ FillsFit(placeholders["client"], first, nextTicket)
        BY <1>4, PlainFits
      <4>5. Len(first) = 2 /\ first[1] = Own /\ first[2] = String(CRLF)
        BY <4>3
      <4>6. \A j \in 1..2 : first[j].op # "place" /\ (j = 1 => first[j].op = "own")
        <5>1. \A j \in 1..2 : j = 1 \/ j = 2
          OBVIOUS
        <5> QED
          BY <4>5, <5>1 DEF Own, String
      <4>7. nextTicket \in ReservedBy(first, nextTicket, 2)
        <5>1. 1 \in 1..2 /\ nextTicket = nextTicket + 1 - 1 /\ first[1].op = "own"
          BY <4>2, <4>6
        <5> QED
          BY <5>1 DEF ReservedBy
      <4>8. IsHoleOf(placeholders'["client"], nextTicket)
        <5>1. \A h \in ReservedBy(first, nextTicket, Len(first)) \ FilledBy(first, Len(first)) :
                IsHoleOf(placeholders'["client"], h)
          BY <1>7, <2>1, <4>3, <4>4, OutputsStep DEF OutputInv
        <5> QED
          BY <4>4, <4>5, <4>7, <5>1
      <4>9. << "client", nextTicket >> \notin held'
        <5>1. held' = held
          BY <1>7, <4>5, <4>6 DEF FilterOutputs
        <5>2. << "client", nextTicket >> \in held => nextTicket < nextTicket
          BY <2>1, HeldAreOld DEF OutputInv
        <5> QED
          BY <4>2, <5>1, <5>2
      <4> QED
        BY <4>1, <4>2, <4>8, <4>9
    <3> QED
      BY <1>2, <3>2, <3>3 DEF Conn
  <2> QED
    BY <2>2, <2>4, <2>5 DEF OutputKept, OutputInv
<1> QED
  BY <1>1, <1>6, <1>7 DEF SetUp

\* The callers' strings are strings of bytes.
LEMMA TextsAreBytes ==
  ASSUME NEW s \in CallersTexts, IsString(s)
  PROVE  s \in Seq(Bytes)
PROOF
<1>1. { s[k] : k \in DOMAIN s } \subseteq Bytes
  BY DEF Bytes
<1> QED
  BY <1>1, SeqMonotonic DEF IsString

\* A placeholder is fulfilled between two calls.
LEMMA FulfillKeepsOutput ==
  ASSUME LoopInv, OutputInv, stage = "idle", NEW h \in held, NEW contents \in Contents,
         FulfillHeld(h, contents)
  PROVE  OutputKept
PROOF
<1> DEFINE v == h[1]
           g == h[2]
           phs == placeholders[v]
           q == FulfillPlaceholder(phs, g, contents)
<1>1. /\ placeholders' = [placeholders EXCEPT ![v] = q] /\ held' = held \ {h}
      /\ UNCHANGED << bytesWrittenSoFar, filter, instruction, stage, todo, nextTicket >>
  BY DEF FulfillHeld, loopVars
<1>2. v \in Conn /\ h = << v, g >> /\ IsHoleOf(phs, g)
      /\ \A e \in held : e[1] \in Conn /\ e = << e[1], e[2] >>
  BY DEF LoopInv, LoopTyped, OutputInv, HeldAreHoles
<1>3. /\ placeholders \in [Conn -> Deques(Bytes)] /\ phs \in Deques(Bytes)
      /\ nextTicket \in Nat /\ IdsBelow(phs, nextTicket)
      /\ \A u \in Conn : IdsBelow(placeholders[u], nextTicket)
  BY <1>2 DEF OutputInv, DequesTyped
<1>4. contents \in Seq(Bytes)
  BY TextsAreBytes, StringsAssumption DEF CallersTexts
<1>5. /\ q \in Deques(Bytes) /\ IdsBelow(q, nextTicket) /\ HolesStay(phs, q, {g})
      /\ FilledIn(Bytes, phs, q, g, ByteCells(contents))
  <2> HIDE DEF phs, g, v
  <2> QED
    BY <1>2, <1>3, <1>4, FillKeeps
<1> HIDE DEF q
<1>6. placeholders'[v] = q /\ \A u \in Conn : u # v => placeholders'[u] = placeholders[u]
  BY <1>1, <1>2, <1>3
<1>7. DequesTyped(Bytes, placeholders, nextTicket)'
  <2>1. placeholders' \in [Conn -> Deques(Bytes)]
    BY <1>1, <1>2, <1>3, <1>5
  <2>2. \A u \in Conn : IdsBelow(placeholders'[u], nextTicket)
    BY <1>3, <1>5, <1>6
  <2> QED
    BY <1>1, <1>3, <2>1, <2>2 DEF DequesTyped
<1>8. ASSUME NEW u \in Conn, NEW i, IsHoleOf(placeholders[u], i), << u, i >> # h
      PROVE  IsHoleOf(placeholders'[u], i)
  <2>1. CASE u = v
    BY <1>2, <1>5, <1>6, <1>8, <2>1 DEF HolesStay, phs
  <2>2. CASE u # v
    BY <1>6, <1>8, <2>2
  <2> QED
    BY <2>1, <2>2
<1> HIDE DEF v, g, phs
<1>9. HeldAreHoles'
  <2>1. SUFFICES ASSUME NEW e \in held, e # h PROVE IsHoleOf(placeholders'[e[1]], e[2])
    BY <1>1 DEF HeldAreHoles
  <2>2. e[1] \in Conn /\ e = << e[1], e[2] >> /\ IsHoleOf(placeholders[e[1]], e[2])
    BY <1>2 DEF OutputInv, HeldAreHoles
  <2> QED
    BY <1>8, <2>1, <2>2
<1>10. ChunkIsHole'
  <2>1. SUFFICES ASSUME IsWriting(filter["server"], instruction["server"])
                 PROVE  /\ IsHoleOf(placeholders'["client"], filter["server"].sizePlaceholder)
                        /\ << "client", filter["server"].sizePlaceholder >> \notin held'
    BY <1>1 DEF ChunkIsHole
  <2>2. ~HasEnded /\ ~Waits("server") /\ "client" \in Conn
    BY DEF HasEnded, Waits, Conn
  <2>3. /\ IsHoleOf(placeholders["client"], filter["server"].sizePlaceholder)
        /\ << "client", filter["server"].sizePlaceholder >> \notin held
    BY <2>1, <2>2 DEF OutputInv, ChunkIsHole
  <2> QED
    BY <1>1, <1>8, <2>2, <2>3
<1>11. FiltersTyped' /\ (bytesWrittenSoFar \in [Conn -> Seq(Bytes)])'
  BY <1>1 DEF OutputInv, FiltersTyped, ChunkTyped, Waits
<1>12. IsFilled(CellsOfAll(phs), CellsOfAll(q))
  <2> DEFINE S == Cells(Bytes)
             b == ByteCells(contents)
             hole == HoleCell(g)
  <2>1. PICK x \in Seq(S), y \in Seq(S) :
          /\ CellsOfAll(phs) = (x \o << hole >>) \o y
          /\ CellsOfAll(q) = (x \o b) \o y
    BY <1>5 DEF FilledIn
  <2>2. b \in Seq(S) /\ NoHoles(b)
    BY <1>4, ByteCellsFacts DEF NoHoles
  <2>3. hole \in S /\ IsHoleCell(hole)
    BY <1>2, <1>3, HoleIsOld, CellFacts DEF Cells
  <2> HIDE DEF S, b, hole
  <2> DEFINE f == (x \o b) \o y
  <2>4. f \in Seq(S)
    <3>1. x \o b \in Seq(S)
      BY <2>1, <2>2, ConcatProperties
    <3> QED
      BY <2>1, <3>1, ConcatProperties
  <2>5. << >> \in Seq(S) /\ NewBehind(f, << >>)
    <3>1. << >> \in Seq(S) /\ Len(<< >>) = 0 /\ \A i \in 1..0 : FALSE
      BY EmptySeq
    <3> HIDE DEF f
    <3> QED
      BY <3>1 DEF NewBehind
  <2>6. IsFilled((x \o << hole >>) \o y, f \o << >>)
    BY <2>1, <2>2, <2>3, <2>5, FilledCells
  <2>7. f \o << >> = f
    <3> HIDE DEF f
    <3> QED
      BY <2>4, ConcatEmptySeq
  <2> QED
    BY <2>1, <2>6, <2>7
<1>13. ASSUME NEW u \in Conn PROVE StreamMoves(u)
  <2>1. CASE u = v
    BY <1>1, <1>6, <1>12, <2>1 DEF StreamMoves, CellsStep, phs
  <2>2. CASE u # v
    BY <1>1, <1>6, <2>2 DEF StreamMoves, CellsStep
  <2> QED
    BY <2>1, <2>2
<1> QED
  BY <1>7, <1>9, <1>10, <1>11, <1>13 DEF OutputKept, OutputInv

\* What the front of the deque has is written when it is taken off, if it is anything.
LEMMA FrontIsTaken ==
  ASSUME OutputInv, NEW w \in Conn, HasKnownWritesPending(placeholders[w]),
         NEW b, b = Head(placeholders[w]).contents, NEW q, q = Tail(placeholders[w])
  PROVE  /\ q \in Deques(Bytes) /\ IdsBelow(q, nextTicket) /\ HolesStay(placeholders[w], q, {})
         /\ b \in Seq(Bytes)
         /\ \/ b = << >> /\ CellsOfAll(q) = CellsOfAll(placeholders[w])
            \/ IsWritten(CellsOfAll(placeholders[w]), ByteCells(b), CellsOfAll(q))
PROOF
<1> DEFINE phs == placeholders[w]
<1>1. phs \in Deques(Bytes) /\ nextTicket \in Nat /\ IdsBelow(phs, nextTicket)
  BY DEF OutputInv, DequesTyped
<1> HIDE DEF phs
<1>2. /\ q \in Deques(Bytes) /\ IdsBelow(q, nextTicket) /\ HolesStay(phs, q, {})
      /\ b \in Seq(Bytes) /\ CellsOfAll(phs) = ByteCells(b) \o CellsOfAll(q)
  <2>1. HasKnownWritesPending(phs) /\ b = Head(phs).contents /\ q = Tail(phs)
    BY DEF phs
  <2> QED
    BY <1>1, <2>1, SendTakes
<1>3. CellsOfAll(q) \in Seq(Cells(Bytes))
  BY <1>2, CellsConcat
<1>4. ByteCells(b) \in Seq(Cells(Bytes)) /\ Len(ByteCells(b)) = Len(b) /\ NoHoles(ByteCells(b))
  BY <1>2, ByteCellsFacts DEF NoHoles
<1>5. CASE b = << >>
  <2>1. ByteCells(b) = << >>
    BY <1>4, <1>5, EmptySeq
  <2>2. CellsOfAll(q) = CellsOfAll(phs)
    BY <1>2, <1>3, <2>1, ConcatEmptySeq
  <2> QED
    BY <1>2, <1>5, <2>2 DEF phs
<1>6. CASE b # << >>
  <2> DEFINE c == ByteCells(b)
             y == CellsOfAll(q)
             S == Cells(Bytes)
  <2>1. c # << >>
    BY <1>2, <1>4, <1>6, EmptySeq
  <2>2. c \in Seq(S) /\ y \in Seq(S) /\ NoHoles(c) /\ CellsOfAll(phs) = c \o y
    BY <1>2, <1>3, <1>4
  <2> HIDE DEF c, y, S
  <2>3. IsWritten(c \o y, c, y)
    BY <2>1, <2>2, WrittenCells
  <2>4. IsWritten(CellsOfAll(phs), c, y)
    BY <2>2, <2>3
  <2> QED
    BY <1>2, <2>4 DEF phs, c, y
<1> QED
  BY <1>5, <1>6

\* The front of the deque is sent.
LEMMA SendFrontKeepsOutput ==
  ASSUME LoopInv, OutputInv, NEW w \in Conn, SendFront(w)
  PROVE  OutputKept
PROOF
<1> DEFINE phs == placeholders[w]
           q == Tail(phs)
           b == Head(phs).contents
<1>1. /\ placeholders' = [placeholders EXCEPT ![w] = q]
      /\ bytesWrittenSoFar' = [bytesWrittenSoFar EXCEPT ![w] = @ \o b]
      /\ HasKnownWritesPending(phs)
      /\ UNCHANGED << filter, instruction, held, nextTicket >>
  BY DEF SendFront, SendUnchanged
<1>2. /\ ~HasEnded /\ \A v \in Conn : ~Waits(v)' /\ ~Waits(v)
      /\ "client" \in Conn /\ "server" \in Conn
  BY DEF SendFront, AtEvent, NextEvent, HasEnded, Waits, Conn
<1>3. /\ placeholders \in [Conn -> Deques(Bytes)] /\ phs \in Deques(Bytes)
      /\ nextTicket \in Nat /\ IdsBelow(phs, nextTicket)
      /\ \A u \in Conn : IdsBelow(placeholders[u], nextTicket)
      /\ bytesWrittenSoFar \in [Conn -> Seq(Bytes)]
  BY DEF OutputInv, DequesTyped
<1>4. /\ q \in Deques(Bytes) /\ IdsBelow(q, nextTicket) /\ HolesStay(phs, q, {})
      /\ b \in Seq(Bytes)
      /\ \/ b = << >> /\ CellsOfAll(q) = CellsOfAll(phs)
         \/ IsWritten(CellsOfAll(phs), ByteCells(b), CellsOfAll(q))
  BY <1>1, FrontIsTaken
<1> HIDE DEF q, b
<1>5. /\ placeholders'[w] = q /\ \A u \in Conn : u # w => placeholders'[u] = placeholders[u]
      /\ bytesWrittenSoFar'[w] = bytesWrittenSoFar[w] \o b
      /\ \A u \in Conn : u # w => bytesWrittenSoFar'[u] = bytesWrittenSoFar[u]
  BY <1>1, <1>3
<1>6. DequesTyped(Bytes, placeholders, nextTicket)'
  <2>1. placeholders' \in [Conn -> Deques(Bytes)]
    BY <1>1, <1>3, <1>4
  <2>2. \A u \in Conn : IdsBelow(placeholders'[u], nextTicket)
    BY <1>3, <1>4, <1>5
  <2> QED
    BY <1>1, <1>3, <2>1, <2>2 DEF DequesTyped
<1>7. (bytesWrittenSoFar \in [Conn -> Seq(Bytes)])'
  <2>1. bytesWrittenSoFar[w] \o b \in Seq(Bytes)
    BY <1>3, <1>4, ConcatProperties
  <2> QED
    BY <1>1, <1>3, <2>1
<1>8. ASSUME NEW u \in Conn, NEW i, IsHoleOf(placeholders[u], i)
      PROVE  IsHoleOf(placeholders'[u], i)
  <2>1. CASE u = w
    BY <1>4, <1>5, <1>8, <2>1 DEF HolesStay, phs
  <2>2. CASE u # w
    BY <1>5, <1>8, <2>2
  <2> QED
    BY <2>1, <2>2
<1> HIDE DEF phs
<1>9. HeldAreHoles'
  <2>1. SUFFICES ASSUME NEW e \in held PROVE IsHoleOf(placeholders'[e[1]], e[2])
    BY <1>1 DEF HeldAreHoles
  <2>2. e[1] \in Conn /\ IsHoleOf(placeholders[e[1]], e[2])
    BY DEF OutputInv, HeldAreHoles, LoopInv, LoopTyped
  <2> QED
    BY <1>8, <2>2
<1>10. ChunkIsHole' /\ FiltersTyped'
  <2>1. ChunkIsHole'
    BY <1>1, <1>2, <1>8 DEF OutputInv, ChunkIsHole
  <2>2. FiltersTyped'
    BY <1>1, <1>2 DEF OutputInv, FiltersTyped, ChunkTyped
  <2> QED
    BY <2>1, <2>2
<1>11. StreamMoves(w)
  <2>1. CASE b = << >> /\ CellsOfAll(q) = CellsOfAll(phs)
    <3>1. bytesWrittenSoFar[w] \o b = bytesWrittenSoFar[w]
      BY <1>3, <2>1, ConcatEmptySeq
    <3> QED
      BY <1>5, <2>1, <3>1 DEF StreamMoves, CellsStep, phs
  <2>2. CASE IsWritten(CellsOfAll(phs), ByteCells(b), CellsOfAll(q))
    BY <1>4, <1>5, <2>2 DEF StreamMoves, phs
  <2> QED
    BY <1>4, <2>1, <2>2
<1>12. ASSUME NEW u \in Conn, u # w PROVE StreamMoves(u)
  BY <1>5, <1>12 DEF StreamMoves, CellsStep
<1> QED
  BY <1>6, <1>7, <1>9, <1>10, <1>11, <1>12 DEF OutputKept, OutputInv

\* A new chunked filter has its members.
LEMMA NewChunksAreTyped ==
  ASSUME NEW f, f = ChunkedFilter(f.totalSize, f.subReadSoFar),
         f.totalSize \in Nat \union {UNKNOWN}, f.subReadSoFar \in 0..(SizeValues - 1)
  PROVE  ChunkTyped(f)
PROOF
<1>1. /\ DOMAIN f = ChunkMembers /\ f.chunkString = << >> /\ f.subUnfiltered = << >>
      /\ f.subInstruction = SubFirstInstruction(f.totalSize)
      /\ f.sizePlaceholder = 0 /\ f.charsWritten = 0
  <2>1. \A total, garbage :
          /\ DOMAIN ChunkedFilter(total, garbage) = ChunkMembers
          /\ ChunkedFilter(total, garbage).chunkString = << >>
          /\ ChunkedFilter(total, garbage).subUnfiltered = << >>
          /\ ChunkedFilter(total, garbage).subInstruction = SubFirstInstruction(total)
          /\ ChunkedFilter(total, garbage).sizePlaceholder = 0
          /\ ChunkedFilter(total, garbage).charsWritten = 0
    BY Members DEF ChunkedFilter
  <2> QED
    BY <2>1
<1>2. << >> \in Seq(Bytes)
  BY EmptySeq
<1>3. f.subReadSoFar \in Nat
  BY DEF SizeValues
<1>4. SubFirstInstruction(f.totalSize) \in SubInstructionSet
  <2>1. f.totalSize \in Nat \/ ~IsKnown(f.totalSize)
    BY DEF IsKnown
  <2> DEFINE n == f.totalSize
  <2> HIDE DEF n
  <2>2. 0 \in Nat /\ QuitFilter(0) \in InstructionSet /\ BytesUnknown(0) \in InstructionSet
        /\ \A m \in Nat : BytesMax(m, 0) \in InstructionSet
    BY InstructionsAreTyped
  <2>3. /\ QuitFilter(0).type = "QuitFilter" /\ BytesUnknown(0).type = "BytesUnknown"
        /\ \A m : BytesMax(m, 0).type = "BytesMax"
    BY DEF QuitFilter, BytesUnknown, BytesMax, Instruction
  <2>4. SubFirstInstruction(n) \in SubInstructionSet
    BY <2>1, <2>2, <2>3 DEF SubFirstInstruction, SubInstructionSet, n
  <2> QED
    BY <2>4 DEF n
<1> QED
  BY <1>1, <1>2, <1>3, <1>4 DEF ChunkTyped

\* A call begins.
LEMMA StartKeepsOutput ==
  ASSUME LoopInv, OutputInv, case \in Cases, NEW filters \in FilterPairs[case],
         StartCall(filters)
  PROVE  OutputKept
PROOF
<1>1. /\ stage' = "setup" /\ filter' = filters /\ todo' = << "client", "server" >>
      /\ UNCHANGED << placeholders, bytesWrittenSoFar, held, nextTicket >>
  BY DEF StartCall, sockbufVars, Directions
<1>2. "client" \in Conn /\ "server" \in Conn /\ \A w \in Conn : Waits(w)'
  BY <1>1 DEF Conn, Waits
<1>3. filters["server"].class = "Chunked" => ChunkTyped(filters["server"])
  <2>1. PICK f : f = filters["server"]
    OBVIOUS
  <2>2. f.class = "Chunked" => /\ f = ChunkedFilter(f.totalSize, f.subReadSoFar)
                               /\ f.totalSize \in Nat \union {UNKNOWN}
                               /\ f.subReadSoFar \in 0..(SizeValues - 1)
    BY <2>1, TransferAssumption
  <2>3. f.class = "Chunked" => ChunkTyped(f)
    BY <2>2, NewChunksAreTyped
  <2> QED
    BY <2>1, <2>3
<1>4. ASSUME NEW w \in Conn
      PROVE  /\ filter'[w].class = "Chunked" => ChunkTyped(filter'[w])
             /\ Waits(w)' /\ filter'[w].class = "Passthru" => filter'[w].sendFirst \in Seq(Bytes)
  <2>1. filter'[w].class = "Chunked" => w = "server"
    BY <1>1, TransferAssumption DEF Conn
  <2>2. ASSUME filters[w].class = "Passthru" PROVE filters[w].sendFirst \in Seq(Bytes)
    <3>1. IsString(filters[w].sendFirst)
      BY <2>2, StringsAssumption
    <3>2. filters \in UNION { FilterPairs[c] : c \in Cases }
      OBVIOUS
    <3>3. filters[w].sendFirst \in { filters[v].sendFirst : v \in { v \in Conn : filters[v].class = "Passthru" } }
      BY <2>2
    <3>4. filters[w].sendFirst \in CallersTexts
      BY <3>2, <3>3 DEF CallersTexts
    <3> QED
      BY <3>1, <3>4, TextsAreBytes
  <2> QED
    BY <1>1, <1>3, <2>1, <2>2
<1>5. FiltersTyped'
  BY <1>4 DEF FiltersTyped, ChunkTyped
<1>6. HeldAreHoles' /\ ChunkIsHole'
  BY <1>1, <1>2 DEF OutputInv, HeldAreHoles, ChunkIsHole
<1>7. /\ DequesTyped(Bytes, placeholders, nextTicket)'
      /\ (bytesWrittenSoFar \in [Conn -> Seq(Bytes)])'
  BY <1>1 DEF OutputInv, DequesTyped
<1>8. \A v \in Conn : StreamMoves(v)
  BY <1>1 DEF StreamMoves, CellsStep
<1> QED
  BY <1>5, <1>6, <1>7, <1>8 DEF OutputKept, OutputInv

\* The steps that write nothing, or only fail, and run no filter.
LEMMA OthersKeepOutput ==
  ASSUME OutputInv,
         \/ Decide \/ PollReady \/ PollTimeout \/ PollFails
         \/ \E w \in Conn : \/ SendReset(w) \/ SendBlocks(w) \/ SendFails(w)
                            \/ RecvFails(w) \/ PeerReset(w)
         \/ UNCHANGED vars
  PROVE  OutputKept
PROOF
<1>1. UNCHANGED << placeholders, bytesWrittenSoFar, filter, instruction, held, nextTicket >>
  BY DEF Decide, PollReady, PollTimeout, PollFails, LoopUnchanged, SendReset, SendBlocks,
     SendFails, SendUnchanged, RecvFails, RecvUnchanged, PeerReset, vars, loopVars, sockbufVars
<1>2. \/ UNCHANGED << stage, todo >>
      \/ stage \in {"compute", "poll", "work"} /\ stage' # "setup"
  <2>1. CASE Decide
    BY <2>1 DEF Decide, EndCheck, AtEnd, Leave
  <2>2. CASE PollReady \/ PollTimeout \/ PollFails
    BY <2>2 DEF PollReady, PollTimeout, PollFails, Leave
  <2>3. ASSUME NEW w \in Conn, SendReset(w) \/ SendBlocks(w) \/ SendFails(w)
        PROVE  stage \in {"compute", "poll", "work"} /\ stage' # "setup"
    BY <2>3 DEF SendReset, SendBlocks, SendFails, AtEvent, NextEvent
  <2>4. ASSUME NEW w \in Conn, RecvFails(w)
        PROVE  stage \in {"compute", "poll", "work"} /\ stage' # "setup"
    BY <2>4 DEF RecvFails, AtEvent
  <2>5. ASSUME NEW w \in Conn, PeerReset(w)
        PROVE  UNCHANGED << stage, todo >>
    BY <2>5 DEF PeerReset, loopVars
  <2>6. CASE UNCHANGED vars
    BY <2>6 DEF vars, loopVars
  <2> QED
    BY <2>1, <2>2, <2>3, <2>4, <2>5, <2>6
<1>3. /\ ~HasEnded' => ~HasEnded /\ \A v \in Conn : Waits(v)' <=> Waits(v)
      /\ \A v \in Conn : Waits(v)' => Waits(v)
  BY <1>2 DEF HasEnded, Waits
<1>4. /\ ~HasEnded' => ~HasEnded /\ (Waits("server") => Waits("server")')
      /\ \A v \in Conn : Waits(v)' => Waits(v)
  BY <1>3 DEF Conn
<1> QED
  BY <1>1, <1>4, OutputUntouched

\* At first nothing is written and nothing is to be.
LEMMA OutputInit ==
  ASSUME NEW input, NEW peers, InitWith(input, peers, Conn)
  PROVE  /\ OutputInv
         /\ \A w \in Conn : placeholders[w] = << >> /\ bytesWrittenSoFar[w] = << >>
PROOF
<1>1. /\ placeholders = [w \in Conn |-> << >>] /\ bytesWrittenSoFar = [w \in Conn |-> << >>]
      /\ filter = [w \in Conn |-> DeadFilter] /\ instruction = [w \in Conn |-> QuitFilter(0)]
      /\ stage = "idle" /\ held = {} /\ nextTicket = 0
  BY DEF InitWith
<1>2. DeadFilter.class = "Dead" /\ "server" \in Conn
  BY DEF DeadFilter, Filter, Conn
<1>3. << >> \in Seq(Bytes) /\ << >> \in Deques(Bytes) /\ IdsBelow(<< >>, 0)
  BY DEF Deques, IdsBelow
<1>4. DequesTyped(Bytes, placeholders, nextTicket)
  BY <1>1, <1>3 DEF DequesTyped
<1>5. FiltersTyped
  BY <1>1, <1>2 DEF FiltersTyped
<1>6. HeldAreHoles
  BY <1>1 DEF HeldAreHoles
<1>7. ChunkIsHole
  BY <1>1, <1>2 DEF ChunkIsHole, IsWriting
<1> QED
  BY <1>1, <1>3, <1>4, <1>5, <1>6, <1>7 DEF OutputInv

\* A send that is given up midway: its bytes are recorded as written, and only its
\* placeholder still holds them.
LEMMA SendShortKeepsOutput ==
  ASSUME LoopInv, OutputInv, NEW w \in Conn, SendShort(w)
  PROVE  OutputStepped
PROOF
<1> DEFINE phs == placeholders[w]
           q == Tail(phs)
           b == Head(phs).contents
<1>1. /\ stage = "work" /\ stage' = "shortSend" /\ Head(todo) = << "send", w >>
      /\ bytesWrittenSoFar' = [bytesWrittenSoFar EXCEPT ![w] = @ \o b]
      /\ HasKnownWritesPending(phs)
      /\ UNCHANGED << placeholders, todo, filter, instruction, held, nextTicket >>
  BY DEF SendShort, SendUnchanged, AtEvent
<1>2. /\ b \in Seq(Bytes)
      /\ \/ b = << >> /\ CellsOfAll(q) = CellsOfAll(phs)
         \/ IsWritten(CellsOfAll(phs), ByteCells(b), CellsOfAll(q))
  BY <1>1, FrontIsTaken
<1>3. bytesWrittenSoFar \in [Conn -> Seq(Bytes)]
  BY DEF OutputInv
<1> HIDE DEF b
<1>4. /\ bytesWrittenSoFar'[w] = bytesWrittenSoFar[w] \o b
      /\ \A u \in Conn : u # w => bytesWrittenSoFar'[u] = bytesWrittenSoFar[u]
      /\ bytesWrittenSoFar' \in [Conn -> Seq(Bytes)]
  <2>1. bytesWrittenSoFar[w] \o b \in Seq(Bytes)
    BY <1>2, <1>3, ConcatProperties
  <2> QED
    BY <1>1, <1>3, <2>1
<1>5. /\ Unwritten(w) = phs /\ Unwritten(w)' = q
      /\ \A u \in Conn : u # w => Unwritten(u)' = placeholders[u] /\ Unwritten(u) = placeholders[u]
  BY <1>1 DEF Unwritten
<1> HIDE DEF phs, q
<1>6. OutputInv'
  <2>1. DequesTyped(Bytes, placeholders, nextTicket)'
    BY <1>1 DEF OutputInv, DequesTyped
  <2>2. FiltersTyped'
    BY <1>1 DEF OutputInv, FiltersTyped, ChunkTyped, Waits
  <2>3. HeldAreHoles'
    BY <1>1 DEF OutputInv, HeldAreHoles
  <2>4. ChunkIsHole'
    BY <1>1 DEF ChunkIsHole, HasEnded
  <2> QED
    BY <1>4, <2>1, <2>2, <2>3, <2>4 DEF OutputInv
<1>7. StreamSteps(w)
  <2>1. CASE b = << >> /\ CellsOfAll(q) = CellsOfAll(phs)
    <3>1. bytesWrittenSoFar[w] \o b = bytesWrittenSoFar[w]
      BY <1>3, <2>1, ConcatEmptySeq
    <3> QED
      BY <1>4, <1>5, <2>1, <3>1 DEF StreamSteps, CellsStep
  <2>2. CASE IsWritten(CellsOfAll(phs), ByteCells(b), CellsOfAll(q))
    BY <1>2, <1>4, <1>5, <2>2 DEF StreamSteps
  <2> QED
    BY <1>2, <2>1, <2>2
<1>8. ASSUME NEW u \in Conn, u # w PROVE StreamSteps(u)
  BY <1>4, <1>5, <1>8 DEF StreamSteps, CellsStep
<1> QED
  BY <1>6, <1>7, <1>8 DEF OutputStepped

\* Where no send is given up midway, what is still to be written is in the deques.
LEMMA DequesAreUnwritten ==
  ASSUME OutputKept,
         \/ stage # "shortSend" /\ stage' # "shortSend"
         \/ UNCHANGED << stage, todo, placeholders, bytesWrittenSoFar >>
  PROVE  OutputStepped
PROOF
<1>1. ASSUME NEW v \in Conn PROVE StreamSteps(v)
  <2>1. CASE stage # "shortSend" /\ stage' # "shortSend"
    <3>1. Unwritten(v) = placeholders[v] /\ Unwritten(v)' = placeholders'[v]
      BY <2>1 DEF Unwritten
    <3> QED
      BY <3>1 DEF OutputKept, StreamMoves, StreamSteps
  <2>2. CASE UNCHANGED << stage, todo, placeholders, bytesWrittenSoFar >>
    <3>1. Unwritten(v)' = Unwritten(v) /\ bytesWrittenSoFar'[v] = bytesWrittenSoFar[v]
      BY <2>2 DEF Unwritten
    <3> QED
      BY <3>1 DEF StreamSteps, CellsStep
  <2> QED
    BY <2>1, <2>2
<1> QED
  BY <1>1 DEF OutputKept, OutputStepped

\* No other step of the loop leaves a send midway.
LEMMA OnlyShortSends ==
  ASSUME LoopInv, LinesInv, Loop, \A w \in Conn : ~SendShort(w)
  PROVE  stage # "shortSend" /\ stage' # "shortSend"
PROOF
<1>1. LoopTyped'
  BY LoopKeeps DEF LoopInv
<1>2. stage # "shortSend" /\ (stage' # "shortSend" \/ todo' = << >>)
  <2>1. CASE Setup
    BY <2>1 DEF Setup, FilterHelper, NextSetup
  <2>2. ASSUME NEW w \in Conn, FilterBuffered(w)
        PROVE  stage # "shortSend" /\ (stage' # "shortSend" \/ todo' = << >>)
    BY <2>2 DEF FilterBuffered, FilterHelper
  <2>3. CASE Decide
    BY <2>3 DEF Decide, EndCheck, AtEnd, Leave
  <2>4. CASE PollReady \/ PollTimeout \/ PollFails
    BY <2>4 DEF PollReady, PollTimeout, PollFails, Leave
  <2>5. ASSUME NEW w \in Conn, SendFront(w) \/ SendReset(w) \/ SendBlocks(w) \/ SendFails(w)
        PROVE  stage # "shortSend" /\ stage' # "shortSend"
    BY <2>5 DEF SendFront, SendReset, SendBlocks, SendFails, AtEvent, NextEvent
  <2>6. ASSUME NEW w \in Conn, RecvData(w)
        PROVE  stage # "shortSend" /\ (stage' # "shortSend" \/ todo' = << >>)
    BY <2>6 DEF RecvData, AtEvent, FilterHelper, NextEvent
  <2>7. ASSUME NEW w \in Conn, RecvZero(w) \/ RecvReset(w) \/ RecvFails(w)
        PROVE  stage # "shortSend" /\ (stage' # "shortSend" \/ todo' = << >>)
    BY <2>7 DEF RecvZero, RecvReset, RecvFails, AtEvent, FilterHelper, NextEvent
  <2> QED
    BY <2>1, <2>2, <2>3, <2>4, <2>5, <2>6, <2>7 DEF Loop
<1> QED
  BY <1>1, <1>2 DEF LoopTyped

\* Every step of the loop.
LEMMA LoopKeepsOutput ==
  ASSUME LoopInv, LinesInv, TransferInv, OutputInv, Loop
  PROVE  OutputStepped
PROOF
<1>1. CASE \E w \in Conn : SendShort(w)
  BY <1>1, SendShortKeepsOutput
<1>2. CASE \A w \in Conn : ~SendShort(w)
  <2>1. OutputKept
    <3>1. CASE Setup
      BY <3>1, SetupKeepsOutput
    <3>2. ASSUME NEW w \in Conn,
                 FilterBuffered(w) \/ RecvData(w) \/ RecvZero(w) \/ RecvReset(w)
          PROVE  OutputKept
      BY <3>2, FiltersKeepOutput
    <3>3. CASE Decide \/ PollReady \/ PollTimeout \/ PollFails
      BY <3>3, OthersKeepOutput
    <3>4. ASSUME NEW w \in Conn, SendFront(w)
          PROVE  OutputKept
      BY <3>4, SendFrontKeepsOutput
    <3>5. ASSUME NEW w \in Conn,
                 SendReset(w) \/ SendBlocks(w) \/ SendFails(w) \/ RecvFails(w)
          PROVE  OutputKept
      BY <3>5, OthersKeepOutput
    <3> QED
      BY <1>2, <3>1, <3>2, <3>3, <3>4, <3>5 DEF Loop
  <2> QED
    BY <1>2, <2>1, OnlyShortSends, DequesAreUnwritten
<1> QED
  BY <1>1, <1>2

\* Every step keeps the invariant of the output, and is a step of each stream.
LEMMA OutputsAreKept ==
  IInv /\ LinesInv /\ TransferInv /\ OutputInv /\ [Next]_callerVars => OutputStepped
PROOF
<1> SUFFICES ASSUME IInv, LinesInv, TransferInv, OutputInv, [Next]_callerVars
             PROVE  OutputStepped
  OBVIOUS
<1>1. LoopInv /\ CallsInv
  BY IInvIsLoopInv
<1>2. CASE Call
  <2>1. PICK filters \in FilterPairs[case] : StartCall(filters)
    BY <1>2 DEF Call
  <2>2. OutputKept
    BY <1>1, <2>1, StartKeepsOutput DEF CallsInv
  <2>3. stage = "idle" /\ stage' = "setup"
    BY <2>1 DEF StartCall
  <2> QED
    BY <2>2, <2>3, DequesAreUnwritten
<1>3. CASE Fulfill
  <2>1. PICK h \in held, contents \in Contents : FulfillHeld(h, contents)
    BY <1>3 DEF Fulfill
  <2>2. stage = "idle" /\ stage' = "idle"
    BY <1>3, <2>1 DEF Fulfill, FulfillHeld, loopVars
  <2>3. OutputKept
    BY <1>1, <2>1, <2>2, FulfillKeepsOutput
  <2> QED
    BY <2>2, <2>3, DequesAreUnwritten
<1>4. CASE LoopStep
  BY <1>1, <1>4, LoopKeepsOutput DEF LoopStep
<1>5. CASE (\E w \in Conn : PeerReset(w)) \/ UNCHANGED callerVars
  <2>1. (\E w \in Conn : PeerReset(w)) \/ UNCHANGED vars
    BY <1>5 DEF callerVars
  <2>2. OutputKept
    BY <2>1, OthersKeepOutput
  <2>3. UNCHANGED << stage, todo, placeholders, bytesWrittenSoFar >>
    BY <2>1 DEF PeerReset, vars, loopVars, sockbufVars
  <2> QED
    BY <2>2, <2>3, DequesAreUnwritten
<1> QED
  BY <1>2, <1>3, <1>4, <1>5 DEF Next

-----------------------------------------------------------------------------
(* The streams.                                                            *)

\* A step of the abstract stream, from how its cells change.
LEMMA ClientStreamMoves ==
  ASSUME OutputInv, StreamSteps("client")
  PROVE  [ClientStream!Next]_(ClientStream!hsvars)
PROOF
<1> DEFINE p == CellsOfAll(Unwritten("client"))
           q == CellsOfAll(Unwritten("client")')
           wire == ByteCells(bytesWrittenSoFar["client"])
           sent == ByteCells(bytesWrittenSoFar'["client"])
<1>1. \/ sent = wire /\ (q = p \/ IsExtended(p, q) \/ IsFilled(p, q))
      \/ \E c : sent = wire \o c /\ IsWritten(p, c, q)
  <2>1. CASE /\ bytesWrittenSoFar'["client"] = bytesWrittenSoFar["client"]
             /\ CellsStep(Unwritten("client"), Unwritten("client")')
    BY <2>1 DEF CellsStep
  <2>2. ASSUME NEW b \in Seq(Bytes),
               bytesWrittenSoFar'["client"] = bytesWrittenSoFar["client"] \o b,
               IsWritten(CellsOfAll(Unwritten("client")), ByteCells(b),
                         CellsOfAll(Unwritten("client")'))
        PROVE  \E c : sent = wire \o c /\ IsWritten(p, c, q)
    <3>1. bytesWrittenSoFar["client"] \in Seq(Bytes)
      BY DEF OutputInv, Conn
    <3>2. sent = wire \o ByteCells(b)
      BY <2>2, <3>1, ByteCellsConcat
    <3> HIDE DEF wire, sent, p, q
    <3>3. IsWritten(p, ByteCells(b), q)
      BY <2>2 DEF p, q
    <3> QED
      BY <3>2, <3>3
  <2> QED
    BY <2>1, <2>2 DEF StreamSteps
<1>2. CASE sent = wire /\ q = p
  BY <1>2 DEF ClientStream!hsvars
<1>3. CASE sent = wire /\ IsExtended(p, q)
  <2>1. ClientStream!Extend
    BY <1>3 DEF IsExtended, HolesAreNew, ClientStream!Extend, ClientStream!NewHolesBehind
  <2> QED
    BY <2>1 DEF ClientStream!Next
<1>4. CASE sent = wire /\ IsFilled(p, q)
  <2>1. ClientStream!Fill
    BY <1>4 DEF IsFilled, HolesAreNew, NoHoles, ClientStream!Fill, ClientStream!NewHolesBehind,
                ClientStream!HoleFree, ClientStream!From
  <2> QED
    BY <2>1 DEF ClientStream!Next
<1>5. ASSUME NEW c, sent = wire \o c, IsWritten(p, c, q)
      PROVE  ClientStream!Next
  <2>1. ClientStream!Write
    BY <1>5 DEF IsWritten, NoHoles, ClientStream!Write, ClientStream!HoleFree, ClientStream!From
  <2> QED
    BY <2>1 DEF ClientStream!Next
<1> QED
  BY <1>1, <1>2, <1>3, <1>4, <1>5

\* A step of the abstract stream, from how its cells change.
LEMMA ServerStreamMoves ==
  ASSUME OutputInv, StreamSteps("server")
  PROVE  [ServerStream!Next]_(ServerStream!hsvars)
PROOF
<1> DEFINE p == CellsOfAll(Unwritten("server"))
           q == CellsOfAll(Unwritten("server")')
           wire == ByteCells(bytesWrittenSoFar["server"])
           sent == ByteCells(bytesWrittenSoFar'["server"])
<1>1. \/ sent = wire /\ (q = p \/ IsExtended(p, q) \/ IsFilled(p, q))
      \/ \E c : sent = wire \o c /\ IsWritten(p, c, q)
  <2>1. CASE /\ bytesWrittenSoFar'["server"] = bytesWrittenSoFar["server"]
             /\ CellsStep(Unwritten("server"), Unwritten("server")')
    BY <2>1 DEF CellsStep
  <2>2. ASSUME NEW b \in Seq(Bytes),
               bytesWrittenSoFar'["server"] = bytesWrittenSoFar["server"] \o b,
               IsWritten(CellsOfAll(Unwritten("server")), ByteCells(b),
                         CellsOfAll(Unwritten("server")'))
        PROVE  \E c : sent = wire \o c /\ IsWritten(p, c, q)
    <3>1. bytesWrittenSoFar["server"] \in Seq(Bytes)
      BY DEF OutputInv, Conn
    <3>2. sent = wire \o ByteCells(b)
      BY <2>2, <3>1, ByteCellsConcat
    <3> HIDE DEF wire, sent, p, q
    <3>3. IsWritten(p, ByteCells(b), q)
      BY <2>2 DEF p, q
    <3> QED
      BY <3>2, <3>3
  <2> QED
    BY <2>1, <2>2 DEF StreamSteps
<1>2. CASE sent = wire /\ q = p
  BY <1>2 DEF ServerStream!hsvars
<1>3. CASE sent = wire /\ IsExtended(p, q)
  <2>1. ServerStream!Extend
    BY <1>3 DEF IsExtended, HolesAreNew, ServerStream!Extend, ServerStream!NewHolesBehind
  <2> QED
    BY <2>1 DEF ServerStream!Next
<1>4. CASE sent = wire /\ IsFilled(p, q)
  <2>1. ServerStream!Fill
    BY <1>4 DEF IsFilled, HolesAreNew, NoHoles, ServerStream!Fill, ServerStream!NewHolesBehind,
                ServerStream!HoleFree, ServerStream!From
  <2> QED
    BY <2>1 DEF ServerStream!Next
<1>5. ASSUME NEW c, sent = wire \o c, IsWritten(p, c, q)
      PROVE  ServerStream!Next
  <2>1. ServerStream!Write
    BY <1>5 DEF IsWritten, NoHoles, ServerStream!Write, ServerStream!HoleFree, ServerStream!From
  <2> QED
    BY <2>1 DEF ServerStream!Next
<1> QED
  BY <1>1, <1>2, <1>3, <1>4, <1>5

-----------------------------------------------------------------------------
(* The theorems on the streams.                                            *)

\* The deques are what the streams are made of: placeholders of bytes with tickets
\* that were given out, the held ones and the one of the chunk a filter is writing
\* each a hole.
THEOREM OutputInvariance == Spec => []OutputInv
PROOF
<1>1. Init => OutputInv
  <2> SUFFICES ASSUME Init PROVE OutputInv
    OBVIOUS
  <2>1. PICK input \in Inputs[case], peers \in Peers : InitWith(input, peers, Conn)
    BY DEF Init
  <2> QED
    BY <2>1, OutputInit
<1>2. IInv /\ LinesInv /\ TransferInv /\ OutputInv /\ [Next]_callerVars => OutputInv'
  BY OutputsAreKept DEF OutputStepped
<1> QED
  BY <1>1, <1>2, Invariance, TransferInvariance, PTL DEF Spec

\* Whatever the filters are, a chunked one that counts its chunks behind a placeholder
\* among them, whatever the peers send and wherever a call times out or fails: what
\* is written to each connection is an output stream with holes.  Nothing written
\* is lost, doubled or moved, nothing overtakes a hole, and a hole is filled once.
THEOREM StreamsAreImplemented == Spec => ImplementsHoleStreams
PROOF
<1>1. Init => ClientStream!Init /\ ServerStream!Init
  <2> SUFFICES ASSUME Init PROVE ClientStream!Init /\ ServerStream!Init
    OBVIOUS
  <2>1. PICK input \in Inputs[case], peers \in Peers : InitWith(input, peers, Conn)
    BY DEF Init
  <2>2. \A w \in Conn : Unwritten(w) = << >> /\ bytesWrittenSoFar[w] = << >>
    <3>1. \A w \in Conn : placeholders[w] = << >> /\ bytesWrittenSoFar[w] = << >>
      BY <2>1, OutputInit
    <3>2. stage = "idle"
      BY <2>1 DEF InitWith
    <3> QED
      BY <3>1, <3>2 DEF Unwritten
  <2>3. \A w \in Conn : /\ CellsOfAll(Unwritten(w)) = << >>
                        /\ ByteCells(bytesWrittenSoFar[w]) = << >>
    <3>1. Hole(0) \in PlaceholderOf(Bytes)
      BY DEF Hole, PlaceholderOf
    <3>2. CellsOfAll(<< >>) = << >>
      BY <3>1, CellsOfShort
    <3>3. ByteCells(<< >>) = << >>
      BY DEF ByteCells
    <3> QED
      BY <2>2, <3>2, <3>3
  <2>4. "client" \in Conn /\ "server" \in Conn
    BY DEF Conn
  <2> QED
    BY <2>3, <2>4 DEF ClientStream!Init, ServerStream!Init, ClientStream!HoleFree,
                      ServerStream!HoleFree
<1>2. IInv /\ LinesInv /\ TransferInv /\ OutputInv /\ [Next]_callerVars =>
        [ClientStream!Next]_(ClientStream!hsvars)
  <2>1. "client" \in Conn
    BY DEF Conn
  <2> QED
    BY <2>1, OutputsAreKept, ClientStreamMoves DEF OutputStepped
<1>3. IInv /\ LinesInv /\ TransferInv /\ OutputInv /\ [Next]_callerVars =>
        [ServerStream!Next]_(ServerStream!hsvars)
  <2>1. "server" \in Conn
    BY DEF Conn
  <2> QED
    BY <2>1, OutputsAreKept, ServerStreamMoves DEF OutputStepped
<1> QED
  BY <1>1, <1>2, <1>3, Invariance, TransferInvariance, OutputInvariance, PTL
     DEF Spec, ImplementsHoleStreams, ClientStream!HSpec, ServerStream!HSpec

=============================================================================
