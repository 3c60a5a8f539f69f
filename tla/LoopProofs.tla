------------------------------ MODULE LoopProofs ------------------------------
(***************************************************************************)
(* Lemmas about the filters and the event loop, whoever calls it, for all  *)
(* inputs of the peers and all filters.                                    *)
(*                                                                         *)
(* First, every run of a filter commits all the bytes it was given, or     *)
(* ends the loop and commits none; this is shown filter by filter, those   *)
(* of chunked bodies included.  So nothing is ever uncommitted between two *)
(* steps.  Then, a direction whose socket is to be read has an instruction *)
(* that the bytes at hand do not satisfy, and what is still to be read     *)
(* fits the instruction (ReadsAreFresh): a recv then moves no byte that is *)
(* not there, and no byte past the size of a PassthruFilter.  LoopInv is   *)
(* the conjunction that the steps keep; it needs that a pass handles an    *)
(* event once (TodoIsOrdered), as the instruction is a new one after it.   *)
(*                                                                         *)
(* Last, what the filters of lines have committed in a call is made of     *)
(* whole lines (LinesInv): the bytes through a delimiter have it at their  *)
(* end and hold no other, and behind whole lines they add one delimiter.   *)
(*                                                                         *)
(* At the end, what the outputs of a run, one after the other, make of the *)
(* deque they go to (OutputsStep).                                         *)
(***************************************************************************)
EXTENDS Parasock, Induction

-----------------------------------------------------------------------------
(* Sequences and numbers.                                                  *)

\* A stream is what has been taken from its front, and the rest.
LEMMA Split ==
  ASSUME NEW S, NEW s \in Seq(S), NEW n \in 0..Len(s)
  PROVE  /\ SubSeq(s, 1, n) \in Seq(S)
         /\ From(s, n + 1) \in Seq(S)
         /\ Len(SubSeq(s, 1, n)) = n
         /\ Len(From(s, n + 1)) = Len(s) - n
         /\ SubSeq(s, 1, n) \o From(s, n + 1) = s
         /\ n = Len(s) => From(s, n + 1) = << >>
PROOF
<1>1. Len(s) \in Nat /\ \A i \in 1..Len(s) : s[i] \in S
  BY LenProperties, ElementOfSeq
<1>2. SubSeq(s, 1, n) \in Seq(S) /\ Len(SubSeq(s, 1, n)) = n
  BY <1>1, SubSeqProperties
<1>3. /\ From(s, n + 1) \in Seq(S)
      /\ Len(From(s, n + 1)) = Len(s) - n
  BY <1>1, SubSeqProperties DEF From
<1>4. SubSeq(s, 1, n) \o From(s, n + 1) = SubSeq(s, 1, Len(s))
  <2>1. 1 \in 1..(Len(s) + 1) /\ n \in (1 - 1)..Len(s) /\ Len(s) \in n..Len(s)
    BY <1>1
  <2> QED
    BY <2>1, ConcatAdjacentSubSeq DEF From
<1>5. n = Len(s) => From(s, n + 1) = << >>
  BY <1>1, SubSeqEmpty DEF From
<1>6. SubSeq(s, 1, Len(s)) = s
  BY SubSeqFull
<1> QED
  BY <1>2, <1>3, <1>4, <1>5, <1>6

\* The delimiter ends within the string.
LEMMA DelimiterIsInside ==
  ASSUME NEW S, NEW s \in Seq(S)
  PROVE  ThroughDelimiter(s) \in 0..Len(s)
PROOF
<1>1. Len(s) \in Nat
  BY LenProperties
<1>2. DelimiterAt(s) \subseteq 1..(Len(s) - 1)
  BY DEF DelimiterAt
<1>3. CASE DelimiterAt(s) = {}
  BY <1>1, <1>3 DEF ThroughDelimiter
<1>4. CASE DelimiterAt(s) # {}
  <2> DEFINE first == CHOOSE p \in DelimiterAt(s) : \A q \in DelimiterAt(s) : p <= q
  <2>1. \E p \in DelimiterAt(s) : \A q \in DelimiterAt(s) : p <= q
    BY <1>1, <1>2, <1>4, Minimum
  <2>2. first \in DelimiterAt(s)
    BY <2>1
  <2>3. ThroughDelimiter(s) = 1 + first
    BY <1>4 DEF ThroughDelimiter
  <2> HIDE DEF first
  <2> QED
    BY <1>1, <1>2, <2>2, <2>3
<1> QED
  BY <1>3, <1>4

\* A size line gives a size, whatever is in it.
LEMMA ScannedIsSize ==
  ASSUME NEW S, NEW line \in Seq(S)
  PROVE  ScanHex(line) \in Nat
PROOF
<1>0. DOMAIN line = 1..Len(line) /\ Len(line) \in Nat
  BY LenProperties
<1>1. ASSUME NEW j
      PROVE  LastDigit(line, 16, j) \in 0..15
  <2> DEFINE k == Cardinality(Leading(line, 16)) - j
  <2>1. CASE k \in Leading(line, 16)
    <3>1. IsDigit(line[k])
      BY <1>0, <2>1 DEF Leading
    <3>2. DigitValue(line[k]) \in 0..15
      BY <3>1, SMTT(60) DEF IsDigit, DigitValue
    <3> QED
      BY <2>1, <3>1, <3>2 DEF LastDigit
  <2>2. CASE k \notin Leading(line, 16)
    BY <2>2 DEF LastDigit
  <2> QED
    BY <2>1, <2>2
<1> DEFINE a == LastDigit(line, 16, 1)
           b == LastDigit(line, 16, 0)
<1>2. a \in 0..15 /\ b \in 0..15
  BY <1>1
<1>3. ScanHex(line) = 16 * a + b
  BY DEF ScanHex, Scan
<1> HIDE DEF a, b
<1> QED
  BY <1>2, <1>3

-----------------------------------------------------------------------------
(* What the runs of the filters return.                                    *)

InstructionSet ==
  [type : {"QuitFilter", "ThruDelimiter", "BytesMax", "BytesExact", "BytesUnknown"},
   count : Nat, commitSize : Nat]

\* A run on n bytes of a filter of the class returns an instruction, and commits
\* them all or ends the loop.
IsRun(ran, class, n) ==
  /\ ran.ended \in {"ok", "thrown", "asserted", "looping"}
  /\ ran.instruction \in InstructionSet
  /\ ran.instruction.commitSize = IF ran.ended = "ok" THEN n ELSE 0
  /\ IsFilter(ran.filter) /\ ran.filter.class = class
  /\ \E S : ran.outputs \in Seq(S)

\* The constructors of instructions.
LEMMA InstructionsAreTyped ==
  ASSUME NEW k \in Nat, NEW n \in Nat
  PROVE  /\ QuitFilter(k) \in InstructionSet /\ QuitFilter(k).commitSize = k
         /\ ThruDelimiter(k) \in InstructionSet /\ ThruDelimiter(k).commitSize = k
         /\ BytesMax(n, k) \in InstructionSet /\ BytesMax(n, k).commitSize = k
         /\ BytesExact(n, k) \in InstructionSet /\ BytesExact(n, k).commitSize = k
         /\ BytesUnknown(k) \in InstructionSet /\ BytesUnknown(k).commitSize = k
BY DEF InstructionSet, Instruction, QuitFilter, ThruDelimiter, BytesMax, BytesExact,
       BytesUnknown

\* A run that returns an instruction, and one that ends the loop.
LEMMA RanIsRun ==
  ASSUME NEW f, IsFilter(f), NEW inst \in InstructionSet, NEW S, NEW outputs \in Seq(S)
  PROVE  IsRun(Ran(f, inst, outputs), f.class, inst.commitSize)
BY DEF IsRun, Ran

LEMMA EndedIsRun ==
  ASSUME NEW f, IsFilter(f), NEW how \in {"thrown", "asserted", "looping"}, NEW n
  PROVE  IsRun(Ended(f, how), f.class, n)
PROOF
<1>1. QuitFilter(0) \in InstructionSet /\ QuitFilter(0).commitSize = 0
  BY InstructionsAreTyped
<1>2. << >> \in Seq({})
  BY EmptySeq
<1> QED
  BY <1>1, <1>2 DEF IsRun, Ran, Ended

\* RequestLineFilter and ResponseLineFilter.
LEMMA OneLineRuns ==
  ASSUME NEW S, NEW bytes \in Seq(S), NEW disc \in BOOLEAN, NEW f, IsFilter(f)
  PROVE  IsRun(RunOneLine(f, bytes, disc), f.class, Len(bytes))
PROOF
<1>1. Len(bytes) \in Nat
  BY LenProperties
<1>2. /\ << >> \in Seq({Place}) /\ << Place >> \in Seq({Place})
      /\ << String(bytes) >> \in Seq({String(bytes)})
  OBVIOUS
<1>3. /\ QuitFilter(Len(bytes)) \in InstructionSet
      /\ QuitFilter(Len(bytes)).commitSize = Len(bytes)
      /\ ThruDelimiter(Len(bytes)) \in InstructionSet
      /\ ThruDelimiter(Len(bytes)).commitSize = Len(bytes)
  BY <1>1, InstructionsAreTyped
<1>4. /\ IsRun(Ended(f, "thrown"), f.class, Len(bytes))
      /\ IsRun(Ended(f, "asserted"), f.class, Len(bytes))
      /\ IsRun(Ended(f, "looping"), f.class, Len(bytes))
  BY EndedIsRun
<1>5. /\ IsRun(Ran(f, ThruDelimiter(Len(bytes)), << >>), f.class, Len(bytes))
      /\ IsRun(Ran(f, QuitFilter(Len(bytes)), << Place >>), f.class, Len(bytes))
      /\ IsRun(Ran(f, QuitFilter(Len(bytes)), << String(bytes) >>), f.class, Len(bytes))
  BY <1>2, <1>3, RanIsRun
<1> QED
  BY <1>4, <1>5 DEF RunOneLine

\* HttpHeaderFilter.
LEMMA HeaderRuns ==
  ASSUME NEW S, NEW bytes \in Seq(S), NEW disc \in BOOLEAN, NEW f, IsFilter(f)
  PROVE  IsRun(RunHeader(f, bytes, disc), f.class, Len(bytes))
PROOF
<1>1. Len(bytes) \in Nat
  BY LenProperties
<1>2. << >> \in Seq({Place}) /\ << Place, Place, Place >> \in Seq({Place})
  OBVIOUS
<1>3. /\ QuitFilter(Len(bytes)) \in InstructionSet
      /\ QuitFilter(Len(bytes)).commitSize = Len(bytes)
      /\ ThruDelimiter(Len(bytes)) \in InstructionSet
      /\ ThruDelimiter(Len(bytes)).commitSize = Len(bytes)
  BY <1>1, InstructionsAreTyped
<1>4. /\ IsRun(Ended(f, "thrown"), f.class, Len(bytes))
      /\ IsRun(Ended(f, "asserted"), f.class, Len(bytes))
  BY EndedIsRun
<1>5. /\ IsRun(Ran(f, ThruDelimiter(Len(bytes)), << >>), f.class, Len(bytes))
      /\ IsRun(Ran(f, QuitFilter(Len(bytes)), << Place, Place, Place >>), f.class, Len(bytes))
  BY <1>2, <1>3, RanIsRun
<1>6. bytes = CRLF => Len(bytes) = 2
  BY DEF CRLF
<1> QED
  BY <1>4, <1>5, <1>6 DEF RunHeader

\* A plain filter has an instruction for each of its total sizes.
LEMMA SubInstructionIsTyped ==
  ASSUME NEW total \in Nat \union {UNKNOWN}, NEW soFar \in Nat, NEW n \in Nat,
         SubCoreAccepts(total, soFar)
  PROVE  /\ SubInstruction(total, soFar, n) \in InstructionSet
         /\ SubInstruction(total, soFar, n).commitSize = n
PROOF
<1>1. CASE total = soFar
  BY <1>1, InstructionsAreTyped DEF SubInstruction
<1>2. CASE total # soFar /\ IsKnown(total)
  <2>1. total - soFar \in Nat
    BY <1>2 DEF SubCoreAccepts, IsKnown, UNKNOWN
  <2> QED
    BY <1>2, <2>1, InstructionsAreTyped DEF SubInstruction
<1>3. CASE total # soFar /\ ~IsKnown(total)
  BY <1>3, InstructionsAreTyped DEF SubInstruction
<1> QED
  BY <1>1, <1>2, <1>3

\* The instruction of a filter that lets a known size through is for the rest of it.
ThroughFits(f, inst, soFar) ==
  f.class \in {"Passthru", "Data"} /\ IsKnown(f.totalSize) =>
    /\ soFar <= f.totalSize
    /\ \/ inst.type = "QuitFilter" /\ soFar = f.totalSize
       \/ /\ inst.type = "BytesMax"
          /\ inst.count = f.totalSize - soFar /\ inst.count > 0

\* PassthruFilter and PcreDataFilter.
LEMMA ThroughRuns ==
  ASSUME NEW S, NEW bytes \in Seq(S), NEW disc \in BOOLEAN, NEW soFar \in Nat,
         NEW f, IsFilter(f), f.class \in {"Passthru", "Data"}
  PROVE  LET ran == RunThrough(f, bytes, soFar, disc)
         IN  /\ IsRun(ran, f.class, Len(bytes))
             /\ ran.ended = "ok" => ThroughFits(ran.filter, ran.instruction, soFar)
             /\ ran.ended # "ok" => ran.filter = f
PROOF
<1>1. Len(bytes) \in Nat
  BY LenProperties
<1> DEFINE total == IF disc /\ ~IsKnown(f.totalSize) THEN soFar ELSE f.totalSize
           out == LetThrough(f, bytes)
           g == [f EXCEPT !.totalSize = total]
           inst == SubInstruction(total, soFar, Len(bytes))
           ran == RunThrough(f, bytes, soFar, disc)
<1>2. total \in Nat \union {UNKNOWN}
  BY DEF IsFilter
<1>3. IsFilter(g) /\ g.class = f.class /\ g.totalSize = total
  BY <1>2 DEF IsFilter
<1>4. << String(out) >> \in Seq({String(out)})
  OBVIOUS
<1>5. CASE \/ disc /\ soFar < total
           \/ ~SubCoreAccepts(total, soFar)
           \/ MustBeShort(f, disc)
  <2>1. ran = Ended(f, "thrown") \/ ran = Ended(f, "asserted")
    BY <1>5 DEF RunThrough
  <2>2. ran.ended # "ok" /\ ran.filter = f
    BY <2>1 DEF Ended, Ran
  <2> QED
    BY <2>1, <2>2, EndedIsRun
<1>6. CASE ~ \/ disc /\ soFar < total
             \/ ~SubCoreAccepts(total, soFar)
             \/ MustBeShort(f, disc)
  <2>1. ran = Ran(g, inst, << String(out) >>)
    BY <1>6 DEF RunThrough
  <2>2. inst \in InstructionSet /\ inst.commitSize = Len(bytes)
    BY <1>1, <1>2, <1>6, SubInstructionIsTyped, ZenonT(60)
  <2>3. IsRun(ran, f.class, Len(bytes))
    BY <1>3, <1>4, <2>1, <2>2, RanIsRun
  <2>4. ThroughFits(g, inst, soFar)
    <3>1. SUFFICES ASSUME IsKnown(total)
                   PROVE  /\ soFar <= total
                          /\ \/ inst.type = "QuitFilter" /\ soFar = total
                             \/ /\ inst.type = "BytesMax"
                                /\ inst.count = total - soFar /\ inst.count > 0
      BY <1>3 DEF ThroughFits
    <3>2. soFar <= total /\ total \in Nat
      BY <1>2, <1>6, <3>1 DEF SubCoreAccepts, IsKnown
    <3> QED
      BY <3>1, <3>2 DEF SubInstruction, QuitFilter, BytesMax, Instruction
  <2>5. ran.ended = "ok" /\ ran.filter = g /\ ran.instruction = inst
    BY <2>1 DEF Ran
  <2> QED
    BY <2>3, <2>4, <2>5
<1> QED
  BY <1>5, <1>6

\* Each runFilter of a chunked body: the size lines, the data, the CRLFs.
LEMMA NextStateIsFilter ==
  ASSUME NEW f, IsFilter(f), f.class = "Chunked"
  PROVE  IsFilter(InNextState(f)) /\ InNextState(f).class = "Chunked"
BY DEF IsFilter, InNextState, NextChunkState

\* The size line of a chunk.
LEMMA SizeLineRuns ==
  ASSUME NEW S, NEW line \in Seq(S), NEW f, IsFilter(f), f.class = "Chunked",
         NEW T, NEW outputs \in Seq(T)
  PROVE  IsRun(RunSizeLine(f, line, outputs), f.class, Len(line))
PROOF
<1> DEFINE size == ScanHex(line)
           ended == [f EXCEPT !.totalSize = f.subReadSoFar,
                              !.filteredCharsSent = @ + f.charsWritten,
                              !.contentLengthFiltered = f.filteredCharsSent + f.charsWritten]
           sized == [f EXCEPT !.chunkSize = size]
           last == FinishChunk(f) \o << String(<< "0" >> \o CRLF) >>
           U == T \union { FinishChunk(f)[1], String(CRLF), String(<< "0" >> \o CRLF) }
<1>1. Len(line) \in Nat
  BY LenProperties
<1>2. size \in Nat
  BY ScannedIsSize
<1>3. /\ IsRun(Ended(f, "thrown"), f.class, Len(line))
      /\ IsRun(Ended(f, "asserted"), f.class, Len(line))
  BY EndedIsRun
<1>4. CASE Len(line) >= 3 /\ size # 0
  <2>1. IsFilter(sized) /\ sized.class = "Chunked"
    BY DEF IsFilter
  <2>2. IsFilter(InNextState(sized)) /\ InNextState(sized).class = f.class
    BY <2>1, NextStateIsFilter
  <2>3. /\ BytesExact(size, Len(line)) \in InstructionSet
        /\ BytesExact(size, Len(line)).commitSize = Len(line)
    BY <1>1, <1>2, InstructionsAreTyped
  <2>4. RunSizeLine(f, line, outputs)
          = Ran(InNextState(sized), BytesExact(size, Len(line)), outputs)
    BY <1>1, <1>4 DEF RunSizeLine
  <2> QED
    BY <2>2, <2>3, <2>4, RanIsRun
<1>5. CASE Len(line) >= 3 /\ size = 0 /\ f.subUnfiltered = << >>
  <2>1. IsFilter(ended) /\ ended.class = "Chunked"
    BY DEF IsFilter
  <2>2. IsFilter(InNextState(ended)) /\ InNextState(ended).class = f.class
    BY <2>1, NextStateIsFilter
  <2>3. QuitFilter(Len(line)) \in InstructionSet /\ QuitFilter(Len(line)).commitSize = Len(line)
    BY <1>1, InstructionsAreTyped
  <2>4. FinishChunk(f) \in Seq(U) /\ << String(<< "0" >> \o CRLF) >> \in Seq(U)
    BY DEF FinishChunk
  <2>5. outputs \in Seq(U)
    BY SeqMonotonic
  <2>6. outputs \o FinishChunk(f) \o << String(<< "0" >> \o CRLF) >> \in Seq(U)
    <3> HIDE DEF U
    <3> QED
      BY <2>4, <2>5, ConcatProperties
  <2>7. RunSizeLine(f, line, outputs)
          = Ran(InNextState(ended), QuitFilter(Len(line)),
                outputs \o FinishChunk(f) \o << String(<< "0" >> \o CRLF) >>)
    BY <1>5 DEF RunSizeLine
  <2> QED
    BY <2>2, <2>3, <2>6, <2>7, RanIsRun
<1>6. CASE Len(line) >= 3 /\ size = 0 /\ f.subUnfiltered # << >>
  BY <1>3, <1>6 DEF RunSizeLine
<1>7. CASE Len(line) < 3
  BY <1>1, <1>3, <1>7 DEF RunSizeLine
<1> QED
  BY <1>1, <1>4, <1>5, <1>6, <1>7

\* The size line of every chunk but the first: what was collected is written before.
LEMMA NextSizeRuns ==
  ASSUME NEW S, NEW line \in Seq(S), NEW f, IsFilter(f), f.class = "Chunked", NEW ticket
  PROVE  IsRun(RunNextSize(f, line, ticket), f.class, Len(line))
PROOF
<1> DEFINE fed == Fed(f, f.chunkString)
           g == WithFed(f, fed)
           written == << String(fed.output) >> \o FinishChunk(g)
           sent == [g EXCEPT !.filteredCharsSent = @ + g.charsWritten]
           next == WithChunk(sent, ticket + Len(written))
           result == IF fed.goes = "asserted" THEN Ended(f, "asserted")
                     ELSE RunSizeLine(next, line, written \o NewChunk)
           U == { String(fed.output), FinishChunk(g)[1], String(CRLF), Own }
<1>1. CASE f.chunkString = << >>
  <2>1. << >> \in Seq({})
    BY EmptySeq
  <2> QED
    BY <1>1, <2>1, SizeLineRuns DEF RunNextSize
<1>2. CASE f.chunkString # << >>
  <2>1. RunNextSize(f, line, ticket) = result
    BY <1>2 DEF RunNextSize, Once
  <2>2. IsFilter(g) /\ g.class = "Chunked"
    <3> HIDE DEF fed
    <3> QED
      BY DEF IsFilter, WithFed
  <2>3. IsFilter(next) /\ next.class = "Chunked"
    <3> HIDE DEF g, written
    <3>1. IsFilter(sent) /\ sent.class = "Chunked"
      BY <2>2 DEF IsFilter
    <3> HIDE DEF sent
    <3> QED
      BY <3>1 DEF IsFilter, WithChunk
  <2>4. written \o NewChunk \in Seq(U)
    <3> HIDE DEF fed, g
    <3>1. /\ << String(fed.output) >> \in Seq(U)
          /\ FinishChunk(g) \in Seq(U)
          /\ NewChunk \in Seq(U)
      BY DEF FinishChunk, NewChunk
    <3> HIDE DEF U
    <3> QED
      BY <3>1, ConcatProperties
  <2>5. IsRun(RunSizeLine(next, line, written \o NewChunk), f.class, Len(line))
    <3> HIDE DEF next, written, U
    <3> QED
      BY <2>3, <2>4, SizeLineRuns
  <2>6. IsRun(Ended(f, "asserted"), f.class, Len(line))
    BY EndedIsRun
  <2> HIDE DEF fed, next, written
  <2> QED
    BY <2>1, <2>5, <2>6
<1> QED
  BY <1>1, <1>2

\* DataFilter in each of its states.
LEMMA ChunkedRuns ==
  ASSUME NEW S, NEW bytes \in Seq(S), NEW disc \in BOOLEAN, NEW soFar \in Nat,
         NEW f, IsFilter(f), f.class = "Chunked", NEW ticket
  PROVE  IsRun(RunChunked(f, bytes, soFar, disc, ticket), f.class, Len(bytes))
PROOF
<1>1. Len(bytes) \in Nat
  BY LenProperties
<1>2. << >> \in Seq({})
  BY EmptySeq
<1>3. f.chunkState \in {"BeginChunk", "ReadChunkSize", "ReadChunkData", "ReadChunkCrLf"}
  BY DEF IsFilter, NextChunkState
<1>4. /\ IsRun(Ended(f, "thrown"), f.class, Len(bytes))
      /\ IsRun(Ended(f, "asserted"), f.class, Len(bytes))
  BY EndedIsRun
<1>5. /\ ThruDelimiter(Len(bytes)) \in InstructionSet
      /\ ThruDelimiter(Len(bytes)).commitSize = Len(bytes)
  BY <1>1, InstructionsAreTyped
<1>6. IsRun(RunSizeLine(f, bytes, << >>), f.class, Len(bytes))
  BY <1>2, SizeLineRuns
<1>7. IsRun(RunNextSize(f, bytes, ticket), f.class, Len(bytes))
  BY NextSizeRuns
<1>8. IsRun(RunChunkData(f, bytes), f.class, Len(bytes))
  <2> DEFINE g == [f EXCEPT !.chunkString = @ \o bytes]
  <2>1. IsFilter(g) /\ g.class = "Chunked"
    BY DEF IsFilter
  <2>2. IsFilter(InNextState(g)) /\ InNextState(g).class = f.class
    BY <2>1, NextStateIsFilter
  <2>3. IsRun(Ran(InNextState(g), ThruDelimiter(Len(bytes)), << >>), f.class, Len(bytes))
    BY <1>2, <1>5, <2>2, RanIsRun
  <2> QED
    BY <1>4, <2>3 DEF RunChunkData
<1>9. IsRun(RunChunkCrLf(f, bytes), f.class, Len(bytes))
  <2>1. IsFilter(InNextState(f)) /\ InNextState(f).class = f.class
    BY NextStateIsFilter
  <2>2. IsRun(Ran(InNextState(f), ThruDelimiter(Len(bytes)), << >>), f.class, Len(bytes))
    BY <1>2, <1>5, <2>1, RanIsRun
  <2>3. bytes = CRLF => Len(bytes) = 2
    BY DEF CRLF
  <2> QED
    BY <1>4, <2>2, <2>3 DEF RunChunkCrLf
<1>10. IsRun(RunCutOff(f, soFar), f.class, Len(bytes))
  BY <1>4 DEF RunCutOff
<1> QED
  BY <1>3, <1>6, <1>7, <1>8, <1>9, <1>10 DEF RunChunked

-----------------------------------------------------------------------------

\* runFilter of every class.
LEMMA FiltersRun ==
  ASSUME NEW S, NEW bytes \in Seq(S), NEW disc \in BOOLEAN, NEW soFar \in Nat,
         NEW f, IsFilter(f), NEW ticket
  PROVE  LET ran == RunFilter(f, bytes, soFar, disc, ticket)
         IN  /\ IsRun(ran, f.class, Len(bytes))
             /\ f.class \in {"Passthru", "Data"} /\ ran.ended = "ok" =>
                  ThroughFits(ran.filter, ran.instruction, soFar)
             /\ f.class \in {"Passthru", "Data"} /\ ran.ended # "ok" => ran.filter = f
PROOF
<1>1. CASE f.class = "Dead"
  BY <1>1, EndedIsRun DEF RunFilter, RunDead
<1>2. CASE f.class \in {"RequestLine", "ResponseLine"}
  BY <1>2, OneLineRuns DEF RunFilter
<1>3. CASE f.class = "Header"
  BY <1>3, HeaderRuns DEF RunFilter
<1>4. CASE f.class \in {"Passthru", "Data"}
  <2>1. RunFilter(f, bytes, soFar, disc, ticket) = RunThrough(f, bytes, soFar, disc)
    BY <1>4 DEF RunFilter
  <2> QED
    BY <1>4, <2>1, ThroughRuns
<1>5. CASE f.class = "Chunked"
  BY <1>5, ChunkedRuns DEF RunFilter
<1> QED
  BY <1>1, <1>2, <1>3, <1>4, <1>5 DEF IsFilter, Classes

\* runWrapper, which adds assertions of its own.
LEMMA WrapperRuns ==
  ASSUME NEW S, NEW bytes \in Seq(S), NEW disc \in BOOLEAN, NEW soFar \in Nat,
         NEW f, IsFilter(f), NEW ticket
  PROVE  LET ran == RunWrapper(f, bytes, soFar, disc, ticket)
         IN  /\ IsRun(ran, f.class, Len(bytes))
             /\ ran.ended = "ok" => ThroughFits(ran.filter, ran.instruction, soFar)
             /\ f.class \in {"Passthru", "Data"} /\ ran.ended # "ok" => ran.filter = f
PROOF
<1> DEFINE run == RunFilter(f, bytes, soFar, disc, ticket)
           ran == RunWrapper(f, bytes, soFar, disc, ticket)
<1>1. /\ IsRun(run, f.class, Len(bytes))
      /\ f.class \in {"Passthru", "Data"} /\ run.ended = "ok" =>
           ThroughFits(run.filter, run.instruction, soFar)
      /\ f.class \in {"Passthru", "Data"} /\ run.ended # "ok" => run.filter = f
  BY FiltersRun
<1>2. ran = run \/ ran = Ended(f, "asserted")
  BY DEF RunWrapper, Once
<1>3. CASE ran = run
  <2>1. f.class \notin {"Passthru", "Data"} => ThroughFits(run.filter, run.instruction, soFar)
    BY <1>1 DEF ThroughFits, IsRun
  <2> QED
    BY <1>1, <1>3, <2>1
<1>4. CASE ran = Ended(f, "asserted")
  <2>1. ran.ended # "ok" /\ ran.filter = f
    BY <1>4 DEF Ended, Ran
  <2>2. IsRun(Ended(f, "asserted"), f.class, Len(bytes))
    BY EndedIsRun
  <2> QED
    BY <1>4, <2>1, <2>2
<1> QED
  BY <1>2, <1>3, <1>4

-----------------------------------------------------------------------------
(* The invariant.                                                          *)

\* The types of the loop's variables.
LoopTyped ==
  /\ sock \in [Conn -> {"open", "invalid"}]
  /\ disconnected \in [Conn -> BOOLEAN]
  /\ socketClosed \in [Conn -> BOOLEAN]
  /\ readAZero \in [Conn -> BOOLEAN]
  /\ readSoFar \in [Conn -> Nat]
  /\ needToRead \in [Conn -> Nat \union {UNKNOWN}]
  /\ stage \in Stages
  /\ todo # << >> <=> stage \in {"setup", "work", "shortSend"}
  /\ held \subseteq Conn \X (0..nextTicket)

\* The values of what LoopTyped leaves open.
Typed ==
  /\ toCome \in [Conn -> Seq(Alphabet)]
  /\ bytesReadSoFar \in [Conn -> Seq(Alphabet)]
  /\ unfilteredBytes \in [Conn -> Seq(Alphabet)]
  /\ uncommittedBytes \in [Conn -> Seq(Alphabet)]
  /\ consumed \in [Conn -> Seq(Alphabet)]
  /\ nextTicket \in Nat
  /\ DOMAIN filter = Conn /\ \A w \in Conn : IsFilter(filter[w])
  /\ instruction \in [Conn -> InstructionSet]

\* A pass handles each event once.
TodoIsOrdered ==
  /\ stage = "setup" => todo \in {<< "client", "server" >>, << "server" >>}
  /\ stage = "work" =>
       /\ todo \in Seq(Events)
       /\ \A i, j \in 1..Len(todo) : todo[i] = todo[j] => i = j

\* A filter leaves nothing uncommitted, unless its run has ended the loop.
HasEnded == stage \in {"thrown", "asserted", "shortSend", "looping", "blocked"}
NothingUncommitted == ~HasEnded => \A w \in Conn : uncommittedBytes[w] = << >>

\* A socket is read for a filter that goes on; what a PassthruFilter of known
\* size is still to get is all unread, and so is what misses to an exact number.
ReadIsFresh(w) ==
  /\ instruction[w].type # "QuitFilter"
  /\ filter[w].class \in {"Passthru", "Data"} /\ instruction[w].type = "BytesMax" =>
       needToRead[w] = instruction[w].count /\ unfilteredBytes[w] = << >>
  /\ instruction[w].type = "BytesExact" =>
       needToRead[w] = instruction[w].count - Len(unfilteredBytes[w])

WillRead(w) ==
  \/ stage = "poll" /\ needToRead[w] # 0
  \/ stage = "work" /\ \E k \in 1..Len(todo) : todo[k] = << "recv", w >>
ReadsAreFresh == \A w \in Conn : WillRead(w) => ReadIsFresh(w)

\* Direction w is still to be set up.
Waits(w) == stage = "setup" /\ (w = "client" => todo = << "client", "server" >>)

ThroughIsInTime ==
  \A w \in Conn :
    /\ filter[w].class \in {"Passthru", "Data"} /\ IsKnown(filter[w].totalSize) =>
         readSoFar[w] <= filter[w].totalSize
    /\ Waits(w) => readSoFar[w] = 0
    /\ ~HasEnded /\ ~Waits(w) => ThroughFits(filter[w], instruction[w], readSoFar[w])

\* What the steps of the filters keep.
StreamInv == Typed /\ NoByteLost /\ NothingUncommitted /\ ThroughIsInTime

LoopInv == LoopTyped /\ TodoIsOrdered /\ ReadsAreFresh /\ StreamInv

\* The handling of a socket that can be written.
Sends(w) ==
  SendFront(w) \/ SendReset(w) \/ SendShort(w) \/ SendBlocks(w) \/ SendFails(w)

-----------------------------------------------------------------------------
(* Steps that run no filter, and steps that do.                            *)

\* A step that runs no filter and moves no bytes.
LEMMA WithoutFilter ==
  ASSUME StreamInv,
         UNCHANGED << filter, instruction, readSoFar, consumed, bytesReadSoFar,
                      unfilteredBytes, uncommittedBytes, nextTicket >>,
         toCome' \in [Conn -> Seq(Alphabet)],
         HasEnded => HasEnded',
         \A w \in Conn : Waits(w)' <=> Waits(w)
  PROVE  StreamInv'
PROOF
<1>1. Typed'
  BY DEF StreamInv, Typed
<1>2. NoByteLost'
  BY DEF StreamInv, NoByteLost
<1>3. NothingUncommitted'
  BY DEF StreamInv, NothingUncommitted
<1>4. ThroughIsInTime'
  BY DEF StreamInv, ThroughIsInTime
<1> QED
  BY <1>1, <1>2, <1>3, <1>4 DEF StreamInv

\* FilterHelper, after the run ran of the filter.
Helped(w, stream, taken, first, ran) ==
  LET bytes == uncommittedBytes[w] \o SubSeq(stream, 1, taken)
      commit == ran.instruction.commitSize
  IN  /\ unfilteredBytes' = [unfilteredBytes EXCEPT ![w] = From(stream, taken + 1)]
      /\ uncommittedBytes' = [uncommittedBytes EXCEPT ![w] = From(bytes, commit + 1)]
      /\ consumed' = [consumed EXCEPT ![w] = @ \o SubSeq(bytes, 1, commit)]
      /\ readSoFar' = [readSoFar EXCEPT ![w] = readSoFar[w] + taken]
      /\ FilterOutputs(Other(w), first \o ran.outputs)
      /\ filter' = [filter EXCEPT ![w] = ran.filter]
      /\ instruction' = [instruction EXCEPT ![w] = ran.instruction]

\* The tickets of the outputs are new.
LEMMA OutputsAreTyped ==
  ASSUME nextTicket \in Nat, held \subseteq Conn \X (0..nextTicket),
         NEW out \in Conn, NEW S, NEW outputs \in Seq(S), FilterOutputs(out, outputs)
  PROVE  nextTicket' \in Nat /\ held' \subseteq Conn \X (0..nextTicket')
PROOF
<1>1. Len(outputs) \in Nat
  BY LenProperties
<1>2. /\ nextTicket' = nextTicket + Len(outputs)
      /\ held' = held \union { << out, nextTicket + k - 1 >> :
                    k \in { k \in 1..Len(outputs) : outputs[k].op = "place" } }
  BY DEF FilterOutputs
<1>3. \A k \in 1..Len(outputs) : nextTicket + k - 1 \in 0..nextTicket'
  BY <1>1, <1>2
<1>4. 0..nextTicket \subseteq 0..nextTicket'
  BY <1>1, <1>2
<1> QED
  BY <1>1, <1>2, <1>3, <1>4

\* Concatenation is associative.
LEMMA Regrouped ==
  ASSUME NEW S, NEW a \in Seq(S), NEW b \in Seq(S), NEW c \in Seq(S)
  PROVE  a \o b \o c = a \o (b \o c)
BY ConcatAssociative

\* The streams of w behind a run: all bytes that were given are committed, or the
\* run has ended the loop and nothing is.
LEMMA StreamsBehindRun ==
  ASSUME StreamInv, ~HasEnded, NEW w \in Conn,
         NEW stream \in Seq(Alphabet), NEW taken \in 0..Len(stream),
         NEW first, NEW ran, NEW class, IsRun(ran, class, taken),
         Helped(w, stream, taken, first, ran)
  PROVE  /\ unfilteredBytes' \in [Conn -> Seq(Alphabet)]
         /\ uncommittedBytes' \in [Conn -> Seq(Alphabet)]
         /\ consumed' \in [Conn -> Seq(Alphabet)]
         /\ consumed'[w] \o uncommittedBytes'[w] \o unfilteredBytes'[w]
              = consumed[w] \o uncommittedBytes[w] \o stream
         /\ ran.ended = "ok" => uncommittedBytes'[w] = << >>
PROOF
<1> DEFINE bytes == SubSeq(stream, 1, taken)
           commit == ran.instruction.commitSize
<1>1. uncommittedBytes[w] = << >>
  BY DEF StreamInv, NothingUncommitted
<1>2. /\ bytes \in Seq(Alphabet) /\ From(stream, taken + 1) \in Seq(Alphabet)
      /\ Len(bytes) = taken
      /\ bytes \o From(stream, taken + 1) = stream
  BY Split
<1>3. uncommittedBytes[w] \o bytes = bytes
  BY <1>1, <1>2, ConcatEmptySeq
<1>4. commit \in 0..Len(bytes) /\ (ran.ended = "ok" => commit = Len(bytes))
  BY <1>2, LenProperties DEF IsRun
<1>5. /\ SubSeq(bytes, 1, commit) \in Seq(Alphabet)
      /\ From(bytes, commit + 1) \in Seq(Alphabet)
      /\ SubSeq(bytes, 1, commit) \o From(bytes, commit + 1) = bytes
      /\ ran.ended = "ok" => From(bytes, commit + 1) = << >>
  <2> HIDE DEF bytes, commit
  <2> QED
    BY <1>2, <1>4, Split, ZenonT(60)
<1>6. /\ unfilteredBytes \in [Conn -> Seq(Alphabet)]
      /\ uncommittedBytes \in [Conn -> Seq(Alphabet)]
      /\ consumed \in [Conn -> Seq(Alphabet)]
  BY DEF StreamInv, Typed
<1>7. /\ unfilteredBytes' = [unfilteredBytes EXCEPT ![w] = From(stream, taken + 1)]
      /\ uncommittedBytes' = [uncommittedBytes EXCEPT ![w] = From(bytes, commit + 1)]
      /\ consumed' = [consumed EXCEPT ![w] = @ \o SubSeq(bytes, 1, commit)]
  BY <1>3 DEF Helped
<1> HIDE DEF bytes, commit
<1> DEFINE done == SubSeq(bytes, 1, commit)
           left == From(bytes, commit + 1)
           rest == From(stream, taken + 1)
<1>8. consumed[w] \in Seq(Alphabet) /\ consumed[w] \o done \in Seq(Alphabet)
  BY <1>5, <1>6, ConcatProperties
<1>9. consumed[w] \o done \o left \o rest = consumed[w] \o stream
  <2> DEFINE all == consumed[w]
  <2>1. all \in Seq(Alphabet) /\ done \in Seq(Alphabet) /\ left \in Seq(Alphabet)
    BY <1>5, <1>8
  <2>2. all \in Seq(Alphabet) /\ bytes \in Seq(Alphabet) /\ rest \in Seq(Alphabet)
    BY <1>2, <1>8
  <2>3. done \o left = bytes /\ bytes \o rest = stream
    BY <1>2, <1>5
  <2> HIDE DEF all, done, left, rest
  <2>4. all \o done \o left = all \o (done \o left)
    BY <2>1, Regrouped, SMTT(60)
  <2>5. all \o bytes \o rest = all \o (bytes \o rest)
    BY <2>2, Regrouped, SMTT(120)
  <2>6. all \o done \o left \o rest = all \o stream
    BY <2>3, <2>4, <2>5
  <2> QED
    BY <2>6 DEF all
<1>10. consumed[w] \o uncommittedBytes[w] = consumed[w]
  BY <1>1, <1>8, ConcatEmptySeq
<1>11. /\ unfilteredBytes' \in [Conn -> Seq(Alphabet)]
       /\ uncommittedBytes' \in [Conn -> Seq(Alphabet)]
       /\ consumed' \in [Conn -> Seq(Alphabet)]
  BY <1>2, <1>5, <1>6, <1>7, <1>8
<1>12. /\ consumed'[w] = consumed[w] \o done
       /\ uncommittedBytes'[w] = left
       /\ unfilteredBytes'[w] = rest
  BY <1>6, <1>7
<1> HIDE DEF done, left, rest
<1>13. consumed'[w] \o uncommittedBytes'[w] \o unfilteredBytes'[w]
         = consumed[w] \o uncommittedBytes[w] \o stream
  BY <1>9, <1>10, <1>12
<1>14. ran.ended = "ok" => left = << >>
  BY <1>5 DEF left
<1> QED
  BY <1>11, <1>12, <1>13, <1>14

\* A step that runs a filter f of direction w on the first bytes of a stream.
LEMMA WithFilter ==
  ASSUME StreamInv, ~HasEnded,
         held \subseteq Conn \X (0..nextTicket), readSoFar \in [Conn -> Nat],
         NEW w \in Conn, NEW f, IsFilter(f), f.class = filter[w].class,
         f.class \in {"Passthru", "Data"} => f = filter[w],
         NEW stream \in Seq(Alphabet), NEW taken \in 0..Len(stream),
         f.class \in {"Passthru", "Data"} /\ IsKnown(f.totalSize) =>
           readSoFar[w] + taken <= f.totalSize,
         NEW disc \in BOOLEAN, NEW T, NEW first \in Seq(T),
         NEW ran,
         ran = RunWrapper(f, uncommittedBytes[w] \o SubSeq(stream, 1, taken),
                          readSoFar[w] + taken, disc, nextTicket + Len(first)),
         Helped(w, stream, taken, first, ran),
         ran.ended # "ok" => stage' = ran.ended,
         ~HasEnded' => \A v \in Conn : v # w => (Waits(v)' <=> Waits(v)),
         ~Waits(w)',
         toCome' \in [Conn -> Seq(Alphabet)],
         bytesReadSoFar' \in [Conn -> Seq(Alphabet)],
         \A v \in Conn : v # w => bytesReadSoFar'[v] = bytesReadSoFar[v],
         bytesReadSoFar'[w] = consumed[w] \o uncommittedBytes[w] \o stream
  PROVE  /\ StreamInv'
         /\ held' \subseteq Conn \X (0..nextTicket')
         /\ readSoFar' \in [Conn -> Nat]
PROOF
<1>1. /\ Len(stream) \in Nat /\ taken \in Nat /\ readSoFar[w] + taken \in Nat
  BY LenProperties
<1>2. IsRun(ran, f.class, taken)
      /\ (ran.ended = "ok" => ThroughFits(ran.filter, ran.instruction, readSoFar[w] + taken))
      /\ (f.class \in {"Passthru", "Data"} /\ ran.ended # "ok" => ran.filter = f)
  <2>1. uncommittedBytes[w] = << >>
    BY DEF StreamInv, NothingUncommitted
  <2>2. SubSeq(stream, 1, taken) \in Seq(Alphabet) /\ Len(SubSeq(stream, 1, taken)) = taken
    BY Split
  <2>3. uncommittedBytes[w] \o SubSeq(stream, 1, taken) = SubSeq(stream, 1, taken)
    BY <2>1, <2>2, ConcatEmptySeq
  <2> DEFINE given == SubSeq(stream, 1, taken)
             soFar == readSoFar[w] + taken
             ticket == nextTicket + Len(first)
  <2>4. ran = RunWrapper(f, given, soFar, disc, ticket)
    BY <2>3
  <2>5. given \in Seq(Alphabet) /\ Len(given) = taken /\ soFar \in Nat
    BY <1>1, <2>2
  <2> HIDE DEF given, soFar, ticket
  <2>6. /\ IsRun(ran, f.class, Len(given))
        /\ ran.ended = "ok" => ThroughFits(ran.filter, ran.instruction, soFar)
        /\ f.class \in {"Passthru", "Data"} /\ ran.ended # "ok" => ran.filter = f
    BY <2>4, <2>5, WrapperRuns
  <2> QED
    BY <2>5, <2>6 DEF soFar
<1>3. /\ unfilteredBytes' \in [Conn -> Seq(Alphabet)]
      /\ uncommittedBytes' \in [Conn -> Seq(Alphabet)]
      /\ consumed' \in [Conn -> Seq(Alphabet)]
      /\ consumed'[w] \o uncommittedBytes'[w] \o unfilteredBytes'[w]
           = consumed[w] \o uncommittedBytes[w] \o stream
      /\ ran.ended = "ok" => uncommittedBytes'[w] = << >>
  BY <1>2, StreamsBehindRun
<1>4. nextTicket' \in Nat /\ held' \subseteq Conn \X (0..nextTicket')
  <2>1. PICK S : ran.outputs \in Seq(S)
    BY <1>2 DEF IsRun
  <2>2. first \in Seq(S \union T) /\ ran.outputs \in Seq(S \union T)
    BY <2>1, SeqMonotonic
  <2>3. first \o ran.outputs \in Seq(S \union T)
    BY <2>2, ConcatProperties
  <2>4. FilterOutputs(Other(w), first \o ran.outputs) /\ Other(w) \in Conn
    BY DEF Helped, Other, Conn
  <2>5. nextTicket \in Nat
    BY DEF StreamInv, Typed
  <2> QED
    BY <2>3, <2>4, <2>5, OutputsAreTyped
<1>5. readSoFar' = [readSoFar EXCEPT ![w] = readSoFar[w] + taken]
      /\ filter' = [filter EXCEPT ![w] = ran.filter]
      /\ instruction' = [instruction EXCEPT ![w] = ran.instruction]
  BY DEF Helped
<1>6. readSoFar' \in [Conn -> Nat]
  BY <1>1, <1>5
<1>7. DOMAIN filter = Conn /\ (\A v \in Conn : IsFilter(filter[v]))
      /\ instruction \in [Conn -> InstructionSet]
  BY DEF StreamInv, Typed
<1>8. IsFilter(ran.filter) /\ ran.filter.class = f.class /\ ran.instruction \in InstructionSet
  BY <1>2 DEF IsRun
<1>9. Typed'
  BY <1>3, <1>4, <1>5, <1>7, <1>8 DEF Typed
<1>10. \A v \in Conn : v # w =>
         /\ unfilteredBytes'[v] = unfilteredBytes[v]
         /\ uncommittedBytes'[v] = uncommittedBytes[v]
         /\ consumed'[v] = consumed[v]
         /\ readSoFar'[v] = readSoFar[v]
         /\ filter'[v] = filter[v]
         /\ instruction'[v] = instruction[v]
  BY <1>5, <1>7 DEF StreamInv, Typed, Helped
<1>11. NoByteLost'
  BY <1>3, <1>10 DEF StreamInv, NoByteLost
<1>12. ran.ended \in {"ok", "thrown", "asserted", "looping"} /\ (HasEnded' \/ ran.ended = "ok")
  BY <1>2 DEF IsRun, HasEnded
<1>13. NothingUncommitted'
  BY <1>3, <1>10, <1>12 DEF StreamInv, NothingUncommitted
<1>14. readSoFar'[w] = readSoFar[w] + taken /\ filter'[w] = ran.filter
       /\ instruction'[w] = ran.instruction
  BY <1>5, <1>7
<1>15. ThroughIsInTime'
  <2>1. ASSUME NEW v \in Conn, v # w
        PROVE  /\ (filter[v].class \in {"Passthru", "Data"} /\ IsKnown(filter[v].totalSize) =>
                     readSoFar[v] <= filter[v].totalSize)'
               /\ (Waits(v) => readSoFar[v] = 0)'
               /\ (~HasEnded /\ ~Waits(v) =>
                     ThroughFits(filter[v], instruction[v], readSoFar[v]))'
    <3>1. Waits(v)' => ~HasEnded'
      BY DEF Waits, HasEnded
    <3> QED
      BY <2>1, <3>1, <1>10 DEF StreamInv, ThroughIsInTime
  <2>2. /\ (filter[w].class \in {"Passthru", "Data"} /\ IsKnown(filter[w].totalSize) =>
              readSoFar[w] <= filter[w].totalSize)'
    <3>1. CASE ran.ended = "ok"
      BY <1>2, <1>14, <3>1 DEF ThroughFits
    <3>2. CASE ran.ended # "ok"
      BY <1>2, <1>8, <1>14, <3>2
    <3> QED
      BY <3>1, <3>2
  <2>3. (~HasEnded /\ ~Waits(w) =>
           ThroughFits(filter[w], instruction[w], readSoFar[w]))'
    BY <1>2, <1>12, <1>14
  <2> QED
    BY <2>1, <2>2, <2>3 DEF ThroughIsInTime
<1> QED
  BY <1>4, <1>6, <1>9, <1>11, <1>13, <1>15 DEF StreamInv

-----------------------------------------------------------------------------
(* The events of a pass.                                                   *)

\* Two sequences of different elements, none of them in both, make another one.
LEMMA Joined ==
  ASSUME NEW S, NEW s \in Seq(S), NEW t \in Seq(S),
         \A i, j \in 1..Len(s) : s[i] = s[j] => i = j,
         \A i, j \in 1..Len(t) : t[i] = t[j] => i = j,
         \A i \in 1..Len(s), j \in 1..Len(t) : s[i] # t[j]
  PROVE  /\ s \o t \in Seq(S)
         /\ \A i, j \in 1..Len(s \o t) : (s \o t)[i] = (s \o t)[j] => i = j
         /\ \A i \in 1..Len(s \o t) : \/ \E j \in 1..Len(s) : (s \o t)[i] = s[j]
                                      \/ \E j \in 1..Len(t) : (s \o t)[i] = t[j]
         /\ s # << >> \/ t # << >> => s \o t # << >>
PROOF
<1>1. /\ s \o t \in Seq(S) /\ Len(s \o t) = Len(s) + Len(t)
      /\ Len(s) \in Nat /\ Len(t) \in Nat
      /\ \A i \in 1..(Len(s) + Len(t)) :
           (s \o t)[i] = IF i <= Len(s) THEN s[i] ELSE t[i - Len(s)]
  BY ConcatProperties, LenProperties
<1> DEFINE u == s \o t
           m == Len(s)
           n == Len(t)
<1>2. /\ u \in Seq(S) /\ Len(u) = m + n /\ m \in Nat /\ n \in Nat
      /\ \A i \in 1..(m + n) : u[i] = IF i <= m THEN s[i] ELSE t[i - m]
  BY <1>1
<1>3. s # << >> \/ t # << >> => m + n # 0
  BY EmptySeq, LenProperties
<1>4. /\ \A i, j \in 1..m : s[i] = s[j] => i = j
      /\ \A i, j \in 1..n : t[i] = t[j] => i = j
      /\ \A i \in 1..m, j \in 1..n : s[i] # t[j]
  OBVIOUS
<1> HIDE DEF u, m, n
<1>5. \A i \in 1..(m + n) : /\ i <= m => i \in 1..m /\ u[i] = s[i]
                            /\ ~(i <= m) => i - m \in 1..n /\ u[i] = t[i - m]
  BY <1>2
<1>6. ASSUME NEW i \in 1..(m + n), NEW j \in 1..(m + n), u[i] = u[j]
      PROVE  i = j
  <2>1. CASE i <= m /\ j <= m
    BY <1>4, <1>5, <1>6, <2>1
  <2>2. CASE ~(i <= m) /\ ~(j <= m)
    <3>1. i - m = j - m
      BY <1>4, <1>5, <1>6, <2>2
    <3> QED
      BY <1>2, <3>1
  <2>3. CASE i <= m /\ ~(j <= m)
    BY <1>4, <1>5, <1>6, <2>3
  <2>4. CASE ~(i <= m) /\ j <= m
    BY <1>4, <1>5, <1>6, <2>4
  <2> QED
    BY <2>1, <2>2, <2>3, <2>4
<1>7. ASSUME NEW i \in 1..(m + n)
      PROVE  \/ \E j \in 1..m : u[i] = s[j]
             \/ \E j \in 1..n : u[i] = t[j]
  BY <1>5
<1>8. s # << >> \/ t # << >> => u # << >>
  BY <1>2, <1>3, EmptySeq
<1> QED
  BY <1>2, <1>6, <1>7, <1>8 DEF u, m, n

\* PollReady's events: each once, each of them ready, and not none.
LEMMA EventsInOrder ==
  ASSUME NEW ready \in SUBSET Events, ready # {}
  PROVE  /\ InOrder(ready) \in Seq(Events)
         /\ \A i, j \in 1..Len(InOrder(ready)) :
              InOrder(ready)[i] = InOrder(ready)[j] => i = j
         /\ \A i \in 1..Len(InOrder(ready)) : InOrder(ready)[i] \in ready
         /\ InOrder(ready) # << >>
PROOF
<1> DEFINE If(op, w) == IfReady(ready, op, w)
           Good(s, E) == /\ s \in Seq(Events)
                         /\ \A i, j \in 1..Len(s) : s[i] = s[j] => i = j
                         /\ \A i \in 1..Len(s) : s[i] \in ready \intersect E
<1>1. ASSUME NEW op \in {"send", "recv"}, NEW w \in Conn
      PROVE  /\ Good(If(op, w), {<< op, w >>})
             /\ << op, w >> \in ready => If(op, w) # << >>
  <2>1. << op, w >> \in Events
    BY DEF Events
  <2>2. CASE << op, w >> \in ready
    <3>1. If(op, w) = << << op, w >> >>
      BY <2>2 DEF IfReady
    <3> QED
      BY <2>1, <2>2, <3>1
  <2>3. CASE << op, w >> \notin ready
    <3>1. If(op, w) = << >>
      BY <2>3 DEF IfReady
    <3> QED
      BY <2>3, <3>1, EmptySeq
  <2> QED
    BY <2>2, <2>3
<1>2. ASSUME NEW s, NEW t, NEW D, NEW E, Good(s, D), Good(t, E), D \intersect E = {}
      PROVE  Good(s \o t, D \union E) /\ (s # << >> \/ t # << >> => s \o t # << >>)
  <2>1. /\ s \in Seq(Events) /\ t \in Seq(Events)
        /\ \A i, j \in 1..Len(s) : s[i] = s[j] => i = j
        /\ \A i, j \in 1..Len(t) : t[i] = t[j] => i = j
        /\ \A i \in 1..Len(s), j \in 1..Len(t) : s[i] # t[j]
    BY <1>2
  <2> DEFINE u == s \o t
  <2>2. /\ u \in Seq(Events)
        /\ \A i, j \in 1..Len(u) : u[i] = u[j] => i = j
        /\ \A i \in 1..Len(u) : \/ \E j \in 1..Len(s) : u[i] = s[j]
                                \/ \E j \in 1..Len(t) : u[i] = t[j]
        /\ s # << >> \/ t # << >> => u # << >>
    BY <2>1, Joined, SMTT(60)
  <2> HIDE DEF u
  <2>3. \A i \in 1..Len(u) : u[i] \in ready \intersect (D \union E)
    BY <1>2, <2>2
  <2>4. Good(u, D \union E)
    BY <2>2, <2>3
  <2> QED
    BY <2>2, <2>4 DEF u
<1> DEFINE a == If("send", "client")
           b == If("send", "server")
           c == If("recv", "client")
           d == If("recv", "server")
           A == {<< "send", "client" >>}
           B == {<< "send", "server" >>}
           C == {<< "recv", "client" >>}
           D == {<< "recv", "server" >>}
<1>3. Good(a, A) /\ Good(b, B) /\ Good(c, C) /\ Good(d, D)
  BY <1>1 DEF Conn
<1>4. a # << >> \/ b # << >> \/ c # << >> \/ d # << >>
  <2>1. PICK op \in {"send", "recv"}, w \in Conn : << op, w >> \in ready
    BY DEF Events
  <2>2. If(op, w) # << >>
    BY <1>1, <2>1
  <2> QED
    BY <2>2 DEF Conn
<1>5. /\ A \intersect B = {} /\ (A \union B) \intersect C = {}
      /\ (A \union B \union C) \intersect D = {}
  OBVIOUS
<1>6. InOrder(ready) = a \o b \o c \o d
  BY DEF InOrder
<1> HIDE DEF Good, a, b, c, d, A, B, C, D
<1>7. Good(a \o b, A \union B) /\ (a # << >> \/ b # << >> => a \o b # << >>)
  BY <1>2, <1>3, <1>5
<1>8. /\ Good(a \o b \o c, A \union B \union C)
      /\ a \o b # << >> \/ c # << >> => a \o b \o c # << >>
  BY <1>2, <1>3, <1>5, <1>7
<1>9. /\ Good(a \o b \o c \o d, A \union B \union C \union D)
      /\ a \o b \o c # << >> \/ d # << >> => a \o b \o c \o d # << >>
  BY <1>2, <1>3, <1>5, <1>8
<1>10. InOrder(ready) # << >>
  BY <1>4, <1>6, <1>7, <1>8, <1>9
<1>11. Good(InOrder(ready), A \union B \union C \union D)
  BY <1>6, <1>9
<1> HIDE DEF If
<1> QED
  BY <1>10, <1>11 DEF Good

\* The event that is handled is behind the pass, and comes in it no more.
LEMMA Handled ==
  ASSUME LoopTyped, TodoIsOrdered, stage = "work",
         NEW op, NEW w, Head(todo) = << op, w >>
  PROVE  /\ todo \in Seq(Events) /\ todo # << >>
         /\ 1 \in 1..Len(todo) /\ todo[1] = << op, w >>
         /\ Tail(todo) \in Seq(Events)
         /\ \A i, j \in 1..Len(Tail(todo)) : Tail(todo)[i] = Tail(todo)[j] => i = j
         /\ \A i \in 1..Len(Tail(todo)) :
              /\ Tail(todo)[i] # << op, w >>
              /\ \E k \in 1..Len(todo) : Tail(todo)[i] = todo[k]
PROOF
<1>1. todo \in Seq(Events) /\ todo # << >>
  BY DEF LoopTyped, TodoIsOrdered
<1>2. /\ Len(todo) \in Nat /\ Len(todo) > 0
      /\ Tail(todo) \in Seq(Events) /\ Len(Tail(todo)) = Len(todo) - 1
      /\ \A i \in 1..Len(Tail(todo)) : Tail(todo)[i] = todo[i + 1]
  BY <1>1, HeadTailProperties, EmptySeq, LenProperties
<1>3. Head(todo) = todo[1] /\ 1 \in 1..Len(todo)
  BY <1>1, <1>2
<1>4. \A i, j \in 1..Len(todo) : todo[i] = todo[j] => i = j
  BY DEF TodoIsOrdered
<1>5. \A i \in 1..Len(Tail(todo)) : i + 1 \in 1..Len(todo) /\ i + 1 # 1
  BY <1>2
<1>6. \A i, j \in 1..Len(Tail(todo)) : Tail(todo)[i] = Tail(todo)[j] => i = j
  <2>1. ASSUME NEW i \in 1..Len(Tail(todo)), NEW j \in 1..Len(Tail(todo)),
               Tail(todo)[i] = Tail(todo)[j]
        PROVE  i = j
    <3>1. i + 1 = j + 1
      BY <1>2, <1>4, <1>5, <2>1
    <3> QED
      BY <1>2, <3>1
  <2> QED
    BY <2>1
<1>7. \A i \in 1..Len(Tail(todo)) :
        /\ Tail(todo)[i] # << op, w >>
        /\ \E k \in 1..Len(todo) : Tail(todo)[i] = todo[k]
  BY <1>2, <1>3, <1>4, <1>5
<1> QED
  BY <1>1, <1>2, <1>3, <1>6, <1>7

\* What NextEvent keeps when the event's step has touched no other direction.
LEMMA NextEventKeeps ==
  ASSUME LoopTyped, TodoIsOrdered, ReadsAreFresh, stage = "work",
         NEW op \in {"send", "recv"}, NEW w \in Conn, Head(todo) = << op, w >>,
         NextEvent,
         \A v \in Conn : op = "send" \/ v # w =>
           /\ filter'[v] = filter[v] /\ instruction'[v] = instruction[v]
           /\ needToRead'[v] = needToRead[v] /\ unfilteredBytes'[v] = unfilteredBytes[v]
  PROVE  /\ stage' \in {"compute", "work"}
         /\ todo' # << >> <=> stage' \in {"setup", "work", "shortSend"}
         /\ TodoIsOrdered' /\ ReadsAreFresh'
PROOF
<1>1. /\ todo \in Seq(Events) /\ todo # << >>
      /\ Tail(todo) \in Seq(Events)
      /\ \A i, j \in 1..Len(Tail(todo)) : Tail(todo)[i] = Tail(todo)[j] => i = j
      /\ \A i \in 1..Len(Tail(todo)) :
           /\ Tail(todo)[i] # << op, w >>
           /\ \E k \in 1..Len(todo) : Tail(todo)[i] = todo[k]
  BY Handled
<1>2. todo' = Tail(todo) /\ stage' = IF Tail(todo) = << >> THEN "compute" ELSE "work"
  BY DEF NextEvent
<1>3. TodoIsOrdered'
  BY <1>1, <1>2 DEF TodoIsOrdered
<1>4. ReadsAreFresh'
  <2>1. SUFFICES ASSUME NEW v \in Conn, WillRead(v)' PROVE ReadIsFresh(v)'
    BY DEF ReadsAreFresh
  <2>2. PICK i \in 1..Len(Tail(todo)) : Tail(todo)[i] = << "recv", v >>
    BY <1>2, <2>1 DEF WillRead
  <2>3. op = "send" \/ v # w
    BY <1>1, <2>2
  <2>4. WillRead(v)
    BY <1>1, <2>2 DEF WillRead
  <2>5. ReadIsFresh(v)
    BY <2>4 DEF ReadsAreFresh
  <2> QED
    BY <2>3, <2>5 DEF ReadIsFresh
<1> QED
  BY <1>2, <1>3, <1>4

\* What an end of the loop keeps.
LEMMA EndKeeps ==
  ASSUME stage' \in {"idle", "compute"} \/ HasEnded'
  PROVE  TodoIsOrdered' /\ ReadsAreFresh' /\ \A v \in Conn : ~Waits(v)'
BY DEF TodoIsOrdered, ReadsAreFresh, WillRead, Waits, HasEnded

-----------------------------------------------------------------------------
(* One lemma for each action.                                              *)

\* A reset takes away only what was still to come.
LEMMA PeerResetKeeps ==
  ASSUME LoopInv, NEW w \in Conn, PeerReset(w)
  PROVE  LoopInv'
PROOF
<1>1. << >> \in Seq(Alphabet)
  BY EmptySeq
<1>2. StreamInv'
  BY <1>1, WithoutFilter DEF LoopInv, StreamInv, Typed, PeerReset, loopVars, sockbufVars,
     HasEnded, Waits
<1>3. LoopTyped'
  BY DEF LoopInv, LoopTyped, PeerReset, loopVars, sockbufVars
<1>4. TodoIsOrdered' /\ ReadsAreFresh'
  BY DEF LoopInv, TodoIsOrdered, ReadsAreFresh, WillRead, ReadIsFresh, PeerReset,
     loopVars, sockbufVars
<1> QED
  BY <1>2, <1>3, <1>4 DEF LoopInv

\* What Decide finds to read is fresh: a filter that is still to get bytes of a
\* known number has been given all that were there.
LEMMA DecideKeeps ==
  ASSUME LoopInv, Decide
  PROVE  LoopInv'
PROOF
<1>1. /\ stage = "compute" /\ stage' \in {"poll", "idle", "thrown", "asserted"}
      /\ UNCHANGED << sockbufVars, filter, instruction, readSoFar, todo, toCome >>
      /\ needToRead' = [w \in Conn |-> NeedToRead(w)]
      /\ \A w \in Conn : ~CanFilter(w)
  BY DEF Decide, EndCheck, AtEnd, Leave, peerVars
<1>2. StreamInv'
  BY <1>1, WithoutFilter DEF LoopInv, StreamInv, Typed, Decide, sockbufVars, HasEnded, Waits
<1>3. ASSUME NEW w \in Conn
      PROVE  /\ unfilteredBytes[w] \in Seq(Alphabet) /\ Len(unfilteredBytes[w]) \in Nat
             /\ uncommittedBytes[w] = << >> /\ Len(uncommittedBytes[w]) = 0
             /\ instruction[w] \in InstructionSet
             /\ instruction[w].count \in Nat
  <2>1. uncommittedBytes[w] = << >> /\ unfilteredBytes[w] \in Seq(Alphabet)
    BY <1>1 DEF LoopInv, StreamInv, NothingUncommitted, HasEnded, Typed
  <2>2. instruction[w] \in InstructionSet
    BY DEF LoopInv, StreamInv, Typed
  <2> QED
    BY <2>1, <2>2, EmptySeq, LenProperties DEF InstructionSet
<1>4. ASSUME NEW w \in Conn
      PROVE  /\ NeedToRead(w) \in Nat \union {UNKNOWN}
             /\ instruction[w].type \in {"BytesExact", "BytesMax"} /\ NeedToRead(w) # 0 =>
                  /\ ~(instruction[w].count <= Len(unfilteredBytes[w]))
                  /\ NeedToRead(w) = instruction[w].count - Len(unfilteredBytes[w])
  <2> DEFINE count == instruction[w].count
             raw == Len(unfilteredBytes[w])
             kind == instruction[w].type
  <2>1. NeedToRead(w) = IF ~Reading(w) THEN 0
                        ELSE IF kind \in {"BytesExact", "BytesMax"}
                               THEN IF count <= 0 + raw THEN 0 ELSE count - (0 + raw)
                               ELSE UNKNOWN
    BY <1>3 DEF NeedToRead
  <2>2. count \in Nat /\ raw \in Nat
    BY <1>3
  <2> HIDE DEF count, raw, kind
  <2>3. CASE Reading(w) /\ kind \in {"BytesExact", "BytesMax"} /\ ~(count <= raw)
    <3>1. NeedToRead(w) = count - raw
      BY <2>1, <2>2, <2>3
    <3> QED
      BY <2>2, <2>3, <3>1 DEF count, raw
  <2>4. CASE Reading(w) /\ kind \notin {"BytesExact", "BytesMax"}
    <3>1. NeedToRead(w) = UNKNOWN
      BY <2>1, <2>4
    <3> QED
      BY <2>4, <3>1 DEF kind
  <2>5. CASE ~Reading(w) \/ (kind \in {"BytesExact", "BytesMax"} /\ count <= raw)
    <3>1. NeedToRead(w) = 0
      BY <2>1, <2>2, <2>5
    <3> QED
      BY <3>1
  <2> QED
    BY <2>3, <2>4, <2>5
<1>5. LoopTyped'
  BY <1>1, <1>4 DEF LoopInv, LoopTyped, Decide, sockbufVars, Stages
<1>6. TodoIsOrdered'
  BY <1>1 DEF TodoIsOrdered
<1>7. ReadsAreFresh'
  <2>1. SUFFICES ASSUME NEW w \in Conn, WillRead(w)' PROVE ReadIsFresh(w)'
    BY DEF ReadsAreFresh
  <2>2. NeedToRead(w) # 0
    BY <1>1, <2>1 DEF WillRead
  <2>3. Reading(w)
    BY <2>2 DEF NeedToRead
  <2>4. ASSUME instruction[w].type = "BytesMax"
        PROVE  NeedToRead(w) = instruction[w].count /\ unfilteredBytes[w] = << >>
    <3>1. /\ ~(instruction[w].count <= Len(unfilteredBytes[w]))
          /\ NeedToRead(w) = instruction[w].count - Len(unfilteredBytes[w])
      BY <1>4, <2>2, <2>4
    <3>2. ~(Satisfied(w) > 0)
      BY <1>1, <2>3 DEF CanFilter
    <3>3. Satisfied(w) = Least(instruction[w].count, Len(unfilteredBytes[w]))
      BY <1>3, <2>4, <3>1 DEF Satisfied
    <3>4. Len(unfilteredBytes[w]) = 0
      BY <1>3, <3>1, <3>2, <3>3 DEF Least
    <3> QED
      BY <1>3, <3>1, <3>4, EmptySeq
  <2>5. instruction[w].type = "BytesExact" =>
          NeedToRead(w) = instruction[w].count - Len(unfilteredBytes[w])
    BY <1>4, <2>2
  <2> QED
    BY <1>1, <2>3, <2>4, <2>5 DEF ReadIsFresh, Reading, sockbufVars
<1> QED
  BY <1>2, <1>5, <1>6, <1>7 DEF LoopInv

\* The events of a pass are those of directions that Decide found something to read for.
LEMMA PollReadyKeeps ==
  ASSUME LoopInv, PollReady
  PROVE  LoopInv'
PROOF
<1>1. PICK ready \in (SUBSET Possible) \ {{}} : todo' = InOrder(ready)
  BY DEF PollReady
<1>2. stage = "poll" /\ stage' = "work" /\ LoopUnchanged
  BY DEF PollReady
<1>3. ready \in SUBSET Events /\ ready # {}
  BY <1>1 DEF Possible, Requested
<1>4. /\ todo' \in Seq(Events)
      /\ \A i, j \in 1..Len(todo') : todo'[i] = todo'[j] => i = j
      /\ \A i \in 1..Len(todo') : todo'[i] \in ready
      /\ todo' # << >>
  BY <1>1, <1>3, EventsInOrder
<1>5. StreamInv'
  BY <1>2, WithoutFilter DEF LoopInv, StreamInv, Typed, LoopUnchanged, sockbufVars, peerVars,
     HasEnded, Waits
<1>6. LoopTyped'
  BY <1>2, <1>4 DEF LoopInv, LoopTyped, LoopUnchanged, sockbufVars, Stages
<1>7. TodoIsOrdered'
  BY <1>2, <1>4 DEF TodoIsOrdered
<1>8. ReadsAreFresh'
  <2>1. SUFFICES ASSUME NEW w \in Conn, WillRead(w)' PROVE ReadIsFresh(w)'
    BY DEF ReadsAreFresh
  <2>2. << "recv", w >> \in ready
    BY <1>2, <1>4, <2>1 DEF WillRead
  <2>3. << "recv", w >> \in Requested
    BY <1>1, <2>2 DEF Possible
  <2>4. needToRead[w] # 0
    BY <2>3 DEF Requested
  <2>5. ReadIsFresh(w)
    BY <1>2, <2>4 DEF LoopInv, ReadsAreFresh, WillRead
  <2> QED
    BY <1>2, <2>5 DEF ReadIsFresh, LoopUnchanged, sockbufVars
<1> QED
  BY <1>5, <1>6, <1>7, <1>8 DEF LoopInv

\* A timeout, an interrupt, an error.
LEMMA PollEndsKeep ==
  ASSUME LoopInv, PollTimeout \/ PollFails
  PROVE  LoopInv'
PROOF
<1>1. /\ stage = "poll" /\ stage' \in {"idle", "compute", "thrown"}
      /\ LoopUnchanged /\ UNCHANGED todo
  BY DEF PollTimeout, PollFails, Leave
<1>2. StreamInv'
  BY <1>1, WithoutFilter DEF LoopInv, StreamInv, Typed, LoopUnchanged, sockbufVars, peerVars,
     HasEnded, Waits
<1>3. LoopTyped'
  BY <1>1 DEF LoopInv, LoopTyped, LoopUnchanged, sockbufVars, Stages
<1> QED
  BY <1>1, <1>2, <1>3, EndKeeps DEF HasEnded, LoopInv

\* The sends write only what is in the placeholders.
LEMMA SendKeeps ==
  ASSUME LoopInv, NEW w \in Conn, Sends(w)
  PROVE  LoopInv' /\ stage' # "idle"
PROOF
<1>0. stage = "work" /\ Head(todo) = << "send", w >>
  BY DEF Sends, SendFront, SendReset, SendShort, SendBlocks, SendFails, AtEvent
<1>1. /\ stage = "work" /\ Head(todo) = << "send", w >> /\ SendUnchanged(w)
      /\ \/ UNCHANGED << stage, todo >>
         \/ NextEvent
         \/ stage' \in {"thrown", "blocked"} /\ todo' = << >>
         \/ stage' = "shortSend" /\ todo' = todo
  <2>1. CASE SendFront(w)
    BY <1>0, <2>1 DEF SendFront
  <2>2. CASE SendReset(w)
    BY <1>0, <2>2 DEF SendReset
  <2>3. CASE SendShort(w)
    BY <1>0, <2>3 DEF SendShort
  <2>4. CASE SendBlocks(w) \/ SendFails(w)
    BY <1>0, <2>4 DEF SendBlocks, SendFails
  <2> QED
    BY <2>1, <2>2, <2>3, <2>4 DEF Sends
<1>2. /\ sock' \in [Conn -> {"open", "invalid"}]
      /\ disconnected' \in [Conn -> BOOLEAN] /\ socketClosed' \in [Conn -> BOOLEAN]
  BY DEF LoopInv, LoopTyped, Sends, SendFront, SendReset, SendShort, SendBlocks,
     SendFails, ShutdownAndClose
<1>3. /\ stage' \in Stages \ {"idle"}
      /\ todo' # << >> <=> stage' \in {"setup", "work", "shortSend"}
      /\ TodoIsOrdered' /\ ReadsAreFresh' /\ (\A v \in Conn : ~Waits(v)')
  <2>1. CASE UNCHANGED << stage, todo >>
    <3>1. /\ UNCHANGED << filter, instruction, needToRead, unfilteredBytes >>
          /\ stage' = "work" /\ todo' = todo
      BY <1>1, <2>1 DEF SendUnchanged
    <3>2. \A v \in Conn : (WillRead(v)' <=> WillRead(v)) /\ (ReadIsFresh(v)' <=> ReadIsFresh(v))
      BY <1>1, <3>1 DEF WillRead, ReadIsFresh
    <3>3. ReadsAreFresh' /\ TodoIsOrdered' /\ todo' # << >>
      BY <1>1, <3>1, <3>2 DEF LoopInv, LoopTyped, TodoIsOrdered, ReadsAreFresh
    <3> QED
      BY <3>1, <3>3 DEF Stages, Waits
  <2>2. CASE NextEvent
    <3>1. \A v \in Conn : /\ filter'[v] = filter[v] /\ instruction'[v] = instruction[v]
                          /\ needToRead'[v] = needToRead[v]
                          /\ unfilteredBytes'[v] = unfilteredBytes[v]
      BY <1>1 DEF SendUnchanged
    <3>2. /\ stage' \in {"compute", "work"}
          /\ todo' # << >> <=> stage' \in {"setup", "work", "shortSend"}
          /\ TodoIsOrdered' /\ ReadsAreFresh'
      BY <1>1, <2>2, <3>1, NextEventKeeps DEF LoopInv
    <3> QED
      BY <3>2 DEF Waits, Stages
  <2>3. CASE stage' \in {"thrown", "blocked"} /\ todo' = << >>
    BY <2>3, EndKeeps DEF HasEnded, Stages
  <2>4. CASE stage' = "shortSend" /\ todo' = todo
    BY <1>1, <2>4, EndKeeps DEF HasEnded, LoopInv, LoopTyped, Stages
  <2> QED
    BY <1>1, <2>1, <2>2, <2>3, <2>4
<1>4. StreamInv'
  BY <1>1, <1>3, WithoutFilter DEF LoopInv, StreamInv, Typed, SendUnchanged, peerVars,
     HasEnded, Waits
<1>5. LoopTyped'
  BY <1>1, <1>2, <1>3 DEF LoopInv, LoopTyped, SendUnchanged
<1> QED
  BY <1>3, <1>4, <1>5 DEF LoopInv

\* An error of recv.
LEMMA RecvFailsKeeps ==
  ASSUME LoopInv, NEW w \in Conn, RecvFails(w)
  PROVE  LoopInv' /\ stage' # "idle"
PROOF
<1>1. stage = "work" /\ stage' = "thrown" /\ todo' = << >>
  BY DEF RecvFails, AtEvent
<1>2. StreamInv'
  BY <1>1, WithoutFilter DEF LoopInv, StreamInv, Typed, RecvFails, sockbufVars, HasEnded, Waits
<1>3. LoopTyped'
  BY <1>1 DEF LoopInv, LoopTyped, RecvFails, RecvUnchanged, sockbufVars, Stages
<1> QED
  BY <1>1, <1>2, <1>3, EndKeeps DEF HasEnded, LoopInv

\* FilterHelper is a run of the filter, and what Helped says of it.
LEMMA HelperRuns ==
  ASSUME NEW w \in Conn, NEW f, NEW stream, NEW taken, NEW disc, NEW first,
         FilterHelper(w, f, stream, taken, disc, first, NextEvent)
  PROVE  \E ran :
           /\ ran = RunWrapper(f, uncommittedBytes[w] \o SubSeq(stream, 1, taken),
                               readSoFar[w] + taken, disc, nextTicket + Len(first))
           /\ Helped(w, stream, taken, first, ran)
           /\ ran.ended = "ok" => NextEvent
           /\ ran.ended # "ok" => stage' = ran.ended /\ todo' = << >>
BY DEF FilterHelper, Helped

\* A run returns an instruction, throws, or stops the program.
LEMMA WrapperEnds ==
  ASSUME NEW S, NEW bytes \in Seq(S), NEW disc \in BOOLEAN, NEW soFar \in Nat,
         NEW f, IsFilter(f), NEW ticket
  PROVE  RunWrapper(f, bytes, soFar, disc, ticket).ended \in {"ok", "thrown", "asserted", "looping"}
PROOF
<1>1. IsRun(RunWrapper(f, bytes, soFar, disc, ticket), f.class, Len(bytes))
  BY WrapperRuns
<1> QED
  BY <1>1 DEF IsRun

\* So does one on the first bytes of a stream.
LEMMA RunEnds ==
  ASSUME LoopInv, ~HasEnded, NEW w \in Conn, NEW f, IsFilter(f),
         NEW stream \in Seq(Alphabet), NEW taken \in 0..Len(stream),
         NEW disc \in BOOLEAN, NEW ticket, NEW ran,
         ran = RunWrapper(f, uncommittedBytes[w] \o SubSeq(stream, 1, taken),
                          readSoFar[w] + taken, disc, ticket)
  PROVE  ran.ended \in {"ok", "thrown", "asserted", "looping"}
PROOF
<1> DEFINE given == uncommittedBytes[w] \o SubSeq(stream, 1, taken)
           soFar == readSoFar[w] + taken
<1>1. SubSeq(stream, 1, taken) \in Seq(Alphabet) /\ uncommittedBytes[w] = << >>
  <2>1. SubSeq(stream, 1, taken) \in Seq(Alphabet)
    BY Split
  <2>2. NothingUncommitted
    BY DEF LoopInv, StreamInv
  <2> QED
    BY <2>1, <2>2 DEF NothingUncommitted
<1>2. given \in Seq(Alphabet)
  BY <1>1, ConcatEmptySeq
<1>3. soFar \in Nat
  BY LenProperties DEF LoopInv, LoopTyped
<1> HIDE DEF given, soFar
<1>4. ran = RunWrapper(f, given, soFar, disc, ticket)
  BY DEF given, soFar
<1> QED
  BY <1>2, <1>3, <1>4, WrapperEnds

\* The receive of an event, with what recv has brought in front of it in stream.
LEMMA RecvRuns ==
  ASSUME LoopInv, NEW w \in Conn, AtEvent("recv", w),
         NEW stream \in Seq(Alphabet), NEW taken \in 0..Len(stream), NEW disc \in BOOLEAN,
         filter[w].class \in {"Passthru", "Data"} /\ IsKnown(filter[w].totalSize) =>
           readSoFar[w] + taken <= filter[w].totalSize,
         FilterHelper(w, filter[w], stream, taken, disc, << >>, NextEvent),
         UNCHANGED << needToRead, timedOut >>,
         toCome' \in [Conn -> Seq(Alphabet)],
         bytesReadSoFar' \in [Conn -> Seq(Alphabet)],
         \A v \in Conn : v # w => bytesReadSoFar'[v] = bytesReadSoFar[v],
         bytesReadSoFar'[w] = consumed[w] \o uncommittedBytes[w] \o stream,
         sock' \in [Conn -> {"open", "invalid"}], disconnected' \in [Conn -> BOOLEAN],
         socketClosed' \in [Conn -> BOOLEAN], readAZero' \in [Conn -> BOOLEAN]
  PROVE  LoopInv' /\ stage' # "idle"
PROOF
<1>1. PICK ran :
        /\ ran = RunWrapper(filter[w], uncommittedBytes[w] \o SubSeq(stream, 1, taken),
                            readSoFar[w] + taken, disc, nextTicket + Len(<< >>))
        /\ Helped(w, stream, taken, << >>, ran)
        /\ ran.ended = "ok" => NextEvent
        /\ ran.ended # "ok" => stage' = ran.ended /\ todo' = << >>
  BY HelperRuns
<1>2. stage = "work" /\ Head(todo) = << "recv", w >>
  BY DEF AtEvent
<1>3. /\ StreamInv /\ ~HasEnded /\ held \subseteq Conn \X (0..nextTicket)
      /\ readSoFar \in [Conn -> Nat] /\ IsFilter(filter[w])
  BY <1>2 DEF LoopInv, StreamInv, Typed, LoopTyped, HasEnded
<1>4. ran.ended \in {"ok", "thrown", "asserted", "looping"}
  BY <1>1, <1>3, RunEnds
<1>5. \A v \in Conn : v # w =>
        /\ filter'[v] = filter[v] /\ instruction'[v] = instruction[v]
        /\ needToRead'[v] = needToRead[v] /\ unfilteredBytes'[v] = unfilteredBytes[v]
  BY <1>1, <1>3 DEF Helped, StreamInv, Typed
<1>6. /\ stage' \in {"compute", "work", "thrown", "asserted", "looping"}
      /\ todo' # << >> <=> stage' \in {"setup", "work", "shortSend"}
      /\ TodoIsOrdered' /\ ReadsAreFresh'
  <2>1. CASE ran.ended = "ok"
    <3>1. NextEvent
      BY <1>1, <2>1
    <3>2. /\ stage' \in {"compute", "work"}
          /\ todo' # << >> <=> stage' \in {"setup", "work", "shortSend"}
          /\ TodoIsOrdered' /\ ReadsAreFresh'
      <4>1. LoopTyped /\ TodoIsOrdered /\ ReadsAreFresh
        BY DEF LoopInv
      <4> QED
        BY <1>2, <1>5, <3>1, <4>1, NextEventKeeps
    <3> QED
      BY <3>2
  <2>2. CASE ran.ended # "ok"
    BY <1>1, <1>4, <2>2, EndKeeps DEF HasEnded
  <2> QED
    BY <2>1, <2>2
<1>7. /\ \A v \in Conn : ~Waits(v)' /\ ~Waits(v)
      /\ ran.ended # "ok" => stage' = ran.ended
  BY <1>1, <1>2, <1>6 DEF Waits
<1>8. << >> \in Seq({})
  BY EmptySeq
<1>9. /\ StreamInv'
      /\ held' \subseteq Conn \X (0..nextTicket')
      /\ readSoFar' \in [Conn -> Nat]
  <2>1. /\ ran = RunWrapper(filter[w], uncommittedBytes[w] \o SubSeq(stream, 1, taken),
                            readSoFar[w] + taken, disc, nextTicket + Len(<< >>))
        /\ Helped(w, stream, taken, << >>, ran)
    BY <1>1
  <2>2. /\ ran.ended # "ok" => stage' = ran.ended
        /\ ~HasEnded' => \A v \in Conn : v # w => (Waits(v)' <=> Waits(v))
        /\ ~Waits(w)'
    BY <1>7
  <2> QED
    BY <1>3, <1>8, <2>1, <2>2, WithFilter
<1>10. LoopTyped'
  BY <1>6, <1>9 DEF LoopInv, LoopTyped, Stages
<1> QED
  BY <1>6, <1>9, <1>10 DEF LoopInv

\* Told of a disconnection, a filter gets no bytes.
LEMMA DisconnectionKeeps ==
  ASSUME LoopInv, NEW w \in Conn, RecvZero(w) \/ RecvReset(w)
  PROVE  LoopInv' /\ stage' # "idle"
PROOF
<1>1. /\ AtEvent("recv", w)
      /\ FilterHelper(w, filter[w], unfilteredBytes[w], 0, TRUE, << >>, NextEvent)
      /\ UNCHANGED << bytesReadSoFar, toCome >> /\ RecvUnchanged
  BY DEF RecvZero, RecvReset
<1>2. /\ sock' \in [Conn -> {"open", "invalid"}] /\ disconnected' \in [Conn -> BOOLEAN]
      /\ socketClosed' \in [Conn -> BOOLEAN] /\ readAZero' \in [Conn -> BOOLEAN]
  BY DEF LoopInv, LoopTyped, RecvZero, RecvReset, ShutdownAndClose
<1>3. /\ toCome \in [Conn -> Seq(Alphabet)] /\ bytesReadSoFar \in [Conn -> Seq(Alphabet)]
      /\ unfilteredBytes[w] \in Seq(Alphabet)
      /\ bytesReadSoFar[w] = consumed[w] \o uncommittedBytes[w] \o unfilteredBytes[w]
  BY DEF LoopInv, StreamInv, Typed, NoByteLost
<1>4. 0 \in 0..Len(unfilteredBytes[w])
  BY <1>3, LenProperties
<1>5. filter[w].class \in {"Passthru", "Data"} /\ IsKnown(filter[w].totalSize) =>
        readSoFar[w] + 0 <= filter[w].totalSize
  BY DEF LoopInv, StreamInv, ThroughIsInTime, LoopTyped
<1> QED
  BY <1>1, <1>2, <1>3, <1>4, <1>5, RecvRuns DEF RecvUnchanged

\* What an instruction's filter gets of a recv, when it gets something, is there,
\* and is no more than a PassthruFilter of known size is still to get.
LEMMA ReceivedIsThere ==
  ASSUME LoopInv, NEW w \in Conn, AtEvent("recv", w),
         NEW buffer \in Seq(Alphabet), NEW n \in Nat, n = Len(buffer),
         NEW stream, stream = unfilteredBytes[w] \o buffer,
         Received(w, stream, n) > 0
  PROVE  /\ Received(w, stream, n) \in 0..Len(stream)
         /\ filter[w].class \in {"Passthru", "Data"} /\ IsKnown(filter[w].totalSize) =>
              readSoFar[w] + Received(w, stream, n) <= filter[w].totalSize
PROOF
<1> DEFINE raw == unfilteredBytes[w]
           need == needToRead[w]
           inst == instruction[w]
           count == inst.count
           len == Len(stream)
           taken == Received(w, stream, n)
<1>1. /\ stage = "work" /\ todo \in Seq(Events)
      /\ 1 \in 1..Len(todo) /\ todo[1] = << "recv", w >>
  BY Handled DEF LoopInv, AtEvent
<1>2. ReadIsFresh(w)
  BY <1>1 DEF LoopInv, ReadsAreFresh, WillRead
<1>3. /\ raw \in Seq(Alphabet) /\ inst \in InstructionSet
      /\ need \in Nat \union {UNKNOWN} /\ readSoFar[w] \in Nat
  BY DEF LoopInv, StreamInv, Typed, LoopTyped
<1>4. /\ stream \in Seq(Alphabet) /\ len = Len(raw) + n
      /\ Len(raw) \in Nat /\ len \in Nat
  BY <1>3, ConcatProperties, LenProperties
<1>5. need \in Int /\ count \in Nat
      /\ inst.type \in {"ThruDelimiter", "BytesMax", "BytesExact", "BytesUnknown"}
  BY <1>2, <1>3 DEF UNKNOWN, InstructionSet, ReadIsFresh
<1>6. taken \in 0..len
  <2>1. CASE inst.type = "BytesUnknown"
    <3>1. taken = len
      BY <2>1 DEF Received
    <3> QED
      BY <1>4, <3>1
  <2>2. CASE inst.type = "BytesMax"
    <3>1. taken = Least(n, need)
      BY <2>2 DEF Received
    <3> HIDE DEF taken, need, len
    <3> QED
      BY <1>4, <1>5, <3>1 DEF Least, taken
  <2>3. CASE inst.type = "ThruDelimiter"
    <3>1. taken = ThroughDelimiter(stream)
      BY <2>3 DEF Received
    <3> QED
      BY <1>4, <3>1, DelimiterIsInside
  <2>4. CASE inst.type = "BytesExact"
    <3>1. taken = IF n >= need THEN len - n + need ELSE 0
      BY <2>4 DEF Received
    <3>2. taken > 0
      OBVIOUS
    <3> HIDE DEF taken, need, len
    <3> QED
      BY <1>4, <1>5, <3>1, <3>2
  <2> QED
    BY <1>5, <2>1, <2>2, <2>3, <2>4
<1>7. ASSUME filter[w].class \in {"Passthru", "Data"}, IsKnown(filter[w].totalSize)
      PROVE  readSoFar[w] + taken <= filter[w].totalSize
  <2>1. ThroughFits(filter[w], inst, readSoFar[w])
    BY <1>1 DEF LoopInv, StreamInv, ThroughIsInTime, Waits, HasEnded
  <2>2. /\ inst.type = "BytesMax" /\ count = filter[w].totalSize - readSoFar[w]
        /\ readSoFar[w] <= filter[w].totalSize
    BY <1>2, <1>7, <2>1 DEF ThroughFits, ReadIsFresh
  <2>3. need = count
    BY <1>2, <1>7, <2>2 DEF ReadIsFresh
  <2>4. taken = Least(n, count)
    BY <2>2, <2>3 DEF Received
  <2>5. filter[w].totalSize \in Nat
    BY <1>7 DEF LoopInv, StreamInv, Typed, IsFilter, IsKnown
  <2>6. taken <= count
    BY <1>5, <2>4 DEF Least
  <2> HIDE DEF taken
  <2> QED
    BY <1>3, <1>6, <2>2, <2>5, <2>6
<1> QED
  BY <1>6, <1>7

\* A recv that brings bytes: they go behind the unfiltered ones, and then to the filter.
LEMMA RecvDataKeeps ==
  ASSUME LoopInv, NEW w \in Conn, RecvData(w)
  PROVE  LoopInv' /\ stage' # "idle"
PROOF
<1> DEFINE buffer(n) == SubSeq(toCome[w], 1, n)
           stream(n) == WithUnfiltered(w, buffer(n))
<1>1. PICK n \in 1..Least(MaxRecv, Len(toCome[w])) :
        /\ toCome' = [toCome EXCEPT ![w] = From(@, n + 1)]
        /\ bytesReadSoFar' = [bytesReadSoFar EXCEPT ![w] = @ \o buffer(n)]
        /\ IF Received(w, stream(n), n) > 0
             THEN FilterHelper(w, filter[w], stream(n), Received(w, stream(n), n),
                               FALSE, << >>, NextEvent)
             ELSE /\ unfilteredBytes' = [unfilteredBytes EXCEPT ![w] = stream(n)]
                  /\ NextEvent
                  /\ UNCHANGED << uncommittedBytes, placeholders, filter,
                                  instruction, readSoFar, held, nextTicket,
                                  consumed >>
  BY DEF RecvData
<1>2. /\ AtEvent("recv", w) /\ RecvUnchanged
      /\ UNCHANGED << sock, disconnected, socketClosed, readAZero >>
  BY DEF RecvData
<1>3. /\ toCome \in [Conn -> Seq(Alphabet)] /\ bytesReadSoFar \in [Conn -> Seq(Alphabet)]
      /\ unfilteredBytes \in [Conn -> Seq(Alphabet)]
      /\ uncommittedBytes \in [Conn -> Seq(Alphabet)]
      /\ consumed \in [Conn -> Seq(Alphabet)]
      /\ bytesReadSoFar[w] = consumed[w] \o uncommittedBytes[w] \o unfilteredBytes[w]
  BY DEF LoopInv, StreamInv, Typed, NoByteLost
<1>4. n \in 0..Len(toCome[w]) /\ n \in Nat
  <2>1. toCome[w] \in Seq(Alphabet)
    BY <1>3
  <2>2. Len(toCome[w]) \in Nat /\ MaxRecv \in Nat
    BY <2>1, ParasockAssumption, LenProperties
  <2> QED
    BY <2>2 DEF Least
<1> DEFINE buf == buffer(n)
           str == stream(n)
           all == consumed[w]
           raw == unfilteredBytes[w]
<1>5. buf \in Seq(Alphabet) /\ Len(buf) = n /\ From(toCome[w], n + 1) \in Seq(Alphabet)
  BY <1>3, <1>4, Split
<1>6. str = raw \o buf
  BY DEF WithUnfiltered
<1>7. str \in Seq(Alphabet) /\ all \in Seq(Alphabet) /\ raw \in Seq(Alphabet)
  <2>1. all \in Seq(Alphabet) /\ raw \in Seq(Alphabet)
    BY <1>3
  <2> HIDE DEF buf, raw, str
  <2> QED
    BY <1>5, <1>6, <2>1, ConcatProperties
<1>8. uncommittedBytes[w] = << >>
  BY <1>2 DEF LoopInv, StreamInv, NothingUncommitted, HasEnded, AtEvent
<1>9. all \o << >> = all
  BY <1>7, ConcatEmptySeq
<1>10. bytesReadSoFar'[w] = all \o str
  <2>1. bytesReadSoFar'[w] = bytesReadSoFar[w] \o buf
    BY <1>1, <1>3
  <2>2. bytesReadSoFar[w] = all \o raw
    BY <1>3, <1>8, <1>9
  <2> HIDE DEF all, buf, raw, str
  <2>3. all \o raw \o buf = all \o (raw \o buf)
    BY <1>5, <1>7, Regrouped, SMTT(60)
  <2>4. bytesReadSoFar'[w] = all \o raw \o buf
    BY <2>1, <2>2
  <2> QED
    BY <1>6, <2>3, <2>4
<1>11. bytesReadSoFar'[w] = consumed[w] \o uncommittedBytes[w] \o str
  BY <1>8, <1>9, <1>10
<1>12. toCome' \in [Conn -> Seq(Alphabet)]
  BY <1>1, <1>3, <1>5
<1>13. /\ bytesReadSoFar' \in [Conn -> Seq(Alphabet)]
       /\ \A v \in Conn : v # w => bytesReadSoFar'[v] = bytesReadSoFar[v]
  <2>1. all \o str \in Seq(Alphabet)
    <3> HIDE DEF all, str
    <3> QED
      BY <1>7, ConcatProperties
  <2>2. bytesReadSoFar' = [bytesReadSoFar EXCEPT ![w] = all \o str]
    BY <1>1, <1>3, <1>10
  <2> HIDE DEF all, str
  <2> QED
    BY <1>3, <2>1, <2>2
<1>14. /\ sock' \in [Conn -> {"open", "invalid"}] /\ disconnected' \in [Conn -> BOOLEAN]
       /\ socketClosed' \in [Conn -> BOOLEAN] /\ readAZero' \in [Conn -> BOOLEAN]
  BY <1>2 DEF LoopInv, LoopTyped
<1>15. CASE Received(w, str, n) > 0
  <2> DEFINE taken == Received(w, str, n)
  <2>1. FilterHelper(w, filter[w], str, taken, FALSE, << >>, NextEvent)
    BY <1>1, <1>15
  <2> HIDE DEF buf, str
  <2>2. /\ taken \in 0..Len(str)
        /\ filter[w].class \in {"Passthru", "Data"} /\ IsKnown(filter[w].totalSize) =>
             readSoFar[w] + taken <= filter[w].totalSize
    BY <1>2, <1>4, <1>5, <1>6, <1>15, ReceivedIsThere
  <2>3. UNCHANGED << needToRead, timedOut >>
    BY <1>2 DEF RecvUnchanged
  <2> HIDE DEF taken
  <2> QED
    BY <1>2, <1>7, <1>11, <1>12, <1>13, <1>14, <2>1, <2>2, <2>3, RecvRuns
<1>16. CASE ~(Received(w, str, n) > 0)
  <2>1. /\ unfilteredBytes' = [unfilteredBytes EXCEPT ![w] = str]
        /\ NextEvent
        /\ UNCHANGED << uncommittedBytes, placeholders, filter, instruction, readSoFar,
                        held, nextTicket, consumed >>
    BY <1>1, <1>16
  <2> HIDE DEF buf, str, all, raw
  <2>2. UNCHANGED << needToRead, timedOut >>
    BY <1>2 DEF RecvUnchanged
  <2>3. stage = "work" /\ Head(todo) = << "recv", w >>
    BY <1>2 DEF AtEvent
  <2>4. \A v \in Conn : v # w =>
          /\ filter'[v] = filter[v] /\ instruction'[v] = instruction[v]
          /\ needToRead'[v] = needToRead[v] /\ unfilteredBytes'[v] = unfilteredBytes[v]
    BY <1>3, <2>1, <2>2
  <2>5. /\ stage' \in {"compute", "work"}
        /\ todo' # << >> <=> stage' \in {"setup", "work", "shortSend"}
        /\ TodoIsOrdered' /\ ReadsAreFresh'
    <3>1. LoopTyped /\ TodoIsOrdered /\ ReadsAreFresh
      BY DEF LoopInv
    <3> QED
      BY <2>1, <2>3, <2>4, <3>1, NextEventKeeps
  <2>6. unfilteredBytes' \in [Conn -> Seq(Alphabet)] /\ unfilteredBytes'[w] = str
        /\ \A v \in Conn : v # w => unfilteredBytes'[v] = unfilteredBytes[v]
    BY <1>3, <1>7, <2>1
  <2>7. Typed'
    BY <1>12, <1>13, <2>1, <2>6 DEF LoopInv, StreamInv, Typed
  <2>8. NoByteLost'
    <3>1. consumed' = consumed /\ uncommittedBytes' = uncommittedBytes
      BY <2>1
    <3>2. bytesReadSoFar'[w]
            = consumed'[w] \o uncommittedBytes'[w] \o unfilteredBytes'[w]
      BY <1>11, <2>6, <3>1
    <3>3. \A v \in Conn : v # w =>
            bytesReadSoFar'[v] = consumed'[v] \o uncommittedBytes'[v] \o unfilteredBytes'[v]
      BY <1>13, <2>6, <3>1 DEF LoopInv, StreamInv, NoByteLost
    <3> QED
      BY <3>2, <3>3 DEF NoByteLost
  <2>9. NothingUncommitted' /\ ThroughIsInTime'
    <3>1. ~HasEnded /\ \A v \in Conn : ~Waits(v) /\ ~Waits(v)'
      BY <2>3, <2>5 DEF HasEnded, Waits
    <3> QED
      BY <2>1, <3>1 DEF LoopInv, StreamInv, NothingUncommitted, ThroughIsInTime
  <2>10. LoopTyped'
    BY <1>14, <2>1, <2>2, <2>5 DEF LoopInv, LoopTyped, Stages
  <2> QED
    BY <2>5, <2>7, <2>8, <2>9, <2>10 DEF LoopInv, StreamInv
<1> QED
  BY <1>15, <1>16

\* The same of the bytes that are already buffered.
LEMMA SatisfiedIsThere ==
  ASSUME LoopInv, NEW w \in Conn, stage = "compute", CanFilter(w)
  PROVE  /\ Satisfied(w) \in 0..Len(unfilteredBytes[w])
         /\ filter[w].class \in {"Passthru", "Data"} /\ IsKnown(filter[w].totalSize) =>
              readSoFar[w] + Satisfied(w) <= filter[w].totalSize
PROOF
<1> DEFINE raw == unfilteredBytes[w]
           inst == instruction[w]
           count == inst.count
           len == Len(raw)
           taken == Satisfied(w)
<1>1. /\ raw \in Seq(Alphabet) /\ inst \in InstructionSet /\ readSoFar[w] \in Nat
      /\ uncommittedBytes[w] = << >>
  BY DEF LoopInv, StreamInv, Typed, LoopTyped, NothingUncommitted, HasEnded
<1>2. len \in Nat /\ Len(uncommittedBytes[w]) = 0
  BY <1>1, LenProperties, EmptySeq
<1>3. /\ count \in Nat /\ inst.type # "QuitFilter" /\ taken > 0
      /\ inst.type \in {"ThruDelimiter", "BytesMax", "BytesExact", "BytesUnknown"}
  BY <1>1 DEF InstructionSet, CanFilter, Reading
<1>4. CASE inst.type = "BytesUnknown"
  <2>1. taken = len
    BY <1>4 DEF Satisfied
  <2>2. ~(filter[w].class \in {"Passthru", "Data"} /\ IsKnown(filter[w].totalSize))
    BY <1>4 DEF LoopInv, StreamInv, ThroughIsInTime, ThroughFits, Waits, HasEnded
  <2> QED
    BY <1>2, <2>1, <2>2
<1>5. CASE inst.type = "ThruDelimiter"
  <2>1. taken = ThroughDelimiter(raw)
    BY <1>5 DEF Satisfied
  <2>2. ~(filter[w].class \in {"Passthru", "Data"} /\ IsKnown(filter[w].totalSize))
    BY <1>5 DEF LoopInv, StreamInv, ThroughIsInTime, ThroughFits, Waits, HasEnded
  <2> QED
    BY <1>1, <2>1, <2>2, DelimiterIsInside
<1>6. CASE inst.type = "BytesExact"
  <2>1. taken = IF 0 + len >= count THEN count - 0 ELSE 0
    BY <1>2, <1>6 DEF Satisfied
  <2>2. ~(filter[w].class \in {"Passthru", "Data"} /\ IsKnown(filter[w].totalSize))
    BY <1>6 DEF LoopInv, StreamInv, ThroughIsInTime, ThroughFits, Waits, HasEnded
  <2>3. taken \in 0..len
    <3> HIDE DEF taken, len, count
    <3> QED
      BY <1>2, <1>3, <2>1
  <2> QED
    BY <2>2, <2>3
<1>7. CASE inst.type = "BytesMax"
  <2>1. taken = IF count <= 0 THEN 0 ELSE Least(count - 0, len)
    BY <1>2, <1>7 DEF Satisfied
  <2>2. taken \in 0..len /\ taken <= count
    <3> HIDE DEF taken, len, count
    <3> QED
      BY <1>2, <1>3, <2>1 DEF Least
  <2>3. ASSUME filter[w].class \in {"Passthru", "Data"}, IsKnown(filter[w].totalSize)
        PROVE  readSoFar[w] + taken <= filter[w].totalSize
    <3>1. ThroughFits(filter[w], inst, readSoFar[w])
      BY DEF LoopInv, StreamInv, ThroughIsInTime, Waits, HasEnded
    <3>2. count = filter[w].totalSize - readSoFar[w]
      BY <1>7, <2>3, <3>1 DEF ThroughFits
    <3>3. filter[w].totalSize \in Nat
      BY <2>3 DEF LoopInv, StreamInv, Typed, IsFilter, IsKnown
    <3> HIDE DEF taken
    <3> QED
      BY <1>1, <1>2, <2>2, <3>2, <3>3
  <2> QED
    BY <2>2, <2>3
<1> QED
  BY <1>3, <1>4, <1>5, <1>6, <1>7

\* LTryAgain on the bytes that are already buffered.
LEMMA FilterBufferedKeeps ==
  ASSUME LoopInv, NEW w \in Conn, FilterBuffered(w)
  PROVE  LoopInv' /\ stage' # "idle"
PROOF
<1> DEFINE stream == unfilteredBytes[w]
           taken == Satisfied(w)
<1>1. /\ stage = "compute" /\ CanFilter(w)
      /\ UNCHANGED << sock, disconnected, bytesReadSoFar, socketClosed, readAZero,
                      needToRead, toCome >>
  BY DEF FilterBuffered, peerVars
<1>2. PICK ran :
        /\ ran = RunWrapper(filter[w], uncommittedBytes[w] \o SubSeq(stream, 1, taken),
                            readSoFar[w] + taken, FALSE, nextTicket + Len(<< >>))
        /\ Helped(w, stream, taken, << >>, ran)
        /\ ran.ended = "ok" => UNCHANGED << stage, todo >>
        /\ ran.ended # "ok" => stage' = ran.ended /\ todo' = << >>
  BY DEF FilterBuffered, FilterHelper, Helped
<1>3. /\ StreamInv /\ ~HasEnded /\ held \subseteq Conn \X (0..nextTicket)
      /\ readSoFar \in [Conn -> Nat] /\ IsFilter(filter[w])
      /\ stream \in Seq(Alphabet)
  BY <1>1 DEF LoopInv, StreamInv, Typed, LoopTyped, HasEnded
<1>4. /\ taken \in 0..Len(stream)
      /\ filter[w].class \in {"Passthru", "Data"} /\ IsKnown(filter[w].totalSize) =>
           readSoFar[w] + taken <= filter[w].totalSize
  BY <1>1, SatisfiedIsThere
<1> HIDE DEF taken
<1>5. ran.ended \in {"ok", "thrown", "asserted", "looping"}
  <2> HIDE DEF stream
  <2> QED
    BY <1>2, <1>3, <1>4, RunEnds
<1>6. /\ stage' \in {"compute", "thrown", "asserted", "looping"} /\ todo' = << >>
      /\ \A v \in Conn : ~Waits(v)
  BY <1>1, <1>2, <1>5 DEF LoopInv, LoopTyped, Waits
<1>7. TodoIsOrdered' /\ ReadsAreFresh' /\ \A v \in Conn : ~Waits(v)'
  BY <1>6, EndKeeps DEF HasEnded
<1>8. << >> \in Seq({}) /\ toCome' \in [Conn -> Seq(Alphabet)]
      /\ bytesReadSoFar' \in [Conn -> Seq(Alphabet)]
      /\ bytesReadSoFar'[w] = consumed[w] \o uncommittedBytes[w] \o stream
  BY <1>1, EmptySeq DEF LoopInv, StreamInv, Typed, NoByteLost
<1>9. /\ StreamInv'
      /\ held' \subseteq Conn \X (0..nextTicket')
      /\ readSoFar' \in [Conn -> Nat]
  <2> HIDE DEF stream
  <2> QED
    BY <1>1, <1>2, <1>3, <1>4, <1>6, <1>7, <1>8, WithFilter
<1>10. LoopTyped'
  BY <1>1, <1>6, <1>9 DEF LoopInv, LoopTyped, Stages
<1> QED
  BY <1>6, <1>7, <1>9, <1>10 DEF LoopInv

\* A filter begins with an instruction that it may give.
LEMMA FiltersBegin ==
  ASSUME NEW f, IsFilter(f), NEW ticket
  PROVE  /\ FirstInstruction(f) \in InstructionSet
         /\ ThroughFits(f, FirstInstruction(f), 0)
         /\ \E T : FirstOutputs(f) \in Seq(T)
         /\ IsFilter(Begun(f, ticket)) /\ Begun(f, ticket).class = f.class
         /\ f.class # "Chunked" => Begun(f, ticket) = f
PROOF
<1>1. /\ IsFilter(Begun(f, ticket)) /\ Begun(f, ticket).class = f.class
      /\ f.class # "Chunked" => Begun(f, ticket) = f
  BY DEF Begun, WithChunk, IsFilter
<1>2. \E T : FirstOutputs(f) \in Seq(T)
  <2>1. << >> \in Seq({})
    BY EmptySeq
  <2>2. NewChunk \in Seq({Own, String(CRLF)})
    BY DEF NewChunk
  <2>3. << String(f.sendFirst) >> \in Seq({String(f.sendFirst)})
    OBVIOUS
  <2>4. CASE f.class = "Chunked"
    BY <2>2, <2>4 DEF FirstOutputs
  <2>5. CASE f.class = "Passthru" /\ f.sendFirst # << >>
    BY <2>3, <2>5 DEF FirstOutputs
  <2>6. CASE ~(f.class = "Chunked") /\ ~(f.class = "Passthru" /\ f.sendFirst # << >>)
    BY <2>1, <2>6 DEF FirstOutputs
  <2> QED
    BY <2>4, <2>5, <2>6
<1>3. CASE f.class \in {"Passthru", "Data"}
  <2>1. FirstInstruction(f) = SubFirstInstruction(f.totalSize)
    BY <1>3 DEF FirstInstruction
  <2>2. f.totalSize \in Nat \union {UNKNOWN}
    BY <1>3 DEF IsFilter
  <2>3. CASE f.totalSize = 0
    <3>1. FirstInstruction(f) = QuitFilter(0) /\ IsKnown(0)
      BY <2>1, <2>3 DEF SubFirstInstruction, IsKnown, UNKNOWN
    <3>2. FirstInstruction(f).type = "QuitFilter"
      BY <3>1 DEF QuitFilter, Instruction
    <3>3. FirstInstruction(f) \in InstructionSet
      BY <3>1, InstructionsAreTyped
    <3>4. 0 <= f.totalSize
      BY <2>3
    <3>5. ThroughFits(f, FirstInstruction(f), 0)
      BY <2>3, <3>2, <3>4 DEF ThroughFits
    <3> QED
      BY <1>1, <1>2, <3>3, <3>5
  <2>4. CASE f.totalSize # 0 /\ f.totalSize \in Nat
    <3>1. FirstInstruction(f) = BytesMax(f.totalSize, 0)
      BY <2>1, <2>4 DEF SubFirstInstruction, IsKnown, UNKNOWN
    <3>2. FirstInstruction(f).type = "BytesMax" /\ FirstInstruction(f).count = f.totalSize
      BY <3>1 DEF BytesMax, Instruction
    <3>3. FirstInstruction(f) \in InstructionSet
      BY <2>4, <3>1, InstructionsAreTyped
    <3>4. f.totalSize > 0 /\ f.totalSize - 0 = f.totalSize
      BY <2>4
    <3>5. ThroughFits(f, FirstInstruction(f), 0)
      <4> DEFINE inst == FirstInstruction(f)
                 total == f.totalSize
      <4>1. /\ inst.type = "BytesMax" /\ inst.count = total
            /\ 0 <= total /\ total - 0 = total /\ total > 0
        BY <2>4, <3>2
      <4> HIDE DEF inst, total
      <4>2. inst.count = total - 0 /\ inst.count > 0
        BY <4>1
      <4> QED
        BY <4>1, <4>2 DEF ThroughFits, inst, total
    <3> QED
      BY <1>1, <1>2, <3>3, <3>5
  <2>5. CASE f.totalSize = UNKNOWN
    <3>1. ~IsKnown(f.totalSize) /\ f.totalSize # 0
      BY <2>5 DEF IsKnown, UNKNOWN
    <3>2. FirstInstruction(f) = BytesUnknown(0)
      BY <2>1, <3>1 DEF SubFirstInstruction
    <3>3. FirstInstruction(f) \in InstructionSet
      BY <3>2, InstructionsAreTyped
    <3> QED
      BY <1>1, <1>2, <3>1, <3>3 DEF ThroughFits
  <2> QED
    BY <2>2, <2>3, <2>4, <2>5
<1>4. CASE f.class \notin {"Passthru", "Data"}
  <2>1. FirstInstruction(f) = QuitFilter(0) \/ FirstInstruction(f) = ThruDelimiter(0)
    BY <1>4 DEF FirstInstruction, IsFilter, Classes
  <2>2. FirstInstruction(f) \in InstructionSet
    BY <2>1, InstructionsAreTyped
  <2> QED
    BY <1>1, <1>2, <1>4, <2>2 DEF ThroughFits
<1> QED
  BY <1>3, <1>4

\* Setup goes from one direction to the next.
LEMMA NextSetupTurns ==
  ASSUME TodoIsOrdered, stage = "setup", NextSetup, NEW w, w = Head(todo)
  PROVE  /\ w \in Conn /\ Waits(w) /\ ~Waits(w)'
         /\ \A v \in Conn : v # w => (Waits(v)' <=> Waits(v))
PROOF
<1>1. todo' = Tail(todo) /\ stage' = IF Tail(todo) = << >> THEN "compute" ELSE "setup"
  BY DEF NextSetup
<1>2. << "server" >> # << "client", "server" >> /\ << "server" >> # << >>
  <2>1. Len(<< "server" >>) = 1 /\ Len(<< "client", "server" >>) = 2 /\ Len(<< >>) = 0
    OBVIOUS
  <2> QED
    BY <2>1
<1>3. CASE todo = << "client", "server" >>
  <2>1. w = "client" /\ todo' = << "server" >> /\ stage' = "setup"
    BY <1>1, <1>2, <1>3
  <2> QED
    BY <1>2, <1>3, <2>1 DEF Waits, Conn
<1>4. CASE todo = << "server" >>
  <2>1. w = "server" /\ stage' = "compute"
    BY <1>1, <1>4
  <2> QED
    BY <1>2, <1>4, <2>1 DEF Waits, Conn
<1> QED
  BY <1>3, <1>4 DEF TodoIsOrdered

\* Setup takes the directions in their order; each has read nothing yet.
LEMMA SetupKeeps ==
  ASSUME LoopInv, Setup
  PROVE  LoopInv' /\ stage' # "idle"
PROOF
<1>1. stage = "setup" /\ todo \in {<< "client", "server" >>, << "server" >>}
  BY DEF Setup, LoopInv, TodoIsOrdered
<1>2. Head(todo) \in Conn
  <2>1. CASE todo = << "client", "server" >>
    BY <2>1 DEF Conn
  <2>2. CASE todo = << "server" >>
    BY <2>2 DEF Conn
  <2> QED
    BY <1>1, <2>1, <2>2
<1>3. PICK w \in Conn : w = Head(todo)
  BY <1>2
<1> DEFINE f == Begun(filter[w], nextTicket)
           inst == FirstInstruction(filter[w])
           first == FirstOutputs(filter[w])
           stream == unfilteredBytes[w]
<1>4. /\ w \in Conn
      /\ \/ w = "client" /\ Tail(todo) = << "server" >> /\ todo = << "client", "server" >>
         \/ w = "server" /\ Tail(todo) = << >> /\ todo = << "server" >>
      /\ Waits(w)
  <2>1. CASE todo = << "client", "server" >>
    <3>1. w = "client" /\ Tail(todo) = << "server" >>
      BY <1>3, <2>1
    <3> QED
      BY <1>1, <2>1, <3>1 DEF Waits
  <2>2. CASE todo = << "server" >>
    <3>1. w = "server" /\ Tail(todo) = << >>
      BY <1>3, <2>2
    <3> QED
      BY <1>1, <2>2, <3>1 DEF Waits
  <2> QED
    BY <1>1, <2>1, <2>2
<1>5. /\ UNCHANGED << sock, disconnected, bytesReadSoFar, readAZero, needToRead, toCome >>
      /\ socketClosed' \in [Conn -> BOOLEAN]
  <2>1. socketClosed' = [socketClosed EXCEPT ![w] = (sock[w] = "invalid")]
    BY <1>3 DEF Setup
  <2>2. (sock[w] = "invalid") \in BOOLEAN
    OBVIOUS
  <2>3. UNCHANGED << sock, disconnected, bytesReadSoFar, readAZero, needToRead, toCome >>
    BY DEF Setup, peerVars
  <2> QED
    BY <2>1, <2>2, <2>3 DEF LoopInv, LoopTyped
<1>6. /\ inst \in InstructionSet /\ ThroughFits(filter[w], inst, 0)
      /\ IsFilter(f) /\ f.class = filter[w].class
      /\ f.class # "Chunked" => f = filter[w]
      /\ \E T : first \in Seq(T)
      /\ IsFilter(filter[w])
  <2>1. IsFilter(filter[w])
    BY <1>4 DEF LoopInv, StreamInv, Typed
  <2> QED
    BY <2>1, FiltersBegin
<1>7. PICK T : first \in Seq(T)
  BY <1>6
<1>8. /\ StreamInv /\ ~HasEnded /\ held \subseteq Conn \X (0..nextTicket)
      /\ readSoFar \in [Conn -> Nat] /\ stream \in Seq(Alphabet) /\ readSoFar[w] = 0
      /\ Len(stream) \in Nat
  <2>1. StreamInv /\ ~HasEnded /\ held \subseteq Conn \X (0..nextTicket)
        /\ readSoFar \in [Conn -> Nat] /\ unfilteredBytes \in [Conn -> Seq(Alphabet)]
    BY <1>1 DEF LoopInv, StreamInv, Typed, LoopTyped, HasEnded
  <2>2. readSoFar[w] = 0
    BY <1>4 DEF LoopInv, StreamInv, ThroughIsInTime
  <2> QED
    BY <1>4, <2>1, <2>2, LenProperties
<1>9. NextSetup =>
        /\ stage' \in {"setup", "compute"}
        /\ todo' # << >> <=> stage' \in {"setup", "work", "shortSend"}
        /\ TodoIsOrdered' /\ ReadsAreFresh'
        /\ ~Waits(w)'
        /\ \A v \in Conn : v # w => (Waits(v)' <=> Waits(v))
  <2> SUFFICES ASSUME NextSetup
               PROVE  /\ stage' \in {"setup", "compute"}
                      /\ todo' # << >> <=> stage' \in {"setup", "work", "shortSend"}
                      /\ TodoIsOrdered' /\ ReadsAreFresh'
    BY <1>1, <1>3, NextSetupTurns DEF LoopInv
  <2>1. todo' = Tail(todo) /\ stage' = IF Tail(todo) = << >> THEN "compute" ELSE "setup"
    BY DEF NextSetup
  <2>2. Tail(todo) = << "server" >> \/ Tail(todo) = << >>
    BY <1>4
  <2>3. << "server" >> # << >>
    OBVIOUS
  <2> QED
    BY <2>1, <2>2, <2>3 DEF TodoIsOrdered, ReadsAreFresh, WillRead
<1>10. toCome' \in [Conn -> Seq(Alphabet)] /\ bytesReadSoFar' \in [Conn -> Seq(Alphabet)]
  BY <1>5 DEF LoopInv, StreamInv, Typed
<1>11. CASE sock[w] = "invalid" /\ inst.type # "QuitFilter"
  <2> DEFINE taken == 0
  <2>1. FilterHelper(w, f, stream, taken, TRUE, first, NextSetup)
    BY <1>3, <1>11 DEF Setup
  <2>0. taken = 0
    OBVIOUS
  <2> HIDE DEF f, inst, first, stream, taken
  <2>2. PICK ran :
          /\ ran = RunWrapper(f, uncommittedBytes[w] \o SubSeq(stream, 1, taken),
                              readSoFar[w] + taken, TRUE, nextTicket + Len(first))
          /\ Helped(w, stream, taken, first, ran)
          /\ ran.ended = "ok" => NextSetup
          /\ ran.ended # "ok" => stage' = ran.ended /\ todo' = << >>
    BY <2>1 DEF FilterHelper, Helped
  <2>3. taken \in 0..Len(stream)
    BY <1>8, <2>0
  <2>4. ran.ended \in {"ok", "thrown", "asserted", "looping"}
    BY <1>6, <1>8, <2>2, <2>3, RunEnds
  <2>5. /\ stage' \in {"setup", "compute", "thrown", "asserted", "looping"}
        /\ todo' # << >> <=> stage' \in {"setup", "work", "shortSend"}
        /\ TodoIsOrdered' /\ ReadsAreFresh' /\ ~Waits(w)'
        /\ ~HasEnded' => \A v \in Conn : v # w => (Waits(v)' <=> Waits(v))
    <3>1. CASE ran.ended = "ok"
      BY <1>9, <2>2, <3>1
    <3>2. CASE ran.ended # "ok"
      <4>1. stage' \in {"thrown", "asserted", "looping"} /\ todo' = << >>
        BY <2>2, <2>4, <3>2
      <4>2. TodoIsOrdered' /\ ReadsAreFresh' /\ \A v \in Conn : ~Waits(v)'
        BY <4>1, EndKeeps DEF HasEnded
      <4>3. HasEnded'
        BY <4>1 DEF HasEnded
      <4>4. stage' \notin {"setup", "work", "shortSend"} /\ ~(todo' # << >>)
        BY <4>1
      <4>5. w \in Conn
        BY <1>4
      <4>6. stage' \in {"setup", "compute", "thrown", "asserted", "looping"}
        BY <4>1
      <4> QED
        BY <4>2, <4>3, <4>4, <4>5, <4>6
    <3> QED
      BY <3>1, <3>2
  <2>6. /\ StreamInv'
        /\ held' \subseteq Conn \X (0..nextTicket')
        /\ readSoFar' \in [Conn -> Nat]
    <3>1. bytesReadSoFar'[w] = consumed[w] \o uncommittedBytes[w] \o stream
          /\ \A v \in Conn : bytesReadSoFar'[v] = bytesReadSoFar[v]
      BY <1>4, <1>5, <1>8 DEF StreamInv, NoByteLost, stream
    <3>2. f.class \in {"Passthru", "Data"} => f = filter[w]
      BY <1>6
    <3>3. f.class \in {"Passthru", "Data"} /\ IsKnown(f.totalSize) => readSoFar[w] + taken <= f.totalSize
      BY <1>6, <1>8, <2>0 DEF IsFilter, IsKnown
    <3>4. ran.ended # "ok" => stage' = ran.ended
      BY <2>2
    <3> QED
      <4>1. /\ w \in Conn /\ IsFilter(f) /\ f.class = filter[w].class
            /\ ~Waits(w)' /\ first \in Seq(T)
        BY <1>4, <1>6, <1>7, <2>5
      <4>2. ~HasEnded' => \A v \in Conn : v # w => (Waits(v)' <=> Waits(v))
        BY <2>5
      <4>3. /\ ran = RunWrapper(f, uncommittedBytes[w] \o SubSeq(stream, 1, taken),
                                readSoFar[w] + taken, TRUE, nextTicket + Len(first))
            /\ Helped(w, stream, taken, first, ran)
        BY <2>2
      <4> QED
        BY <1>8, <1>10, <2>3, <3>1, <3>2, <3>3, <3>4, <4>1, <4>2, <4>3, WithFilter
  <2>7. LoopTyped'
    BY <1>5, <2>5, <2>6 DEF LoopInv, LoopTyped, Stages
  <2> QED
    BY <2>5, <2>6, <2>7 DEF LoopInv
<1>12. CASE ~(sock[w] = "invalid" /\ inst.type # "QuitFilter")
  <2>1. /\ instruction' = [instruction EXCEPT ![w] = inst]
        /\ filter' = [filter EXCEPT ![w] = f]
        /\ FilterOutputs(Other(w), first)
        /\ NextSetup
        /\ UNCHANGED << readSoFar, unfilteredBytes, uncommittedBytes, consumed >>
    BY <1>3, <1>12 DEF Setup
  <2> HIDE DEF f, inst, first, stream
  <2>2. nextTicket' \in Nat /\ held' \subseteq Conn \X (0..nextTicket')
    <3>1. Other(w) \in Conn
      BY DEF Other, Conn
    <3>2. nextTicket \in Nat
      BY <1>8 DEF StreamInv, Typed
    <3> QED
      BY <1>7, <1>8, <2>1, <3>1, <3>2, OutputsAreTyped
  <2>3. Typed'
    BY <1>6, <1>8, <1>10, <2>1, <2>2 DEF StreamInv, Typed
  <2>4. NoByteLost'
    BY <1>5, <1>8, <2>1 DEF StreamInv, NoByteLost
  <2>5. NothingUncommitted'
    BY <1>8, <2>1 DEF StreamInv, NothingUncommitted
  <2>6. ThroughIsInTime'
    <3>1. /\ DOMAIN filter = Conn /\ filter'[w] = f /\ instruction'[w] = inst
          /\ readSoFar' = readSoFar
          /\ \A v \in Conn : v # w => filter'[v] = filter[v] /\ instruction'[v] = instruction[v]
      BY <1>4, <1>8, <2>1 DEF StreamInv, Typed
    <3>2. ThroughFits(f, inst, readSoFar[w])
      BY <1>6, <1>8 DEF ThroughFits
    <3>3. f.class \in {"Passthru", "Data"} /\ IsKnown(f.totalSize) => readSoFar[w] <= f.totalSize
      BY <3>2 DEF ThroughFits
    <3>4. ~Waits(w)' /\ \A v \in Conn : v # w => (Waits(v)' <=> Waits(v))
      BY <1>9, <2>1
    <3> QED
      BY <1>8, <3>1, <3>2, <3>3, <3>4 DEF StreamInv, ThroughIsInTime
  <2>7. LoopTyped'
    BY <1>5, <1>9, <2>1, <2>2 DEF LoopInv, LoopTyped, Stages
  <2> QED
    BY <1>9, <2>1, <2>3, <2>4, <2>5, <2>6, <2>7 DEF LoopInv, StreamInv
<1> QED
  BY <1>11, <1>12

-----------------------------------------------------------------------------
(* Lines.                                                                  *)

\* Where a delimiter is, byte by byte.
LEMMA DelimiterPlaces ==
  ASSUME NEW S, NEW s \in Seq(S)
  PROVE  DelimiterAt(s) = { p \in 1..(Len(s) - 1) : s[p] = "r" /\ s[p + 1] = "n" }
PROOF
<1>1. Len(s) \in Nat /\ \A i \in 1..Len(s) : s[i] \in S
  BY LenProperties, ElementOfSeq
<1>2. ASSUME NEW p \in 1..(Len(s) - 1)
      PROVE  SubSeq(s, p, p + 1) = CRLF <=> s[p] = "r" /\ s[p + 1] = "n"
  <2> DEFINE two == SubSeq(s, p, p + 1)
             U == S \union {"r", "n"}
  <2>1. \A i \in p..(p + 1) : s[i] \in S
    BY <1>1
  <2>2. /\ two \in Seq(S) /\ Len(two) = 2
        /\ \A i \in 1..((p + 1) - p + 1) : two[i] = s[p + i - 1]
    <3>1. p \in Int /\ p + 1 \in Int /\ p <= p + 1 /\ (p + 1) - p + 1 = 2
      OBVIOUS
    <3>2. /\ two \in Seq(S)
          /\ Len(two) = IF p <= p + 1 THEN (p + 1) - p + 1 ELSE 0
          /\ \A i \in 1..((p + 1) - p + 1) : two[i] = s[p + i - 1]
      BY <2>1, <3>1, SubSeqProperties
    <3> QED
      BY <3>1, <3>2
  <2>3. two[1] = s[p] /\ two[2] = s[p + 1]
    <3>1. 1 \in 1..((p + 1) - p + 1) /\ 2 \in 1..((p + 1) - p + 1)
          /\ p + 1 - 1 = p /\ p + 2 - 1 = p + 1
      OBVIOUS
    <3> QED
      BY <2>2, <3>1
  <2> HIDE DEF two
  <2>4. /\ CRLF \in Seq(U) /\ Len(CRLF) = 2 /\ CRLF[1] = "r" /\ CRLF[2] = "n"
    BY DEF CRLF
  <2>5. two \in Seq(U)
    BY <2>2, SeqMonotonic
  <2>6. s[p] = "r" /\ s[p + 1] = "n" => two = CRLF
    <3> SUFFICES ASSUME s[p] = "r", s[p + 1] = "n" PROVE two = CRLF
      OBVIOUS
    <3>1. \A i \in 1..Len(two) : two[i] = CRLF[i]
      BY <2>2, <2>3, <2>4
    <3> HIDE DEF U
    <3> QED
      BY <2>2, <2>4, <2>5, <3>1, SeqEqual
  <2> QED
    BY <2>3, <2>4, <2>6 DEF two
<1> QED
  BY <1>2 DEF DelimiterAt

\* The bytes through the first delimiter have it at their end, and no other.
LEMMA LineToDelimiter ==
  ASSUME NEW S, NEW s \in Seq(S), NEW n, n = ThroughDelimiter(s), n # 0
  PROVE  /\ n \in 2..Len(s)
         /\ DelimiterAt(SubSeq(s, 1, n)) = {n - 1}
PROOF
<1> DEFINE first == CHOOSE p \in DelimiterAt(s) : \A q \in DelimiterAt(s) : p <= q
           line == SubSeq(s, 1, n)
<1>1. Len(s) \in Nat
  BY LenProperties
<1>2. DelimiterAt(s) = { p \in 1..(Len(s) - 1) : s[p] = "r" /\ s[p + 1] = "n" }
  BY DelimiterPlaces
<1>3. DelimiterAt(s) # {} /\ n = 1 + first
  BY DEF ThroughDelimiter
<1>4. DelimiterAt(s) \subseteq Nat
  BY <1>1, <1>2
<1>5. \E p \in DelimiterAt(s) : \A q \in DelimiterAt(s) : p <= q
  BY <1>3, <1>4, Minimum
<1>6. first \in DelimiterAt(s) /\ \A q \in DelimiterAt(s) : first <= q
  BY <1>5
<1> HIDE DEF first
<1>7. n - 1 = first /\ n \in 2..Len(s) /\ n \in 0..Len(s)
  BY <1>1, <1>2, <1>3, <1>6
<1>8. line \in Seq(S) /\ Len(line) = n
  BY <1>7, Split
<1>9. \A i \in 1..n : line[i] = s[i]
  <2>1. \A i \in 1..n : s[i] \in S
    BY <1>7, ElementOfSeq
  <2>2. \A i \in 1..(n - 1 + 1) : line[i] = s[1 + i - 1]
    BY <1>7, <2>1, SubSeqProperties
  <2> HIDE DEF line
  <2>3. n - 1 + 1 = n /\ \A i \in 1..n : 1 + i - 1 = i
    BY <1>7
  <2> QED
    BY <2>2, <2>3
<1>10. DelimiterAt(line) = { p \in 1..(n - 1) : line[p] = "r" /\ line[p + 1] = "n" }
  BY <1>8, DelimiterPlaces
<1> HIDE DEF line
<1>11. ASSUME NEW p \in 1..(n - 1)
       PROVE  line[p] = "r" /\ line[p + 1] = "n" <=> p = first
  <2>1. p \in 1..n /\ p + 1 \in 1..n /\ p \in 1..(Len(s) - 1)
    BY <1>1, <1>7
  <2>2. line[p] = s[p] /\ line[p + 1] = s[p + 1]
    BY <1>9, <2>1
  <2>3. p \in DelimiterAt(s) <=> line[p] = "r" /\ line[p + 1] = "n"
    BY <1>2, <2>1, <2>2
  <2>4. p \in DelimiterAt(s) => p = first
    BY <1>4, <1>6, <1>7
  <2> QED
    BY <1>6, <2>3, <2>4
<1>12. DelimiterAt(line) = {n - 1}
  BY <1>7, <1>10, <1>11
<1> QED
  BY <1>7, <1>12 DEF line

\* Ends at a line's end: nothing, or a delimiter.
AtLineEnd(s) == s = << >> \/ Len(s) - 1 \in DelimiterAt(s)

\* A line behind whole lines: its delimiter comes to theirs.
LEMMA LineBehindLines ==
  ASSUME NEW S, NEW s \in Seq(S), NEW line \in Seq(S), AtLineEnd(s),
         DelimiterAt(line) = {Len(line) - 1}
  PROVE  /\ Len(line) >= 2
         /\ DelimiterAt(s \o line) = DelimiterAt(s) \union {Len(s) + Len(line) - 1}
         /\ AtLineEnd(s \o line)
PROOF
<1> DEFINE m == Len(s)
           n == Len(line)
           t == s \o line
<1>1. m \in Nat /\ n \in Nat
  BY LenProperties
<1>2. /\ t \in Seq(S) /\ Len(t) = m + n
      /\ \A i \in 1..(m + n) : t[i] = IF i <= m THEN s[i] ELSE line[i - m]
  BY ConcatProperties
<1>3. /\ DelimiterAt(s) = { p \in 1..(m - 1) : s[p] = "r" /\ s[p + 1] = "n" }
      /\ DelimiterAt(line) = { p \in 1..(n - 1) : line[p] = "r" /\ line[p + 1] = "n" }
  BY DelimiterPlaces
<1> HIDE DEF t
<1>0. DelimiterAt(t) = { p \in 1..(m + n - 1) : t[p] = "r" /\ t[p + 1] = "n" }
  BY <1>2, DelimiterPlaces
<1>4. n >= 2 /\ n - 1 \in 1..(n - 1)
  BY <1>1, <1>3
<1>5. m = 0 \/ s[m] = "n"
  <2>1. CASE s = << >>
    BY <2>1, EmptySeq
  <2>2. CASE m - 1 \in DelimiterAt(s)
    <3>1. (m - 1) + 1 = m
      BY <1>1
    <3> QED
      BY <1>3, <2>2, <3>1
  <2> QED
    BY <2>1, <2>2 DEF AtLineEnd
<1>6. ASSUME NEW p \in 1..(m + n - 1)
      PROVE  t[p] = "r" /\ t[p + 1] = "n" <=> p \in DelimiterAt(s) \/ p = m + n - 1
  <2>1. p \in 1..(m + n) /\ p + 1 \in 1..(m + n)
    BY <1>1
  <2>2. CASE p + 1 <= m
    <3>1. t[p] = s[p] /\ t[p + 1] = s[p + 1] /\ p \in 1..(m - 1) /\ p # m + n - 1
      BY <1>1, <1>2, <1>4, <2>1, <2>2
    <3> QED
      BY <1>3, <3>1
  <2>3. CASE p = m
    <3>1. t[p] = s[m] /\ m # 0 /\ p \notin 1..(m - 1) /\ p # m + n - 1
      BY <1>1, <1>2, <1>4, <2>1, <2>3
    <3>2. t[p] = "n" /\ "n" # "r"
      BY <1>5, <3>1
    <3> QED
      BY <1>3, <3>1, <3>2
  <2>4. CASE p > m
    <3>1. /\ p - m \in 1..(n - 1) /\ (p + 1) - m = (p - m) + 1
          /\ ~(p <= m) /\ ~(p + 1 <= m) /\ p \notin 1..(m - 1)
      BY <1>1, <2>4
    <3>2. t[p] = line[p - m] /\ t[p + 1] = line[(p - m) + 1]
      <4>1. t[p] = line[p - m]
        BY <1>2, <2>1, <3>1
      <4>2. t[p + 1] = line[(p + 1) - m]
        BY <1>2, <2>1, <3>1
      <4> QED
        BY <3>1, <4>1, <4>2
    <3>3. t[p] = "r" /\ t[p + 1] = "n" <=> p - m \in DelimiterAt(line)
      BY <1>3, <3>1, <3>2
    <3>4. p - m \in DelimiterAt(line) <=> p - m = n - 1
      OBVIOUS
    <3>5. p - m = n - 1 <=> p = m + n - 1
      BY <1>1
    <3> QED
      BY <1>3, <3>1, <3>3, <3>4, <3>5
  <2> QED
    BY <1>1, <2>2, <2>3, <2>4
<1>7. DelimiterAt(s) \subseteq 1..(m + n - 1) /\ m + n - 1 \in 1..(m + n - 1)
  BY <1>1, <1>3, <1>4
<1>8. DelimiterAt(t) = DelimiterAt(s) \union {m + n - 1}
  BY <1>0, <1>6, <1>7
<1>9. AtLineEnd(t)
  BY <1>2, <1>8 DEF AtLineEnd
<1> QED
  BY <1>4, <1>8, <1>9 DEF t

\* The blank lines of s: a delimiter at its beginning or right behind another.
BlankAt(s) == { p \in DelimiterAt(s) : p = 1 \/ p - 2 \in DelimiterAt(s) }

\* A header with a line more.
LEMMA BlanksBehindLines ==
  ASSUME NEW S, NEW s \in Seq(S), NEW line \in Seq(S), AtLineEnd(s), BlankAt(s) = {},
         DelimiterAt(line) = {Len(line) - 1}
  PROVE  BlankAt(s \o line) = IF Len(line) = 2 THEN {Len(s \o line) - 1} ELSE {}
PROOF
<1> DEFINE m == Len(s)
           n == Len(line)
           t == s \o line
           D == DelimiterAt(s)
<1>1. m \in Nat /\ n \in Nat /\ n >= 2 /\ Len(t) = m + n
  BY LenProperties, ConcatProperties, LineBehindLines
<1>2. DelimiterAt(t) = D \union {m + n - 1}
  BY LineBehindLines
<1>3. D \subseteq 1..(m - 1)
  BY DEF DelimiterAt
<1>4. s = << >> \/ m - 1 \in D
  BY DEF AtLineEnd
<1>5. s = << >> => m = 0
  BY EmptySeq
<1>6. \A p \in D : p # 1 /\ p - 2 \notin D
  BY DEF BlankAt
<1> HIDE DEF t, D, m, n
<1>7. ASSUME NEW p \in D
      PROVE  ~(p = 1 \/ p - 2 \in DelimiterAt(t))
  BY <1>1, <1>2, <1>3, <1>6
<1>8. LET p == m + n - 1
      IN  (p = 1 \/ p - 2 \in DelimiterAt(t)) <=> n = 2
  <2>1. (m + n - 1) - 2 # m + n - 1
    BY <1>1
  <2>2. CASE m = 0
    <3>1. D = {}
      BY <1>3, <2>2
    <3> QED
      BY <1>1, <1>2, <2>1, <2>2, <3>1
  <2>3. CASE m # 0
    <3>1. m - 1 \in D /\ m + n - 1 # 1
      BY <1>1, <1>4, <1>5, <2>3
    <3>2. (m + n - 1) - 2 \in D <=> n = 2
      <4>1. n = 2 => (m + n - 1) - 2 = m - 1
        BY <1>1
      <4>2. n # 2 => (m + n - 1) - 2 \notin 1..(m - 1)
        BY <1>1
      <4> QED
        BY <1>3, <3>1, <4>1, <4>2
    <3> QED
      BY <1>2, <2>1, <3>1, <3>2
  <2> QED
    BY <2>2, <2>3
<1>9. BlankAt(t) = IF n = 2 THEN {m + n - 1} ELSE {}
  BY <1>2, <1>7, <1>8 DEF BlankAt
<1> QED
  BY <1>1, <1>9 DEF t, m, n

\* A line is no more than its delimiter if it begins with it.
LEMMA ShortestLine ==
  ASSUME NEW S, NEW line \in Seq(S), DelimiterAt(line) = {Len(line) - 1}
  PROVE  /\ line = CRLF <=> Len(line) = 2
         /\ 1 \in DelimiterAt(line) <=> line = CRLF
         /\ Len(line) \in Nat /\ Len(line) >= 2
PROOF
<1>1. Len(line) \in Nat
  BY LenProperties
<1>2. DelimiterAt(line) \subseteq 1..(Len(line) - 1)
  BY DEF DelimiterAt
<1>3. Len(line) >= 2
  BY <1>1, <1>2
<1>4. 1 \in DelimiterAt(line) <=> Len(line) = 2
  BY <1>1
<1>5. line = CRLF => Len(line) = 2
  BY DEF CRLF
<1>6. ASSUME Len(line) = 2
      PROVE  line = CRLF
  <2>1. 1 \in DelimiterAt(line) /\ 1 + 1 = 2
    BY <1>4, <1>6
  <2>2. SubSeq(line, 1, 2) = CRLF
    BY <2>1 DEF DelimiterAt
  <2> QED
    BY <1>6, <2>2, SubSeqFull
<1> QED
  BY <1>1, <1>3, <1>4, <1>5, <1>6

\* Blank lines, and a line behind them: what a one-line filter takes.
AreBlank(s, k) == Len(s) = 2 * k /\ \A i \in 1..k : SubSeq(s, 2 * i - 1, 2 * i) = CRLF

OneLine(s) ==
  \E k \in 0..Len(s) :
    LET line == From(s, 2 * k + 1)
    IN  /\ \A i \in 1..k : SubSeq(s, 2 * i - 1, 2 * i) = CRLF
        /\ DelimiterAt(line) = {Len(line) - 1}
        /\ Len(line) > 2

\* The front of a longer sequence is the same.
LEMMA BlanksInFront ==
  ASSUME NEW S, NEW s \in Seq(S), NEW t \in Seq(S), NEW k \in Nat, AreBlank(s, k)
  PROVE  \A i \in 1..k : SubSeq(s \o t, 2 * i - 1, 2 * i) = CRLF
PROOF
<1> SUFFICES ASSUME NEW i \in 1..k PROVE SubSeq(s \o t, 2 * i - 1, 2 * i) = CRLF
  OBVIOUS
<1>1. Len(s) = 2 * k /\ SubSeq(s, 2 * i - 1, 2 * i) = CRLF
  BY DEF AreBlank
<1>2. 2 * i - 1 \in 1..Len(s) /\ 2 * i \in 1..Len(s)
  BY <1>1
<1> QED
  BY <1>1, <1>2, SubSeqOfConcat1

\* What is behind the first sequence of two.
LEMMA BehindFirst ==
  ASSUME NEW S, NEW s \in Seq(S), NEW t \in Seq(S), Len(t) >= 1
  PROVE  From(s \o t, Len(s) + 1) = t
PROOF
<1>1. Len(s) \in Nat /\ Len(t) \in Nat /\ Len(s \o t) = Len(s) + Len(t)
  BY LenProperties, ConcatProperties
<1>2. Len(s) + 1 \in Len(s) + 1 .. Len(s) + Len(t)
      /\ Len(s) + Len(t) \in Len(s) + 1 .. Len(s) + Len(t)
  BY <1>1
<1>3. SubSeq(s \o t, Len(s) + 1, Len(s) + Len(t))
        = SubSeq(t, (Len(s) + 1) - Len(s), (Len(s) + Len(t)) - Len(s))
  BY <1>2, SubSeqOfConcat2
<1>4. (Len(s) + 1) - Len(s) = 1 /\ (Len(s) + Len(t)) - Len(s) = Len(t)
  BY <1>1
<1> QED
  BY <1>1, <1>3, <1>4, SubSeqFull DEF From

LEMMA BlankBehindBlanks ==
  ASSUME NEW S, NEW s \in Seq(S), NEW line \in Seq(S), NEW k \in Nat, AreBlank(s, k),
         line = CRLF
  PROVE  AreBlank(s \o line, k + 1)
PROOF
<1>1. Len(line) = 2 /\ Len(s) = 2 * k /\ Len(s \o line) = Len(s) + Len(line)
  BY ConcatProperties DEF CRLF, AreBlank
<1>2. \A i \in 1..k : SubSeq(s \o line, 2 * i - 1, 2 * i) = CRLF
  BY BlanksInFront
<1>3. SubSeq(s \o line, 2 * (k + 1) - 1, 2 * (k + 1)) = CRLF
  <2>1. SubSeq(s \o line, Len(s) + 1, Len(s \o line)) = CRLF
    BY <1>1, BehindFirst DEF From
  <2>2. 2 * (k + 1) - 1 = Len(s) + 1 /\ 2 * (k + 1) = Len(s \o line)
    BY <1>1
  <2> QED
    BY <2>1, <2>2
<1>4. \A i \in 1..(k + 1) : i \in 1..k \/ i = k + 1
  OBVIOUS
<1>5. Len(s \o line) = 2 * (k + 1)
  BY <1>1
<1> QED
  BY <1>2, <1>3, <1>4, <1>5 DEF AreBlank

LEMMA LineBehindBlanks ==
  ASSUME NEW S, NEW s \in Seq(S), NEW line \in Seq(S), NEW k \in Nat, AreBlank(s, k),
         DelimiterAt(line) = {Len(line) - 1}, line # CRLF
  PROVE  OneLine(s \o line)
PROOF
<1>1. /\ Len(s) = 2 * k /\ Len(s \o line) = Len(s) + Len(line)
      /\ Len(line) \in Nat /\ Len(line) > 2
  <2>1. Len(line) \in Nat /\ Len(line) >= 2 /\ Len(line) # 2
    BY ShortestLine
  <2>2. Len(s) = 2 * k /\ Len(s \o line) = Len(s) + Len(line)
    BY ConcatProperties DEF AreBlank
  <2> DEFINE n == Len(line)
  <2>0. n \in Nat /\ n >= 2 /\ n # 2
    BY <2>1
  <2>3. n > 2
    <3> HIDE DEF n
    <3> QED
      BY <2>0
  <2> QED
    BY <2>1, <2>2, <2>3, Zenon
<1>2. From(s \o line, 2 * k + 1) = line
  BY <1>1, BehindFirst
<1>3. k \in 0..Len(s \o line)
  BY <1>1
<1>4. \A i \in 1..k : SubSeq(s \o line, 2 * i - 1, 2 * i) = CRLF
  BY BlanksInFront
<1> QED
  BY <1>1, <1>2, <1>3, <1>4 DEF OneLine

-----------------------------------------------------------------------------
(* What the filters of lines have taken in a call.                         *)

OneLineClasses == {"RequestLine", "ResponseLine"}
LineClasses == OneLineClasses \union {"Header"}

\* What a filter has taken when it gives the instruction inst.
LinesFit(class, inst, taken) ==
  /\ class \in OneLineClasses =>
       \/ inst.type = "ThruDelimiter" /\ \E k \in Nat : AreBlank(taken, k)
       \/ inst.type = "QuitFilter" /\ OneLine(taken)
  /\ class = "Header" =>
       /\ AtLineEnd(taken)
       /\ \/ inst.type = "ThruDelimiter" /\ BlankAt(taken) = {}
          \/ inst.type = "QuitFilter" /\ BlankAt(taken) = {Len(taken) - 1}

LinesInv ==
  \A w \in Conn :
    ~HasEnded /\ ~Waits(w) /\ filter[w].class \in LineClasses =>
      /\ readSoFar[w] <= Len(consumed[w])
      /\ LinesFit(filter[w].class, instruction[w], Taken(w))

\* What a run returns is what it is given.
LEMMA RanGives ==
  ASSUME NEW f, NEW inst, NEW outputs
  PROVE  Ran(f, inst, outputs).instruction = inst
BY DEF Ran

LEMMA EndedGives ==
  ASSUME NEW f, NEW how \in {"thrown", "asserted", "looping"}
  PROVE  Ended(f, how).ended # "ok"
BY DEF Ended, Ran

\* A filter of lines that is told of a disconnection ends the loop.
LEMMA DisconnectedLines ==
  ASSUME NEW f, f.class \in LineClasses, NEW bytes, NEW soFar, NEW ticket
  PROVE  RunWrapper(f, bytes, soFar, TRUE, ticket).ended # "ok"
PROOF
<1>1. RunFilter(f, bytes, soFar, TRUE, ticket) = Ended(f, "thrown")
  <2>1. CASE f.class \in OneLineClasses
    BY <2>1 DEF RunFilter, RunOneLine, OneLineClasses
  <2>2. CASE f.class = "Header"
    BY <2>2 DEF RunFilter, RunHeader
  <2> QED
    BY <2>1, <2>2 DEF LineClasses
<1>2. \/ RunWrapper(f, bytes, soFar, TRUE, ticket) = Ended(f, "thrown")
      \/ RunWrapper(f, bytes, soFar, TRUE, ticket) = Ended(f, "asserted")
  BY <1>1 DEF RunWrapper, Once
<1> QED
  BY <1>2, EndedGives

\* A filter of lines that gets the next line.
LEMMA LineRuns ==
  ASSUME NEW S, NEW taken \in Seq(S), NEW line \in Seq(S),
         DelimiterAt(line) = {Len(line) - 1},
         NEW f, f.class \in LineClasses, NEW inst, inst.type = "ThruDelimiter",
         LinesFit(f.class, inst, taken),
         NEW soFar, NEW ticket, NEW ran,
         ran \in {RunWrapper(f, line, soFar, FALSE, ticket)}, ran.ended = "ok"
  PROVE  LinesFit(f.class, ran.instruction, taken \o line)
PROOF
<1>1. ran = RunFilter(f, line, soFar, FALSE, ticket)
  <2>1. ran = RunFilter(f, line, soFar, FALSE, ticket) \/ ran = Ended(f, "asserted")
    BY DEF RunWrapper, Once
  <2> QED
    BY <2>1, EndedGives
<1>2. /\ line = CRLF <=> Len(line) = 2
      /\ 1 \in DelimiterAt(line) <=> line = CRLF
      /\ Len(line) \in Nat /\ Len(line) >= 2
  BY ShortestLine
<1>4. /\ QuitFilter(Len(line)).type = "QuitFilter"
      /\ ThruDelimiter(Len(line)).type = "ThruDelimiter"
      /\ QuitFilter(2).type = "QuitFilter"
  BY DEF QuitFilter, ThruDelimiter, Instruction
<1>5. CASE f.class \in OneLineClasses
  <2>1. ran = RunOneLine(f, line, FALSE)
    BY <1>1, <1>5 DEF RunFilter, OneLineClasses
  <2>2. f.class # "Header"
    BY <1>5 DEF OneLineClasses
  <2>3. PICK k \in Nat : AreBlank(taken, k)
    BY <1>5 DEF LinesFit
  <2>4. CASE line = CRLF
    <3>1. ran = Ran(f, ThruDelimiter(Len(line)), << >>)
      BY <1>2, <2>1, <2>4 DEF RunOneLine
    <3>2. ran.instruction.type = "ThruDelimiter"
      <4>1. ran.instruction = ThruDelimiter(Len(line))
        BY <3>1, RanGives
      <4> QED
        BY <1>4, <4>1
    <3>3. AreBlank(taken \o line, k + 1) /\ k + 1 \in Nat
      BY <2>3, <2>4, BlankBehindBlanks
    <3> QED
      BY <2>2, <3>2, <3>3 DEF LinesFit
  <2>5. CASE line # CRLF
    <3>1. ran.instruction = QuitFilter(Len(line))
      <4>1. \/ \E outputs : ran = Ran(f, QuitFilter(Len(line)), outputs)
            \/ ran = Ended(f, "thrown")
            \/ ran = Ended(f, "asserted")
            \/ ran = Ended(f, "looping")
        BY <1>2, <2>1, <2>5 DEF RunOneLine
      <4>2. /\ ran # Ended(f, "thrown") /\ ran # Ended(f, "asserted")
            /\ ran # Ended(f, "looping")
        BY EndedGives
      <4>3. PICK outputs : ran = Ran(f, QuitFilter(Len(line)), outputs)
        BY <4>1, <4>2
      <4>4. Ran(f, QuitFilter(Len(line)), outputs).instruction = QuitFilter(Len(line))
        BY RanGives
      <4> QED
        BY <4>3, <4>4
    <3>2. OneLine(taken \o line)
      BY <2>3, <2>5, LineBehindBlanks
    <3> QED
      BY <1>4, <2>2, <3>1, <3>2 DEF LinesFit
  <2> QED
    BY <2>4, <2>5
<1>6. CASE f.class = "Header"
  <2>1. ran = RunHeader(f, line, FALSE)
    BY <1>1, <1>6 DEF RunFilter
  <2>2. f.class \notin OneLineClasses
    BY <1>6 DEF OneLineClasses
  <2>3. AtLineEnd(taken) /\ BlankAt(taken) = {}
    BY <1>6 DEF LinesFit
  <2>4. /\ AtLineEnd(taken \o line)
        /\ BlankAt(taken \o line) = IF Len(line) = 2 THEN {Len(taken \o line) - 1} ELSE {}
    BY <2>3, LineBehindLines, BlanksBehindLines
  <2>5. CASE line = CRLF
    <3>1. ran.instruction = QuitFilter(2)
      <4>1. ran = Ran(f, QuitFilter(2), << Place, Place, Place >>)
        BY <2>1, <2>5 DEF RunHeader
      <4> QED
        BY <4>1, RanGives
    <3> QED
      BY <1>2, <1>4, <2>2, <2>4, <2>5, <3>1 DEF LinesFit
  <2>6. CASE line # CRLF
    <3>1. ran.instruction = ThruDelimiter(Len(line))
      <4>1. \/ ran = Ran(f, ThruDelimiter(Len(line)), << >>)
            \/ ran = Ended(f, "thrown")
            \/ ran = Ended(f, "asserted")
        BY <1>2, <2>1, <2>6 DEF RunHeader
      <4>2. ran # Ended(f, "thrown") /\ ran # Ended(f, "asserted")
        BY EndedGives
      <4>3. ran = Ran(f, ThruDelimiter(Len(line)), << >>)
        BY <4>1, <4>2
      <4> QED
        BY <4>3, RanGives
    <3> QED
      BY <1>2, <1>4, <2>2, <2>4, <2>6, <3>1 DEF LinesFit
  <2> QED
    BY <2>5, <2>6
<1> QED
  BY <1>5, <1>6 DEF LineClasses

\* The end of what was consumed grows by what is committed.
LEMMA EndGrows ==
  ASSUME NEW S, NEW c \in Seq(S), NEW b \in Seq(S), NEW r \in Nat, r <= Len(c),
         Len(b) >= 1
  PROVE  /\ From(c, Len(c) - r + 1) \in Seq(S)
         /\ From(c \o b, Len(c \o b) - (r + Len(b)) + 1) = From(c, Len(c) - r + 1) \o b
         /\ r + Len(b) <= Len(c \o b)
PROOF
<1> DEFINE m == Len(c) - r + 1
           t == c \o b
<1>1. /\ Len(c) \in Nat /\ Len(b) \in Nat /\ t \in Seq(S) /\ Len(t) = Len(c) + Len(b)
  BY LenProperties, ConcatProperties
<1>2. m \in 1..(Len(c) + 1) /\ Len(t) - (r + Len(b)) + 1 = m /\ Len(c) - r \in 0..Len(c)
      /\ (Len(c) - r) + 1 = m /\ r + Len(b) <= Len(t)
  BY <1>1
<1>3. From(c, m) \in Seq(S)
  BY <1>2, Split
<1> HIDE DEF t, m
<1>4. SubSeq(t, m, Len(c)) = SubSeq(c, m, Len(c))
  <2>1. CASE m <= Len(c)
    <3>1. m \in 1..Len(c) /\ Len(c) \in 1..Len(c)
      BY <1>1, <1>2, <2>1
    <3> QED
      BY <3>1, SubSeqOfConcat1 DEF t
  <2>2. CASE ~(m <= Len(c))
    <3>1. Len(c) < m /\ m \in Int /\ Len(c) \in Int
      BY <1>1, <1>2, <2>2
    <3> QED
      BY <3>1, SubSeqEmpty
  <2> QED
    BY <2>1, <2>2
<1>5. SubSeq(t, Len(c) + 1, Len(t)) = b
  BY BehindFirst DEF From, t
<1>6. SubSeq(t, m, Len(c)) \o SubSeq(t, Len(c) + 1, Len(t)) = SubSeq(t, m, Len(t))
  <2>1. m \in 1..(Len(t) + 1) /\ Len(c) \in (m - 1)..Len(t) /\ Len(t) \in Len(c)..Len(t)
    BY <1>1, <1>2
  <2> QED
    BY <1>1, <2>1, ConcatAdjacentSubSeq
<1>7. From(t, m) = From(c, m) \o b
  BY <1>4, <1>5, <1>6 DEF From
<1> QED
  BY <1>2, <1>3, <1>7 DEF t, m

-----------------------------------------------------------------------------
(* What the steps do to the lines.                                         *)

\* A step that runs no filter.
LEMMA LinesUntouched ==
  ASSUME LinesInv, UNCHANGED << filter, instruction, readSoFar, consumed >>,
         ~HasEnded' => ~HasEnded /\ \A v \in Conn : Waits(v)' <=> Waits(v)
  PROVE  LinesInv'
BY DEF LinesInv, Taken

\* A filter of lines that is given a line has one line more behind it.
LEMMA LineGiven ==
  ASSUME LoopInv, LinesInv, ~HasEnded, NEW w \in Conn, ~Waits(w),
         filter[w].class \in LineClasses, instruction[w].type # "QuitFilter",
         NEW stream \in Seq(Alphabet), NEW taken \in 0..Len(stream), taken > 0,
         instruction[w].type = "ThruDelimiter" => taken = ThroughDelimiter(stream),
         NEW ticket, NEW first, NEW ran,
         ran \in {RunWrapper(filter[w], uncommittedBytes[w] \o SubSeq(stream, 1, taken),
                             readSoFar[w] + taken, FALSE, ticket)},
         Helped(w, stream, taken, first, ran), ran.ended = "ok"
  PROVE  /\ (readSoFar[w] <= Len(consumed[w]))'
         /\ LinesFit(filter[w].class, ran.instruction, Taken(w)')
PROOF
<1> DEFINE c == consumed[w]
           r == readSoFar[w]
           line == SubSeq(stream, 1, taken)
           class == filter[w].class
<1>1. /\ uncommittedBytes[w] = << >> /\ c \in Seq(Alphabet) /\ r \in Nat
      /\ consumed \in [Conn -> Seq(Alphabet)] /\ readSoFar \in [Conn -> Nat]
      /\ IsFilter(filter[w])
  BY DEF LoopInv, StreamInv, NothingUncommitted, Typed, LoopTyped
<1>2. Len(c) \in Nat /\ Len(stream) \in Nat
  BY <1>1, LenProperties
<1>3. r <= Len(c) /\ LinesFit(class, instruction[w], Taken(w))
  BY DEF LinesInv
<1>4. instruction[w].type = "ThruDelimiter"
  BY <1>3 DEF LinesFit, LineClasses
<1>5. line \in Seq(Alphabet) /\ Len(line) = taken /\ SubSeq(line, 1, taken) = line
  <2>1. line \in Seq(Alphabet) /\ Len(line) = taken
    BY Split
  <2> HIDE DEF line
  <2> QED
    BY <2>1, SubSeqFull
<1>6. taken \in 2..Len(stream) /\ DelimiterAt(line) = {Len(line) - 1}
  BY <1>2, <1>4, <1>5, LineToDelimiter
<1>7. uncommittedBytes[w] \o line = line
  BY <1>1, <1>5, ConcatEmptySeq
<1>8. ran \in {RunWrapper(filter[w], line, r + taken, FALSE, ticket)}
  BY <1>7
<1>9. ran.instruction.commitSize = taken
  <2> DEFINE soFar == r + taken
  <2>1. soFar \in Nat
    BY <1>1, <1>2
  <2>2. ran = RunWrapper(filter[w], line, soFar, FALSE, ticket)
    BY <1>8
  <2> HIDE DEF line, soFar
  <2>3. IsRun(ran, class, Len(line))
    BY <1>1, <1>5, <2>1, <2>2, WrapperRuns
  <2> QED
    BY <1>5, <2>3 DEF IsRun
<1>10. readSoFar'[w] = r + taken /\ consumed'[w] = c \o line
  <2>1. readSoFar' = [readSoFar EXCEPT ![w] = r + taken]
        /\ consumed' = [consumed EXCEPT ![w] = @ \o SubSeq(line, 1, taken)]
    BY <1>7, <1>9 DEF Helped
  <2> HIDE DEF line
  <2> QED
    BY <1>1, <1>5, <2>1
<1>11. Taken(w) = From(c, Len(c) - r + 1)
  BY DEF Taken
<1>12. Taken(w)' = From(c \o line, Len(c \o line) - (r + Len(line)) + 1)
  BY <1>5, <1>10 DEF Taken
<1> HIDE DEF c, r, line, class
<1>13. /\ Taken(w) \in Seq(Alphabet) /\ Taken(w)' = Taken(w) \o line
       /\ r + Len(line) <= Len(c \o line)
  <2>1. Len(line) >= 1
    BY <1>2, <1>5, <1>6
  <2>2. c \in Seq(Alphabet) /\ r \in Nat
    BY <1>1
  <2>3. /\ From(c, Len(c) - r + 1) \in Seq(Alphabet)
        /\ From(c \o line, Len(c \o line) - (r + Len(line)) + 1)
             = From(c, Len(c) - r + 1) \o line
        /\ r + Len(line) <= Len(c \o line)
    BY <1>3, <1>5, <2>1, <2>2, EndGrows
  <2> QED
    BY <1>11, <1>12, <2>3
<1>14. LinesFit(class, ran.instruction, Taken(w) \o line)
  <2> DEFINE soFar == r + taken
             inst == instruction[w]
             t == Taken(w)
  <2>1. ran \in {RunWrapper(filter[w], line, soFar, FALSE, ticket)}
    BY <1>8
  <2>2. /\ t \in Seq(Alphabet) /\ inst.type = "ThruDelimiter"
        /\ LinesFit(filter[w].class, inst, t)
    BY <1>3, <1>4, <1>13 DEF class
  <2> HIDE DEF soFar, inst, t
  <2>3. LinesFit(filter[w].class, ran.instruction, t \o line)
    BY <1>5, <1>6, <2>1, <2>2, LineRuns
  <2> QED
    BY <2>3 DEF t, class
<1>15. (readSoFar[w] <= Len(consumed[w]))'
  BY <1>5, <1>10, <1>13
<1> QED
  BY <1>13, <1>14, <1>15 DEF class

\* A step that runs a filter: of lines, on a line, or because of a disconnection.
LEMMA LinesBehindRun ==
  ASSUME LoopInv, LinesInv, ~HasEnded, NEW w \in Conn,
         NEW f, IsFilter(f), f.class = filter[w].class,
         f.class # "Chunked" => f = filter[w],
         NEW stream \in Seq(Alphabet), NEW taken \in 0..Len(stream), NEW disc \in BOOLEAN,
         ~disc => /\ ~Waits(w) /\ taken > 0 /\ instruction[w].type # "QuitFilter"
                  /\ instruction[w].type = "ThruDelimiter" =>
                       taken = ThroughDelimiter(stream),
         NEW ticket, NEW first, NEW ran,
         ran \in {RunWrapper(f, uncommittedBytes[w] \o SubSeq(stream, 1, taken),
                             readSoFar[w] + taken, disc, ticket)},
         Helped(w, stream, taken, first, ran),
         ran.ended # "ok" => stage' = ran.ended,
         ~HasEnded' => \A v \in Conn : v # w => (Waits(v)' <=> Waits(v))
  PROVE  LinesInv'
PROOF
<1> SUFFICES ASSUME NEW v \in Conn, ~HasEnded', ~Waits(v)',
                    filter'[v].class \in LineClasses
             PROVE  /\ (readSoFar[v] <= Len(consumed[v]))'
                    /\ LinesFit(filter'[v].class, instruction'[v], Taken(v)')
  BY DEF LinesInv
<1>1. /\ DOMAIN filter = Conn /\ instruction \in [Conn -> InstructionSet]
      /\ consumed \in [Conn -> Seq(Alphabet)] /\ readSoFar \in [Conn -> Nat]
  BY DEF LoopInv, StreamInv, Typed, LoopTyped
<1>2. CASE v # w
  <2>1. /\ filter'[v] = filter[v] /\ instruction'[v] = instruction[v]
        /\ consumed'[v] = consumed[v] /\ readSoFar'[v] = readSoFar[v]
    BY <1>1, <1>2 DEF Helped
  <2>2. ~Waits(v)
    BY <1>2
  <2> QED
    BY <2>1, <2>2 DEF LinesInv, Taken
<1>3. CASE v = w
  <2> DEFINE given == uncommittedBytes[w] \o SubSeq(stream, 1, taken)
             soFar == readSoFar[w] + taken
  <2>1. filter'[w] = ran.filter /\ instruction'[w] = ran.instruction
    BY <1>1 DEF Helped
  <2>2. IsRun(ran, f.class, Len(given))
    <3>1. SubSeq(stream, 1, taken) \in Seq(Alphabet) /\ uncommittedBytes[w] = << >>
      BY Split DEF LoopInv, StreamInv, NothingUncommitted
    <3>2. given \in Seq(Alphabet)
      BY <3>1, ConcatEmptySeq
    <3>3. soFar \in Nat
      BY <1>1, LenProperties
    <3>4. ran = RunWrapper(f, given, soFar, disc, ticket)
      OBVIOUS
    <3> HIDE DEF given, soFar
    <3> QED
      BY <3>2, <3>3, <3>4, WrapperRuns
  <2> HIDE DEF given
  <2>3. /\ ran.ended \in {"ok", "thrown", "asserted", "looping"} /\ ran.filter.class = f.class
    BY <2>2 DEF IsRun
  <2>4. ran.ended = "ok"
    BY <2>3 DEF HasEnded
  <2>5. filter[w].class \in LineClasses /\ f = filter[w]
    <3>1. f.class \in LineClasses
      BY <1>3, <2>1, <2>3
    <3> QED
      BY <3>1 DEF LineClasses, OneLineClasses
  <2>6. ~disc
    <3>1. ASSUME disc
          PROVE  FALSE
      <4>1. disc = TRUE
        BY <3>1
      <4>2. ran = RunWrapper(f, given, soFar, TRUE, ticket)
        BY <4>1 DEF given
      <4> HIDE DEF soFar
      <4> QED
        BY <2>4, <2>5, <4>2, DisconnectedLines
    <3> QED
      BY <3>1
  <2>7. disc = FALSE
    BY <2>6
  <2>8. ran \in {RunWrapper(filter[w], uncommittedBytes[w] \o SubSeq(stream, 1, taken),
                            readSoFar[w] + taken, FALSE, ticket)}
    BY <2>5, <2>7
  <2>9. /\ (readSoFar[w] <= Len(consumed[w]))'
        /\ LinesFit(filter[w].class, ran.instruction, Taken(w)')
    BY <2>4, <2>5, <2>6, <2>8, LineGiven
  <2> QED
    BY <1>3, <2>1, <2>3, <2>9
<1> QED
  BY <1>2, <1>3

\* The steps that run no filter.
LEMMA OthersKeepLines ==
  ASSUME LoopInv, LinesInv,
         \/ Decide \/ PollReady \/ PollTimeout \/ PollFails
         \/ \E w \in Conn : Sends(w) \/ RecvFails(w) \/ PeerReset(w)
         \/ UNCHANGED vars
  PROVE  LinesInv'
PROOF
<1>1. UNCHANGED << filter, instruction, readSoFar, consumed >>
  BY DEF Decide, PollReady, PollTimeout, PollFails, LoopUnchanged, Sends, SendFront,
     SendReset, SendShort, SendBlocks, SendFails, SendUnchanged, RecvFails, PeerReset, vars,
     loopVars
<1>2. \/ UNCHANGED << stage, todo >>
      \/ stage \in {"compute", "poll", "work"} /\ stage' # "setup"
  <2>1. CASE Decide
    BY <2>1 DEF Decide, EndCheck, AtEnd, Leave
  <2>2. CASE PollReady \/ PollTimeout \/ PollFails
    BY <2>2 DEF PollReady, PollTimeout, PollFails, Leave
  <2>3. ASSUME NEW w \in Conn, Sends(w)
        PROVE  \/ UNCHANGED << stage, todo >>
               \/ stage \in {"compute", "poll", "work"} /\ stage' # "setup"
    BY <2>3 DEF Sends, SendFront, SendReset, SendShort, SendBlocks, SendFails, AtEvent,
       NextEvent
  <2>4. ASSUME NEW w \in Conn, RecvFails(w)
        PROVE  stage \in {"compute", "poll", "work"} /\ stage' # "setup"
    BY <2>4 DEF RecvFails, AtEvent
  <2>5. ASSUME NEW w \in Conn, PeerReset(w)
        PROVE  UNCHANGED << stage, todo >>
    BY <2>5 DEF PeerReset, loopVars
  <2>6. CASE UNCHANGED vars
    BY <2>6 DEF vars, loopVars
  <2> QED
    BY <2>1, <2>2, <2>3, <2>4, <2>5, <2>6
<1>3. ~HasEnded' => ~HasEnded /\ \A v \in Conn : Waits(v)' <=> Waits(v)
  BY <1>2 DEF HasEnded, Waits
<1> QED
  BY <1>1, <1>3, LinesUntouched

LEMMA FilterBufferedKeepsLines ==
  ASSUME LoopInv, LinesInv, NEW w \in Conn, FilterBuffered(w)
  PROVE  LinesInv'
PROOF
<1> DEFINE stream == unfilteredBytes[w]
           taken == Satisfied(w)
           ticket == nextTicket + Len(<< >>)
<1>1. stage = "compute" /\ CanFilter(w)
  BY DEF FilterBuffered
<1>2. PICK ran \in {RunWrapper(filter[w], uncommittedBytes[w] \o SubSeq(stream, 1, taken),
                               readSoFar[w] + taken, FALSE, ticket)} :
        /\ Helped(w, stream, taken, << >>, ran)
        /\ ran.ended = "ok" => UNCHANGED << stage, todo >>
        /\ ran.ended # "ok" => stage' = ran.ended /\ todo' = << >>
  BY DEF FilterBuffered, FilterHelper, Helped
<1>3. /\ ~HasEnded /\ IsFilter(filter[w]) /\ stream \in Seq(Alphabet)
      /\ \A v \in Conn : ~Waits(v)
  BY <1>1 DEF LoopInv, StreamInv, Typed, HasEnded, Waits
<1>4. taken \in 0..Len(stream)
  BY <1>1, SatisfiedIsThere
<1>5. /\ taken > 0 /\ instruction[w].type # "QuitFilter"
      /\ instruction[w].type = "ThruDelimiter" => taken = ThroughDelimiter(stream)
  BY <1>1 DEF CanFilter, Reading, Satisfied
<1> HIDE DEF stream, taken, ticket
<1>6. \A v \in Conn : ~HasEnded' => ~Waits(v)'
  <2>1. CASE ran.ended = "ok"
    BY <1>1, <1>2, <2>1 DEF Waits
  <2>2. CASE ran.ended # "ok"
    <3>1. ran.ended \in {"ok", "thrown", "asserted", "looping"}
      <4>1. ran = RunWrapper(filter[w], uncommittedBytes[w] \o SubSeq(stream, 1, taken),
                             readSoFar[w] + taken, FALSE, ticket)
        BY <1>2
      <4> QED
        BY <1>3, <1>4, <4>1, RunEnds
    <3> QED
      BY <1>2, <2>2, <3>1 DEF HasEnded
  <2> QED
    BY <2>1, <2>2
<1> QED
  BY <1>2, <1>3, <1>4, <1>5, <1>6, LinesBehindRun

\* The run of an event that is received.
LEMMA RecvRunKeepsLines ==
  ASSUME LoopInv, LinesInv, NEW w \in Conn, AtEvent("recv", w),
         NEW stream \in Seq(Alphabet), NEW taken \in 0..Len(stream), NEW disc \in BOOLEAN,
         ~disc => /\ taken > 0
                  /\ instruction[w].type = "ThruDelimiter" =>
                       taken = ThroughDelimiter(stream),
         FilterHelper(w, filter[w], stream, taken, disc, << >>, NextEvent)
  PROVE  LinesInv'
PROOF
<1> DEFINE ticket == nextTicket + Len(<< >>)
<1>1. PICK ran \in {RunWrapper(filter[w], uncommittedBytes[w] \o SubSeq(stream, 1, taken),
                               readSoFar[w] + taken, disc, ticket)} :
        /\ Helped(w, stream, taken, << >>, ran)
        /\ ran.ended = "ok" => NextEvent
        /\ ran.ended # "ok" => stage' = ran.ended /\ todo' = << >>
  BY DEF FilterHelper, Helped
<1>2. /\ stage = "work" /\ todo \in Seq(Events)
      /\ 1 \in 1..Len(todo) /\ todo[1] = << "recv", w >>
  BY Handled DEF LoopInv, AtEvent
<1>3. instruction[w].type # "QuitFilter"
  BY <1>2 DEF LoopInv, ReadsAreFresh, WillRead, ReadIsFresh
<1>4. ~HasEnded /\ IsFilter(filter[w]) /\ \A v \in Conn : ~Waits(v)
  BY <1>2 DEF LoopInv, StreamInv, Typed, HasEnded, Waits
<1> HIDE DEF ticket
<1>5. \A v \in Conn : ~HasEnded' => ~Waits(v)'
  <2>1. CASE ran.ended = "ok"
    BY <1>1, <2>1 DEF Waits, NextEvent
  <2>2. CASE ran.ended # "ok"
    <3>1. ran.ended \in {"ok", "thrown", "asserted", "looping"}
      <4>1. ran = RunWrapper(filter[w], uncommittedBytes[w] \o SubSeq(stream, 1, taken),
                             readSoFar[w] + taken, disc, ticket)
        BY <1>1
      <4> QED
        BY <1>4, <4>1, RunEnds
    <3> QED
      BY <1>1, <2>2, <3>1 DEF HasEnded
  <2> QED
    BY <2>1, <2>2
<1> QED
  BY <1>1, <1>3, <1>4, <1>5, LinesBehindRun

LEMMA DisconnectionKeepsLines ==
  ASSUME LoopInv, LinesInv, NEW w \in Conn, RecvZero(w) \/ RecvReset(w)
  PROVE  LinesInv'
PROOF
<1>1. /\ AtEvent("recv", w)
      /\ FilterHelper(w, filter[w], unfilteredBytes[w], 0, TRUE, << >>, NextEvent)
  BY DEF RecvZero, RecvReset
<1>2. unfilteredBytes[w] \in Seq(Alphabet) /\ 0 \in 0..Len(unfilteredBytes[w])
  BY LenProperties DEF LoopInv, StreamInv, Typed
<1> QED
  BY <1>1, <1>2, RecvRunKeepsLines

LEMMA RecvDataKeepsLines ==
  ASSUME LoopInv, LinesInv, NEW w \in Conn, RecvData(w)
  PROVE  LinesInv'
PROOF
<1> DEFINE buffer(n) == SubSeq(toCome[w], 1, n)
           stream(n) == WithUnfiltered(w, buffer(n))
<1>1. PICK n \in 1..Least(MaxRecv, Len(toCome[w])) :
        IF Received(w, stream(n), n) > 0
          THEN FilterHelper(w, filter[w], stream(n), Received(w, stream(n), n),
                            FALSE, << >>, NextEvent)
          ELSE NextEvent /\ UNCHANGED << filter, instruction, readSoFar, consumed >>
  BY DEF RecvData
<1>2. AtEvent("recv", w)
  BY DEF RecvData
<1> DEFINE buf == buffer(n)
           str == stream(n)
<1>3. toCome[w] \in Seq(Alphabet) /\ unfilteredBytes[w] \in Seq(Alphabet)
  BY DEF LoopInv, StreamInv, Typed
<1>4. n \in 0..Len(toCome[w]) /\ n \in Nat
  <2>1. Len(toCome[w]) \in Nat /\ MaxRecv \in Nat
    BY <1>3, ParasockAssumption, LenProperties
  <2> QED
    BY <2>1 DEF Least
<1>5. buf \in Seq(Alphabet) /\ Len(buf) = n
  BY <1>3, <1>4, Split
<1>6. str = unfilteredBytes[w] \o buf
  BY DEF WithUnfiltered
<1> HIDE DEF buf, str
<1>7. str \in Seq(Alphabet)
  BY <1>3, <1>5, <1>6, ConcatProperties
<1>8. CASE Received(w, str, n) > 0
  <2> DEFINE taken == Received(w, str, n)
  <2>1. FilterHelper(w, filter[w], str, taken, FALSE, << >>, NextEvent)
    BY <1>1, <1>8 DEF str
  <2>2. taken \in 0..Len(str)
    BY <1>2, <1>4, <1>5, <1>6, <1>8, ReceivedIsThere
  <2>3. taken > 0 /\ (instruction[w].type = "ThruDelimiter" => taken = ThroughDelimiter(str))
    BY <1>8 DEF Received
  <2> HIDE DEF taken
  <2> QED
    BY <1>2, <1>7, <2>1, <2>2, <2>3, RecvRunKeepsLines
<1>9. CASE ~(Received(w, str, n) > 0)
  <2>1. NextEvent /\ UNCHANGED << filter, instruction, readSoFar, consumed >>
    BY <1>1, <1>9 DEF str
  <2>2. ~HasEnded /\ \A v \in Conn : Waits(v)' <=> Waits(v)
    BY <1>2, <2>1 DEF HasEnded, Waits, AtEvent, NextEvent
  <2> QED
    BY <2>1, <2>2, LinesUntouched
<1> QED
  BY <1>8, <1>9

\* A filter of lines begins with a line still to be read, and nothing taken.
LEMMA SetupKeepsLines ==
  ASSUME LoopInv, LinesInv, Setup
  PROVE  LinesInv'
PROOF
<1>1. stage = "setup" /\ TodoIsOrdered
  BY DEF Setup, LoopInv
<1>2. PICK w : w = Head(todo)
  OBVIOUS
<1>3. w \in Conn /\ Waits(w)
  <2>1. << "client", "server" >>[1] = "client" /\ << "server" >>[1] = "server"
    OBVIOUS
  <2> QED
    BY <1>1, <1>2, <2>1 DEF TodoIsOrdered, Conn, Waits
<1> DEFINE f == Begun(filter[w], nextTicket)
           inst == FirstInstruction(filter[w])
           first == FirstOutputs(filter[w])
           stream == unfilteredBytes[w]
<1>4. /\ IsFilter(filter[w]) /\ IsFilter(f) /\ f.class = filter[w].class
      /\ f.class # "Chunked" => f = filter[w]
  <2>1. IsFilter(filter[w])
    BY <1>3 DEF LoopInv, StreamInv, Typed
  <2> QED
    BY <2>1, FiltersBegin
<1>5. stream \in Seq(Alphabet) /\ 0 \in 0..Len(stream) /\ ~HasEnded /\ readSoFar[w] = 0
  BY <1>1, <1>3, LenProperties DEF LoopInv, StreamInv, Typed, HasEnded, ThroughIsInTime
<1>6. CASE sock[w] = "invalid" /\ inst.type # "QuitFilter"
  <2> DEFINE ticket == nextTicket + Len(first)
             taken == 0
  <2>1. FilterHelper(w, f, stream, taken, TRUE, first, NextSetup)
    BY <1>2, <1>6 DEF Setup
  <2>2. taken \in 0..Len(stream)
    BY <1>5
  <2> HIDE DEF f, inst, first, stream, ticket, taken
  <2>3. PICK ran \in {RunWrapper(f, uncommittedBytes[w] \o SubSeq(stream, 1, taken),
                                 readSoFar[w] + taken, TRUE, ticket)} :
          /\ Helped(w, stream, taken, first, ran)
          /\ ran.ended = "ok" => NextSetup
          /\ ran.ended # "ok" => stage' = ran.ended /\ todo' = << >>
    BY <2>1 DEF FilterHelper, Helped, ticket
  <2>4. ~HasEnded' => \A v \in Conn : v # w => (Waits(v)' <=> Waits(v))
    <3>1. CASE ran.ended = "ok"
      BY <1>1, <1>2, <2>3, <3>1, NextSetupTurns
    <3>2. CASE ran.ended # "ok"
      <4>1. ran.ended \in {"ok", "thrown", "asserted", "looping"}
        <5>1. ran = RunWrapper(f, uncommittedBytes[w] \o SubSeq(stream, 1, taken),
                               readSoFar[w] + taken, TRUE, ticket)
          BY <2>3
        <5> QED
          BY <1>3, <1>4, <1>5, <2>2, <5>1, RunEnds
      <4> QED
        BY <2>3, <3>2, <4>1 DEF HasEnded
    <3> QED
      BY <3>1, <3>2
  <2> QED
    BY <1>3, <1>4, <1>5, <2>2, <2>3, <2>4, LinesBehindRun
<1>7. CASE ~(sock[w] = "invalid" /\ inst.type # "QuitFilter")
  <2>1. /\ instruction' = [instruction EXCEPT ![w] = inst]
        /\ filter' = [filter EXCEPT ![w] = f]
        /\ NextSetup
        /\ UNCHANGED << readSoFar, consumed >>
    BY <1>2, <1>7 DEF Setup
  <2>2. \A v \in Conn : v # w => (Waits(v)' <=> Waits(v))
    BY <1>1, <1>2, <2>1, NextSetupTurns
  <2>3. /\ DOMAIN filter = Conn /\ instruction \in [Conn -> InstructionSet]
        /\ consumed \in [Conn -> Seq(Alphabet)]
    BY DEF LoopInv, StreamInv, Typed
  <2> HIDE DEF f, inst
  <2>4. filter'[w] = f /\ instruction'[w] = inst
        /\ \A v \in Conn : v # w => filter'[v] = filter[v] /\ instruction'[v] = instruction[v]
    BY <1>3, <2>1, <2>3
  <2>5. SUFFICES ASSUME NEW v \in Conn, ~HasEnded', ~Waits(v)', filter'[v].class \in LineClasses
                 PROVE  /\ (readSoFar[v] <= Len(consumed[v]))'
                        /\ LinesFit(filter'[v].class, instruction'[v], Taken(v)')
    BY DEF LinesInv
  <2>6. Taken(v)' = Taken(v)
    BY <2>1 DEF Taken
  <2>7. CASE v # w
    BY <1>5, <2>1, <2>2, <2>4, <2>5, <2>6, <2>7 DEF LinesInv
  <2>8. CASE v = w
    <3>1. inst = ThruDelimiter(0) /\ inst.type = "ThruDelimiter"
      <4>1. filter[w].class \in LineClasses
        BY <1>4, <2>4, <2>5, <2>8
      <4> QED
        BY <4>1 DEF inst, FirstInstruction, LineClasses, OneLineClasses, ThruDelimiter,
           Instruction
    <3>2. Taken(w) = << >> /\ readSoFar[w] <= Len(consumed[w])
      <4>1. consumed[w] \in Seq(Alphabet) /\ Len(consumed[w]) \in Nat
        BY <1>3, <2>3, LenProperties
      <4>2. Taken(w) = From(consumed[w], Len(consumed[w]) + 1)
        BY <1>5, <4>1 DEF Taken
      <4>3. SubSeq(consumed[w], Len(consumed[w]) + 1, Len(consumed[w])) = << >>
        BY <4>1, SubSeqEmpty
      <4> QED
        BY <1>5, <4>1, <4>2, <4>3 DEF From
    <3>3. AreBlank(<< >>, 0) /\ AtLineEnd(<< >>) /\ BlankAt(<< >>) = {}
      <4>1. DelimiterAt(<< >>) = {}
        BY DEF DelimiterAt
      <4> QED
        BY <4>1 DEF AreBlank, AtLineEnd, BlankAt
    <3>4. LinesFit(filter'[w].class, inst, << >>)
      BY <3>1, <3>3 DEF LinesFit
    <3> QED
      BY <2>1, <2>4, <2>6, <2>8, <3>2, <3>4
  <2> QED
    BY <2>7, <2>8
<1> QED
  BY <1>6, <1>7

-----------------------------------------------------------------------------
(* The loop and its callers.                                               *)

\* The initial states: nothing has been read, and both filters are DeadFilters.
LEMMA LoopInit ==
  ASSUME NEW input \in [Conn -> Seq(Alphabet)], NEW peers, NEW connected,
         InitWith(input, peers, connected)
  PROVE  LoopInv /\ LinesInv
PROOF
<1>1. << >> \in Seq(Alphabet)
  BY EmptySeq
<1>2. QuitFilter(0) \in InstructionSet
  BY InstructionsAreTyped
<1>3. IsFilter(DeadFilter) /\ DeadFilter.class = "Dead"
  BY DEF IsFilter, Classes, DeadFilter, Filter
<1>4. LoopTyped
  BY DEF LoopTyped, InitWith, Stages
<1>5. Typed
  BY <1>1, <1>2, <1>3 DEF Typed, InitWith
<1>6. stage = "idle"
  BY DEF InitWith
<1>7. NoByteLost
  <2>1. << >> \o << >> \o << >> = << >>
    BY <1>1, ConcatEmptySeq
  <2> QED
    BY <2>1 DEF NoByteLost, InitWith
<1>8. NothingUncommitted
  BY DEF NothingUncommitted, InitWith
<1>9. ThroughIsInTime
  BY <1>3, <1>6 DEF ThroughIsInTime, ThroughFits, Waits, InitWith
<1>10. LinesInv
  BY <1>3 DEF LinesInv, InitWith, LineClasses, OneLineClasses
<1> QED
  BY <1>4, <1>5, <1>6, <1>7, <1>8, <1>9, <1>10 DEF LoopInv, StreamInv, TodoIsOrdered,
     ReadsAreFresh, WillRead

\* A call begins with both directions to set up, and nothing read.
LEMMA StartKeeps ==
  ASSUME LoopInv, NEW filters, DOMAIN filters = Conn, \A w \in Conn : IsFilter(filters[w]),
         StartCall(filters)
  PROVE  LoopInv' /\ LinesInv'
PROOF
<1>1. stage = "idle" /\ stage' = "setup" /\ todo' = << "client", "server" >>
      /\ filter' = filters /\ readSoFar' = [w \in Conn |-> 0]
  BY DEF StartCall, Directions
<1>2. LoopTyped'
  <2>1. todo' # << >>
    BY <1>1
  <2> QED
    BY <1>1, <2>1 DEF LoopInv, LoopTyped, StartCall, sockbufVars, Stages
<1>3. Typed'
  BY DEF LoopInv, StreamInv, Typed, StartCall, sockbufVars, peerVars
<1>4. NoByteLost' /\ NothingUncommitted'
  BY <1>1 DEF LoopInv, StreamInv, NoByteLost, NothingUncommitted, HasEnded, StartCall,
     sockbufVars
<1>5. \A w \in Conn : Waits(w)'
  BY <1>1 DEF Waits
<1>6. ThroughIsInTime'
  <2>1. \A w \in Conn : filter'[w].class \in {"Passthru", "Data"} /\ IsKnown(filter'[w].totalSize) =>
                          0 <= filter'[w].totalSize
    BY <1>1 DEF IsFilter, IsKnown, UNKNOWN
  <2> QED
    BY <1>1, <1>5, <2>1 DEF ThroughIsInTime
<1>7. TodoIsOrdered' /\ ReadsAreFresh'
  BY <1>1 DEF TodoIsOrdered, ReadsAreFresh, WillRead
<1>8. LinesInv'
  BY <1>5 DEF LinesInv
<1> QED
  BY <1>2, <1>3, <1>4, <1>6, <1>7, <1>8 DEF LoopInv, StreamInv

\* What a caller does between two calls, when it touches no bytes that were read:
\* it changes sockets and placeholders, and at most ends.
LEMMA CallerKeeps ==
  ASSUME LoopInv, LinesInv, HasEnded => HasEnded',
         UNCHANGED << unfilteredBytes, uncommittedBytes, bytesReadSoFar, filter,
                      instruction, readSoFar, socketClosed, readAZero, needToRead, todo,
                      nextTicket, consumed >>,
         toCome' \in [Conn -> Seq(Alphabet)],
         sock' \in [Conn -> {"open", "invalid"}], disconnected' \in [Conn -> BOOLEAN],
         held' \subseteq Conn \X (0..nextTicket),
         \/ stage' = stage
         \/ /\ stage \in {"idle", "thrown", "asserted"}
            /\ stage' \in {"idle", "thrown", "asserted", "blocked"}
  PROVE  LoopInv' /\ LinesInv'
PROOF
<1>1. \A w \in Conn : Waits(w)' <=> Waits(w)
  BY DEF Waits
<1>2. StreamInv'
  BY <1>1, WithoutFilter DEF LoopInv, StreamInv, Typed
<1>3. LoopTyped'
  BY DEF LoopInv, LoopTyped, Stages
<1>4. TodoIsOrdered' /\ ReadsAreFresh'
  BY DEF LoopInv, TodoIsOrdered, ReadsAreFresh, WillRead, ReadIsFresh
<1>5. LinesInv'
  BY <1>1, LinesUntouched
<1> QED
  BY <1>2, <1>3, <1>4, <1>5 DEF LoopInv

\* Steps of other programs.
LEMMA StutterKeeps ==
  ASSUME LoopInv, LinesInv, UNCHANGED vars
  PROVE  LoopInv' /\ LinesInv'
PROOF
<1>1. UNCHANGED << sockbufVars, loopVars, held, nextTicket, consumed, peerVars >>
  BY DEF vars
<1>2. StreamInv'
  BY <1>1, WithoutFilter DEF LoopInv, StreamInv, Typed, sockbufVars, loopVars, peerVars,
     HasEnded, Waits
<1>3. LoopTyped'
  BY <1>1 DEF LoopInv, LoopTyped, sockbufVars, loopVars
<1>4. TodoIsOrdered' /\ ReadsAreFresh'
  BY <1>1 DEF LoopInv, TodoIsOrdered, ReadsAreFresh, WillRead, ReadIsFresh, sockbufVars,
     loopVars
<1>5. LinesInv'
  BY OthersKeepLines
<1> QED
  BY <1>2, <1>3, <1>4, <1>5 DEF LoopInv

\* A reset by a peer.
LEMMA ResetKeeps ==
  ASSUME LoopInv, LinesInv, NEW w \in Conn, PeerReset(w)
  PROVE  LoopInv' /\ LinesInv'
BY PeerResetKeeps, OthersKeepLines

\* Every step of the loop keeps the invariants.
LEMMA LoopKeeps ==
  ASSUME LoopInv, LinesInv, Loop
  PROVE  LoopInv' /\ LinesInv'
PROOF
<1>1. CASE Setup
  BY <1>1, SetupKeeps, SetupKeepsLines
<1>2. ASSUME NEW w \in Conn, FilterBuffered(w)
      PROVE  LoopInv' /\ LinesInv'
  BY <1>2, FilterBufferedKeeps, FilterBufferedKeepsLines
<1>3. CASE Decide
  BY <1>3, DecideKeeps, OthersKeepLines
<1>4. CASE PollReady
  BY <1>4, PollReadyKeeps, OthersKeepLines
<1>5. CASE PollTimeout \/ PollFails
  BY <1>5, PollEndsKeep, OthersKeepLines
<1>6. ASSUME NEW w \in Conn, Sends(w)
      PROVE  LoopInv' /\ LinesInv'
  BY <1>6, SendKeeps, OthersKeepLines
<1>7. ASSUME NEW w \in Conn, RecvData(w)
      PROVE  LoopInv' /\ LinesInv'
  BY <1>7, RecvDataKeeps, RecvDataKeepsLines
<1>8. ASSUME NEW w \in Conn, RecvZero(w) \/ RecvReset(w)
      PROVE  LoopInv' /\ LinesInv'
  BY <1>8, DisconnectionKeeps, DisconnectionKeepsLines
<1>9. ASSUME NEW w \in Conn, RecvFails(w)
      PROVE  LoopInv' /\ LinesInv'
  BY <1>9, RecvFailsKeeps, OthersKeepLines
<1> QED
  BY <1>1, <1>2, <1>3, <1>4, <1>5, <1>6, <1>7, <1>8, <1>9 DEF Loop, Sends

\* Only Decide and PollTimeout return, and Decide only when all is done.
LEMMA LoopReturns ==
  ASSUME LoopInv, Loop, stage' = "idle", ~timedOut'
  PROVE  \A w \in Conn : /\ instruction'[w].type = "QuitFilter"
                         /\ sock'[w] = "open" => ~HasKnownWritesPending(placeholders'[w])
PROOF
<1>1. ~Setup /\ \A w \in Conn : ~FilterBuffered(w)
  BY SetupKeeps, FilterBufferedKeeps
<1>2. \A w \in Conn : ~Sends(w)
  BY SendKeeps
<1>3. \A w \in Conn : ~RecvData(w) /\ ~RecvZero(w) /\ ~RecvReset(w) /\ ~RecvFails(w)
  BY RecvDataKeeps, DisconnectionKeeps, RecvFailsKeeps
<1>4. ~PollReady /\ ~PollTimeout /\ ~PollFails
  BY DEF PollReady, PollTimeout, PollFails
<1>5. Decide
  BY <1>1, <1>2, <1>3, <1>4 DEF Loop, Sends
<1>6. Done /\ AtEnd = "idle"
  BY <1>5 DEF Decide
<1>7. \A w \in Conn : EndCheck(w) = "idle"
  BY <1>6 DEF AtEnd, Conn
<1>8. \A w \in Conn : instruction[w].type = "QuitFilter"
  BY <1>7 DEF EndCheck
<1>9. \A w \in Conn : sock[w] = "open" => ~HasKnownWritesPending(placeholders[w])
  BY <1>6 DEF Done, NeedToWrite
<1>10. UNCHANGED << instruction, sock, placeholders >>
  BY <1>5 DEF Decide, sockbufVars
<1> QED
  BY <1>8, <1>9, <1>10

-----------------------------------------------------------------------------
(* What a filter outputs.                                                  *)

OutputOf(Byte) ==
  [op : {"string", "place", "own", "fill"}, id : Nat, text : Seq(Byte)]

\* The placeholders that the first k outputs fill, and those they reserve when
\* the first of them has the ticket lo.
FilledBy(outputs, k) == { outputs[j].id : j \in { i \in 1..k : outputs[i].op = "fill" } }
ReservedBy(outputs, lo, k) ==
  { lo + j - 1 : j \in { i \in 1..k : outputs[i].op \in {"place", "own"} } }

\* Each place that is filled is a hole, reserved before in the same run or, for
\* one at most, in an earlier one.
FillsFit(phs, outputs, lo) ==
  \A j \in 1..Len(outputs) : outputs[j].op = "fill" =>
    /\ outputs[j].id \notin FilledBy(outputs, j - 1)
    /\ \/ /\ outputs[j].id < lo /\ IsHoleOf(phs, outputs[j].id)
          /\ \A i \in FilledBy(outputs, j - 1) : ~(i < lo)
       \/ lo <= outputs[j].id /\ outputs[j].id \in ReservedBy(outputs, lo, j - 1)

\* Contents in the place of any placeholder of a deque make a deque.
LEMMA FulfilledDeque ==
  ASSUME NEW Byte, NEW phs \in Deques(Byte), NEW k, NEW s \in Seq(Byte)
  PROVE  FulfillAt(phs, k, s) \in Deques(Byte)
PROOF
<1> DEFINE n == Len(phs)
           R == PlaceholderOf(Byte)
<1>1. n \in Nat /\ DOMAIN phs = 1..n /\ phs \in Seq(R) /\ \A i \in 1..n : phs[i] \in R
  BY DequeElements DEF Deques
<1> HIDE DEF n, R
<1>2. CASE s = << >>
  <2>1. FulfillAt(phs, k, s) = [i \in 1..(n - 1) |-> IF i < k THEN phs[i] ELSE phs[i + 1]]
    BY <1>2 DEF FulfillAt, Erase, n
  <2>2. CASE n = 0
    <3>1. 1..(n - 1) = 1..0 /\ 0 \in Nat
      BY <2>2
    <3>2. [i \in 1..0 |-> IF i < k THEN phs[i] ELSE phs[i + 1]] \in Seq(R)
      BY <3>1
    <3> QED
      BY <2>1, <3>1, <3>2 DEF Deques, R
  <2>3. CASE n # 0
    <3>1. n - 1 \in Nat /\ \A i \in 1..(n - 1) : i \in 1..n /\ i + 1 \in 1..n
      BY <1>1, <2>3
    <3>2. \A i \in 1..(n - 1) : (IF i < k THEN phs[i] ELSE phs[i + 1]) \in R
      BY <1>1, <3>1
    <3>3. [i \in 1..(n - 1) |-> IF i < k THEN phs[i] ELSE phs[i + 1]] \in Seq(R)
      BY <3>1, <3>2
    <3> QED
      BY <2>1, <3>3 DEF Deques, R
  <2> QED
    BY <2>2, <2>3
<1>3. CASE s # << >>
  <2> DEFINE p == [phs[k] EXCEPT !.contentsKnown = TRUE, !.contents = s]
  <2>1. FulfillAt(phs, k, s) = [phs EXCEPT ![k] = p]
    BY <1>3 DEF FulfillAt
  <2>2. CASE k \in 1..n
    <3>1. p \in R
      <4>1. phs[k] \in R
        BY <1>1, <2>2
      <4> QED
        BY <4>1 DEF R, PlaceholderOf
    <3> HIDE DEF p
    <3>2. [phs EXCEPT ![k] = p] \in Seq(R)
      BY <1>1, <2>2, <3>1, ExceptSeq DEF n
    <3> QED
      BY <2>1, <3>2 DEF Deques, R
  <2>3. CASE k \notin 1..n
    <3> HIDE DEF p
    <3>1. [phs EXCEPT ![k] = p] = phs
      BY <1>1, <2>3
    <3> QED
      BY <2>1, <3>1
  <2> QED
    BY <2>2, <2>3
<1> QED
  BY <1>2, <1>3

\* So does any output.
LEMMA OutputTyped ==
  ASSUME NEW Byte, NEW phs \in Deques(Byte), NEW id \in Nat, NEW o \in OutputOf(Byte)
  PROVE  Output(phs, id, o) \in Deques(Byte)
PROOF
<1>1. o.op \in {"string", "place", "own", "fill"} /\ o.text \in Seq(Byte)
  BY DEF OutputOf
<1>2. OutputPlaceholder(phs, id) \in Deques(Byte)
  <2>1. Hole(id) \in PlaceholderOf(Byte)
    BY DEF Hole, PlaceholderOf
  <2> QED
    BY <2>1, AppendProperties DEF OutputPlaceholder, Deques
<1>3. OutputString(phs, id, o.text) \in Deques(Byte)
  <2>1. CASE ~LastIsKnown(phs)
    BY <1>1, <1>2, <2>1, FulfilledDeque DEF OutputString
  <2>2. CASE LastIsKnown(phs)
    <3> DEFINE n == Len(phs)
               r == phs[n]
               t == r.contents \o o.text
               p == [r EXCEPT !.contents = t]
    <3>1. n \in 1..n /\ r \in PlaceholderOf(Byte) /\ r.contents \in Seq(Byte)
      <4>1. phs # << >> /\ phs \in Seq(PlaceholderOf(Byte))
        BY <2>2 DEF LastIsKnown, Deques
      <4>2. Len(phs) \in Nat /\ Len(phs) > 0
        BY <4>1, EmptySeq
      <4> QED
        BY <4>2, DequeElements
    <3>2. t \in Seq(Byte)
      BY <1>1, <3>1, ConcatProperties
    <3> HIDE DEF t
    <3>3. p \in PlaceholderOf(Byte)
      BY <3>1, <3>2 DEF PlaceholderOf
    <3>4. OutputString(phs, id, o.text) = [phs EXCEPT ![n] = p]
      BY <2>2, Zenon DEF OutputString, t
    <3> HIDE DEF p
    <3> QED
      BY <3>1, <3>3, <3>4, ExceptSeq DEF Deques
  <2> QED
    BY <2>1, <2>2
<1>4. FulfillPlaceholder(phs, o.id, o.text) \in Deques(Byte)
  BY <1>1, FulfilledDeque DEF FulfillPlaceholder
<1> QED
  BY <1>1, <1>2, <1>3, <1>4 DEF Output

\* One output, as the cells see it.
OutputMade(Byte, p, phs, lo, hi, filled, o, q) ==
  /\ q \in Deques(Byte) /\ IdsBelow(q, hi + 1)
  /\ HolesStay(phs, q, IF o.op = "fill" THEN {o.id} ELSE {})
  /\ o.op \in {"place", "own"} => IsHoleOf(q, hi)
  /\ Evolved(Byte, p, CellsOfAll(q), lo, hi + 1, filled \/ (o.op = "fill" /\ o.id < lo))

LEMMA OneOutput ==
  ASSUME NEW Byte, NEW p \in Seq(Cells(Byte)), NEW phs \in Deques(Byte),
         NEW lo \in Nat, NEW hi \in Nat, lo <= hi, IdsBelow(phs, hi),
         NEW filled \in BOOLEAN, Evolved(Byte, p, CellsOfAll(phs), lo, hi, filled),
         NEW o \in OutputOf(Byte),
         o.op = "fill" => IsHoleOf(phs, o.id) /\ (o.id < lo => ~filled),
         NEW q, q = Output(phs, hi, o)
  PROVE  OutputMade(Byte, p, phs, lo, hi, filled, o, q)
PROOF
<1> SUFFICES /\ q \in Deques(Byte) /\ IdsBelow(q, hi + 1)
             /\ HolesStay(phs, q, IF o.op = "fill" THEN {o.id} ELSE {})
             /\ o.op \in {"place", "own"} => IsHoleOf(q, hi)
             /\ Evolved(Byte, p, CellsOfAll(q), lo, hi + 1,
                        filled \/ (o.op = "fill" /\ o.id < lo))
  BY DEF OutputMade
<1>1. o.op \in {"string", "place", "own", "fill"} /\ o.text \in Seq(Byte) /\ o.id \in Nat
  BY DEF OutputOf
<1>2. CellsOfAll(phs) \in Seq(Cells(Byte))
  BY CellsConcat
<1> DEFINE b == ByteCells(o.text)
<1>3. b \in Seq(Cells(Byte)) /\ NoHoles(b) /\ HolesFrom(b, hi, hi + 1)
  <2>1. b \in Seq(Cells(Byte)) /\ NoHoles(b) /\ DOMAIN b = 1..Len(b)
    BY <1>1, ByteCellsFacts DEF NoHoles
  <2> HIDE DEF b
  <2> QED
    BY <2>1, NewCells
<1> HIDE DEF b
<1>4. CASE o.op = "string"
  <2>1. q = OutputString(phs, hi, o.text)
    BY <1>4 DEF Output
  <2>2. /\ q \in Deques(Byte) /\ IdsBelow(q, hi + 1) /\ HolesStay(phs, q, {})
        /\ CellsOfAll(q) = CellsOfAll(phs) \o b
    <3> DEFINE s == o.text
    <3>1. s \in Seq(Byte) /\ q = OutputString(phs, hi, s)
      BY <1>1, <2>1
    <3> HIDE DEF s
    <3>2. StringAdded(Byte, phs, hi, s, q)
      BY <3>1, StringAdds
    <3> QED
      BY <3>2 DEF StringAdded, b, s
  <2>3. Evolved(Byte, p, CellsOfAll(q), lo, hi + 1, filled)
    BY <1>3, <2>2, EvolvesByOutput
  <2> QED
    BY <1>4, <2>2, <2>3
<1>5. CASE o.op \in {"place", "own"}
  <2>1. q = OutputPlaceholder(phs, hi)
    BY <1>5 DEF Output
  <2>2. /\ q \in Deques(Byte) /\ IdsBelow(q, hi + 1) /\ HolesStay(phs, q, {}) /\ IsHoleOf(q, hi)
        /\ CellsOfAll(q) = CellsOfAll(phs) \o << HoleCell(hi) >>
    BY <2>1, PlaceAdds
  <2>3. << HoleCell(hi) >> \in Seq(Cells(Byte)) /\ HolesFrom(<< HoleCell(hi) >>, hi, hi + 1)
    BY NewCells, CellFacts
  <2>4. Evolved(Byte, p, CellsOfAll(q), lo, hi + 1, filled)
    BY <2>2, <2>3, EvolvesByOutput
  <2> QED
    BY <1>5, <2>2, <2>4
<1>6. CASE o.op = "fill"
  <2>1. q = FulfillPlaceholder(phs, o.id, o.text) /\ IsHoleOf(phs, o.id)
    BY <1>6 DEF Output
  <2>2. /\ q \in Deques(Byte) /\ IdsBelow(q, hi) /\ HolesStay(phs, q, {o.id})
        /\ FilledIn(Byte, phs, q, o.id, b)
    BY <1>1, <2>1, FillKeeps DEF b
  <2>3. PICK x, y \in Seq(Cells(Byte)) :
          /\ CellsOfAll(phs) = (x \o << HoleCell(o.id) >>) \o y
          /\ CellsOfAll(q) = (x \o b) \o y
    BY <2>2 DEF FilledIn
  <2> DEFINE after == filled \/ o.id < lo
  <2>4. Evolved(Byte, p, CellsOfAll(q), lo, hi, after)
    <3>1. CASE o.id < lo
      <4>1. filled = FALSE /\ after = TRUE
        BY <1>6, <3>1
      <4>2. Evolved(Byte, p, CellsOfAll(phs), lo, hi, FALSE)
        BY <4>1
      <4>3. Evolved(Byte, p, (x \o b) \o y, lo, hi, TRUE)
        <5> DEFINE g == o.id
        <5>1. g \in Nat /\ g < lo /\ CellsOfAll(phs) = (x \o << HoleCell(g) >>) \o y
          BY <1>1, <2>3, <3>1
        <5> HIDE DEF g
        <5>2. ByFill(Byte, p, CellsOfAll(phs), lo, hi, TRUE, x, g, y, b)
          BY <1>3, <4>2, <5>1, EvolvesByOldFill
        <5> QED
          BY <5>2 DEF ByFill
      <4> QED
        BY <2>3, <4>1, <4>3
    <3>2. CASE ~(o.id < lo)
      <4>1. after = filled /\ lo <= o.id
        BY <1>1, <3>2
      <4>2. Evolved(Byte, p, (x \o b) \o y, lo, hi, filled)
        <5> DEFINE g == o.id
                   cells == CellsOfAll(phs)
        <5>1. /\ g \in Nat /\ lo <= g /\ lo <= hi /\ cells = (x \o << HoleCell(g) >>) \o y
              /\ Evolved(Byte, p, cells, lo, hi, filled) /\ filled \in BOOLEAN
          BY <1>1, <2>3, <4>1
        <5> HIDE DEF g, cells
        <5>2. ByFill(Byte, p, cells, lo, hi, filled, x, g, y, b)
          BY <1>3, <5>1, EvolvesByNewFill
        <5> QED
          BY <5>2 DEF ByFill
      <4> QED
        BY <2>3, <4>1, <4>2
    <3> QED
      BY <3>1, <3>2
  <2>5. Evolved(Byte, p, CellsOfAll(q), lo, hi + 1, after)
    <3> DEFINE c == CellsOfAll(q)
    <3>1. c \in Seq(Cells(Byte)) /\ c \o << >> = c /\ << >> \in Seq(Cells(Byte))
      BY <2>2, CellsConcat, ConcatEmptySeq, EmptySeq
    <3>2. HolesFrom(<< >>, hi, hi + 1)
      BY DEF HolesFrom
    <3>3. after \in BOOLEAN /\ Evolved(Byte, p, c, lo, hi, after)
      BY <2>4
    <3> HIDE DEF c, after
    <3>4. Evolved(Byte, p, c \o << >>, lo, hi + 1, after)
      BY <3>1, <3>2, <3>3, EvolvesByOutput
    <3> QED
      BY <3>1, <3>4 DEF c
  <2>6. IdsBelow(q, hi + 1)
    <3>1. ASSUME NEW i \in 1..Len(q) PROVE q[i].id < hi + 1
      <4>1. q[i].id \in Nat /\ q[i].id < hi
        BY <2>2, DequeElements DEF IdsBelow
      <4> QED
        BY <4>1
    <3> QED
      BY <3>1 DEF IdsBelow
  <2> QED
    BY <1>6, <2>2, <2>5, <2>6
<1> QED
  BY <1>1, <1>4, <1>5, <1>6

\* What all the outputs of a run come to: g[k] is the deque behind the first k.
OutputsSoFar(Byte, g, outputs, lo, k) ==
  /\ g[k] \in Deques(Byte) /\ IdsBelow(g[k], lo + k)
  /\ Evolved(Byte, CellsOfAll(g[0]), CellsOfAll(g[k]), lo, lo + k,
             \E i \in FilledBy(outputs, k) : i < lo)
  /\ HolesStay(g[0], g[k], FilledBy(outputs, k))
  /\ \A h \in ReservedBy(outputs, lo, k) \ FilledBy(outputs, k) : IsHoleOf(g[k], h)

\* The k-th output is one more.
LEMMA OneMoreOutput ==
  ASSUME NEW outputs, NEW lo \in Nat, NEW k \in Nat, k # 0
  PROVE  /\ FilledBy(outputs, k)
              = FilledBy(outputs, k - 1)
                  \union IF outputs[k].op = "fill" THEN {outputs[k].id} ELSE {}
         /\ ReservedBy(outputs, lo, k)
              = ReservedBy(outputs, lo, k - 1)
                  \union IF outputs[k].op \in {"place", "own"} THEN {lo + k - 1} ELSE {}
PROOF
<1>1. 1..k = 1..(k - 1) \union {k}
  OBVIOUS
<1>2. \A j : j \in 1..k <=> j \in 1..(k - 1) \/ j = k
  BY <1>1
<1> QED
  BY <1>2 DEF FilledBy, ReservedBy

LEMMA OutputsEvolve ==
  ASSUME NEW Byte, NEW outputs \in Seq(OutputOf(Byte)), NEW g, NEW lo \in Nat,
         g[0] \in Deques(Byte), IdsBelow(g[0], lo), FillsFit(g[0], outputs, lo),
         \A j \in 1..Len(outputs) : g[j] = Output(g[j - 1], lo + j - 1, outputs[j])
  PROVE  OutputsSoFar(Byte, g, outputs, lo, Len(outputs))
PROOF
<1> DEFINE n == Len(outputs)
           p == CellsOfAll(g[0])
           P == { k \in Nat : k <= n => OutputsSoFar(Byte, g, outputs, lo, k) }
<1>1. n \in Nat /\ \A j \in 1..n : outputs[j] \in OutputOf(Byte)
  BY LenProperties, ElementOfSeq
<1>2. p \in Seq(Cells(Byte))
  BY CellsConcat
<1>3. 0 \in P
  <2>1. FilledBy(outputs, 0) = {} /\ ReservedBy(outputs, lo, 0) = {}
    BY DEF FilledBy, ReservedBy
  <2>2. Evolved(Byte, p, p, lo, lo, FALSE)
    <3>1. HolesUpTo(p, lo)
      <4>1. p \in Seq(CellsBelow(Byte, lo))
        BY CellsTyped
      <4> HIDE DEF p
      <4>2. \A i \in 1..Len(p) : p[i] \in CellsBelow(Byte, lo)
        BY <4>1, ElementOfSeq
      <4>3. ASSUME NEW i \in 1..Len(p), IsHoleCell(p[i])
            PROVE  \E t \in Nat : t < lo /\ p[i] = HoleCell(t)
        BY <4>2, <4>3 DEF CellsBelow, IsHoleCell, ByteCell
      <4> QED
        BY <4>3 DEF HolesUpTo
    <3> HIDE DEF p
    <3> QED
      BY <1>2, <3>1, EvolvesFromNone
  <2>3. lo + 0 = lo
    OBVIOUS
  <2>4. HolesStay(g[0], g[0], {})
    BY DEF HolesStay
  <2>5. (\E i \in {} : i < lo) = FALSE
    OBVIOUS
  <2>6. OutputsSoFar(Byte, g, outputs, lo, 0)
    BY <2>1, <2>2, <2>3, <2>4, <2>5 DEF OutputsSoFar
  <2> QED
    BY <2>6
<1>4. ASSUME NEW m \in Nat, m \in P PROVE m + 1 \in P
  <2> SUFFICES ASSUME m + 1 <= n PROVE OutputsSoFar(Byte, g, outputs, lo, m + 1)
    OBVIOUS
  <2> DEFINE k == m + 1
             o == outputs[k]
             F == FilledBy(outputs, m)
             filled == \E i \in F : i < lo
             hi == lo + m
  <2>1. /\ k \in 1..n /\ k \in Nat /\ k # 0 /\ k - 1 = m /\ lo + k - 1 = hi /\ lo + k = hi + 1
        /\ hi \in Nat /\ lo <= hi /\ o \in OutputOf(Byte)
    BY <1>1
  <2> HIDE DEF k
  <2>2. /\ g[m] \in Deques(Byte) /\ IdsBelow(g[m], hi)
        /\ Evolved(Byte, p, CellsOfAll(g[m]), lo, hi, filled)
        /\ HolesStay(g[0], g[m], F)
        /\ \A h \in ReservedBy(outputs, lo, m) \ F : IsHoleOf(g[m], h)
    <3>1. m <= n
      BY <1>1
    <3> QED
      BY <1>4, <3>1 DEF OutputsSoFar
  <2>3. o.op = "fill" => IsHoleOf(g[m], o.id) /\ o.id \notin F /\ (o.id < lo => ~filled)
    <3>1. SUFFICES ASSUME o.op = "fill"
                   PROVE  IsHoleOf(g[m], o.id) /\ o.id \notin F /\ (o.id < lo => ~filled)
      OBVIOUS
    <3>2. /\ o.id \notin F
          /\ \/ /\ o.id < lo /\ IsHoleOf(g[0], o.id)
                /\ \A i \in F : ~(i < lo)
             \/ lo <= o.id /\ o.id \in ReservedBy(outputs, lo, m)
      BY <2>1, <3>1 DEF FillsFit
    <3>3. o.id \in Nat
      BY <2>1 DEF OutputOf
    <3>4. CASE o.id < lo /\ IsHoleOf(g[0], o.id) /\ \A i \in F : ~(i < lo)
      BY <2>2, <3>2, <3>4 DEF HolesStay
    <3>5. CASE lo <= o.id /\ o.id \in ReservedBy(outputs, lo, m)
      <4>1. ~(o.id < lo)
        BY <3>3, <3>5
      <4> QED
        BY <2>2, <3>2, <3>5, <4>1
    <3> QED
      BY <3>2, <3>4, <3>5
  <2>4. g[k] = Output(g[m], hi, o)
    BY <2>1
  <2>5. filled \in BOOLEAN
    OBVIOUS
  <2> DEFINE new == IF o.op = "fill" THEN {o.id} ELSE {}
             after == filled \/ (o.op = "fill" /\ o.id < lo)
  <2>6. /\ g[k] \in Deques(Byte) /\ IdsBelow(g[k], hi + 1)
        /\ HolesStay(g[m], g[k], new)
        /\ o.op \in {"place", "own"} => IsHoleOf(g[k], hi)
        /\ Evolved(Byte, p, CellsOfAll(g[k]), lo, hi + 1, after)
    <3> DEFINE d == g[m]
               e == g[k]
    <3>1. /\ d \in Deques(Byte) /\ IdsBelow(d, hi) /\ Evolved(Byte, p, CellsOfAll(d), lo, hi, filled)
          /\ hi \in Nat /\ lo <= hi /\ o \in OutputOf(Byte) /\ e = Output(d, hi, o)
          /\ o.op = "fill" => IsHoleOf(d, o.id) /\ (o.id < lo => ~filled)
      BY <2>1, <2>2, <2>3, <2>4
    <3> HIDE DEF hi, o, p, filled, d, e
    <3>2. OutputMade(Byte, p, d, lo, hi, filled, o, e)
      BY <1>2, <2>5, <3>1, OneOutput
    <3>3. /\ e \in Deques(Byte) /\ IdsBelow(e, hi + 1)
          /\ HolesStay(d, e, new)
          /\ o.op \in {"place", "own"} => IsHoleOf(e, hi)
          /\ Evolved(Byte, p, CellsOfAll(e), lo, hi + 1, after)
      BY <3>2 DEF OutputMade
    <3> QED
      BY <3>3 DEF d, e
  <2>7. /\ FilledBy(outputs, k) = F \union new
        /\ ReservedBy(outputs, lo, k)
             = ReservedBy(outputs, lo, m) \union IF o.op \in {"place", "own"} THEN {hi} ELSE {}
    BY <2>1, OneMoreOutput
  <2>8. after = \E i \in FilledBy(outputs, k) : i < lo
    BY <2>7
  <2>9. HolesStay(g[0], g[k], FilledBy(outputs, k))
    BY <2>2, <2>6, <2>7 DEF HolesStay
  <2>10. ASSUME NEW h \in ReservedBy(outputs, lo, k), h \notin FilledBy(outputs, k)
         PROVE  IsHoleOf(g[k], h)
    <3>1. CASE h \in ReservedBy(outputs, lo, m)
      <4>1. IsHoleOf(g[m], h) /\ h \notin new
        BY <2>2, <2>7, <2>10, <3>1
      <4> QED
        BY <2>6, <4>1 DEF HolesStay
    <3>2. CASE h \notin ReservedBy(outputs, lo, m)
      <4>1. h = hi /\ o.op \in {"place", "own"}
        BY <2>7, <2>10, <3>2
      <4> QED
        BY <2>6, <4>1
    <3> QED
      BY <3>1, <3>2
  <2> HIDE DEF after, p, F, o, hi, new
  <2>11. OutputsSoFar(Byte, g, outputs, lo, k)
    <3>1. Evolved(Byte, p, CellsOfAll(g[k]), lo, lo + k, \E i \in FilledBy(outputs, k) : i < lo)
      BY <2>1, <2>6, <2>8
    <3>2. IdsBelow(g[k], lo + k)
      BY <2>1, <2>6
    <3> QED
      BY <2>6, <2>9, <2>10, <3>1, <3>2 DEF OutputsSoFar, p
  <2> QED
    BY <2>11 DEF k
<1>5. n \in P
  <2> HIDE DEF P
  <2>1. Nat \subseteq P
    BY <1>3, <1>4, SetInduction
  <2> QED
    BY <1>1, <2>1
<1> QED
  BY <1>1, <1>5

\* The deque behind each of the outputs of a run: FilterOutputs is their recursion.
LEMMA OutputsAdvance ==
  ASSUME NEW out \in Conn, NEW T, placeholders[out] \in T, nextTicket \in Nat,
         NEW S, NEW outputs \in Seq(S),
         \A d \in T, id \in Nat, o \in S : Output(d, id, o) \in T,
         FilterOutputs(out, outputs)
  PROVE  /\ nextTicket' = nextTicket + Len(outputs)
         /\ \E f : /\ placeholders' = [placeholders EXCEPT ![out] = f[Len(outputs)]]
                   /\ f[0] = placeholders[out]
                   /\ \A j \in 1..Len(outputs) :
                        f[j] = Output(f[j - 1], nextTicket + j - 1, outputs[j])
PROOF
<1> DEFINE n == Len(outputs)
           step == [x \in T \X (1..n) |->
                      Output(x[1], nextTicket + x[2] - 1, outputs[x[2]])]
           Next1(v, j) ==
             CHOOSE y \in { Output(u, nextTicket + j - 1, outputs[j]) : u \in {v} } : TRUE
           Goes(f) == f = [j \in 0..n |-> IF j = 0 THEN placeholders[out]
                                                   ELSE Next1(f[j - 1], j)]
<1>1. n \in Nat /\ \A j \in 1..n : outputs[j] \in S
  BY LenProperties, ElementOfSeq
<1>2. \A v, j : Next1(v, j) = Output(v, nextTicket + j - 1, outputs[j])
  OBVIOUS
<1>3. step \in [T \X (1..n) -> T]
  <2>1. ASSUME NEW x \in T \X (1..n)
        PROVE  Output(x[1], nextTicket + x[2] - 1, outputs[x[2]]) \in T
    <3>1. x[1] \in T /\ outputs[x[2]] \in S /\ nextTicket + x[2] - 1 \in Nat
      BY <1>1
    <3> QED
      BY <3>1
  <2> HIDE DEF n
  <2> QED
    BY <2>1
<1> HIDE DEF Next1, n
<1> DEFINE start == placeholders[out]
<1>4. PICK r \in [0..n -> T] : GoesOnBy(r, start, step, n)
  <2> HIDE DEF step
  <2>1. start \in T
    OBVIOUS
  <2> HIDE DEF start
  <2> QED
    BY <1>1, <1>3, <2>1, Recursion
<1>5. ASSUME NEW j \in 0..n
      PROVE  r[j] = IF j = 0 THEN placeholders[out] ELSE Next1(r[j - 1], j)
  <2>1. CASE j = 0
    BY <1>4, <2>1 DEF GoesOnBy
  <2>2. CASE j # 0
    <3>1. j \in 1..n /\ j - 1 \in 0..n
      BY <1>1, <2>2
    <3>2. r[j] = step[<< r[j - 1], j >>]
      <4> HIDE DEF step
      <4> QED
        BY <1>4, <3>1 DEF GoesOnBy
    <3>3. r[j - 1] \in T
      BY <3>1
    <3>4. step[<< r[j - 1], j >>] = Output(r[j - 1], nextTicket + j - 1, outputs[j])
      BY <3>1, <3>3
    <3> HIDE DEF step
    <3> QED
      BY <1>2, <2>2, <3>2, <3>4
  <2> QED
    BY <2>1, <2>2
<1> HIDE DEF step
<1>6. Goes(r)
  <2> DEFINE g == [j \in 0..n |-> IF j = 0 THEN placeholders[out] ELSE Next1(r[j - 1], j)]
  <2>1. r = g
    BY <1>5
  <2> QED
    BY <2>1
<1> DEFINE f == CHOOSE h : Goes(h)
<1>7. Goes(f)
  <2> HIDE DEF Goes
  <2> QED
    BY <1>6
<1>8. placeholders' = [placeholders EXCEPT ![out] = f[n]]
  BY Zenon DEF FilterOutputs, Once, Next1, n
<1>9. nextTicket' = nextTicket + n
  BY DEF FilterOutputs, n
<1> HIDE DEF f
<1>10. \A j \in 0..n : f[j] = IF j = 0 THEN placeholders[out] ELSE Next1(f[j - 1], j)
  BY <1>7
<1>11. f[0] = placeholders[out]
       /\ \A j \in 1..n : f[j] = Output(f[j - 1], nextTicket + j - 1, outputs[j])
  <2>1. \A j \in 1..n : j \in 0..n /\ j # 0
    BY <1>1
  <2>2. 0 \in 0..n
    BY <1>1
  <2> QED
    BY <1>2, <1>10, <2>1, <2>2
<1> QED
  BY <1>8, <1>9, <1>11 DEF n

\* What is pending, before and after: as it was, or a step of HoleStream.
CellsStep(p, q) ==
  \/ CellsOfAll(q) = CellsOfAll(p)
  \/ IsExtended(CellsOfAll(p), CellsOfAll(q))
  \/ IsFilled(CellsOfAll(p), CellsOfAll(q))

DequesTyped(Byte, deques, next) ==
  /\ deques \in [Conn -> Deques(Byte)]
  /\ next \in Nat
  /\ \A w \in Conn : IdsBelow(deques[w], next)

\* FilterOutputs as a whole.
LEMMA OutputsStep ==
  ASSUME NEW Byte, DequesTyped(Byte, placeholders, nextTicket),
         NEW out \in Conn, NEW outputs \in Seq(OutputOf(Byte)),
         FillsFit(placeholders[out], outputs, nextTicket), FilterOutputs(out, outputs)
  PROVE  LET n == Len(outputs)
         IN  /\ DequesTyped(Byte, placeholders', nextTicket')
             /\ nextTicket' = nextTicket + n
             /\ \A w \in Conn : w # out => placeholders'[w] = placeholders[w]
             /\ CellsStep(placeholders[out], placeholders'[out])
             /\ HolesStay(placeholders[out], placeholders'[out], FilledBy(outputs, n))
             /\ \A h \in ReservedBy(outputs, nextTicket, n) \ FilledBy(outputs, n) :
                  IsHoleOf(placeholders'[out], h)
PROOF
<1> DEFINE n == Len(outputs)
           lo == nextTicket
<1>1. /\ placeholders \in [Conn -> Deques(Byte)] /\ lo \in Nat /\ n \in Nat
      /\ \A w \in Conn : IdsBelow(placeholders[w], lo)
  BY LenProperties DEF DequesTyped
<1>2. \A d \in Deques(Byte), id \in Nat, o \in OutputOf(Byte) : Output(d, id, o) \in Deques(Byte)
  BY OutputTyped
<1>3. /\ lo' = lo + n
      /\ \E f : /\ placeholders' = [placeholders EXCEPT ![out] = f[n]]
                /\ f[0] = placeholders[out]
                /\ \A j \in 1..n : f[j] = Output(f[j - 1], lo + j - 1, outputs[j])
  BY <1>1, <1>2, OutputsAdvance
<1>4. PICK f : /\ placeholders' = [placeholders EXCEPT ![out] = f[n]]
               /\ f[0] = placeholders[out]
               /\ \A j \in 1..n : f[j] = Output(f[j - 1], lo + j - 1, outputs[j])
  BY <1>3
<1>5. OutputsSoFar(Byte, f, outputs, lo, n)
  <2>1. f[0] \in Deques(Byte) /\ IdsBelow(f[0], lo) /\ FillsFit(f[0], outputs, lo)
    BY <1>1, <1>4
  <2>2. lo \in Nat /\ \A j \in 1..Len(outputs) : f[j] = Output(f[j - 1], lo + j - 1, outputs[j])
    BY <1>1, <1>4
  <2> HIDE DEF lo, n
  <2>3. OutputsSoFar(Byte, f, outputs, lo, Len(outputs))
    BY <2>1, <2>2, OutputsEvolve
  <2> QED
    BY <2>3 DEF n
<1> DEFINE filled == \E i \in FilledBy(outputs, n) : i < lo
<1>6. /\ f[n] \in Deques(Byte) /\ IdsBelow(f[n], lo + n)
      /\ Evolved(Byte, CellsOfAll(placeholders[out]), CellsOfAll(f[n]), lo, lo + n, filled)
      /\ HolesStay(placeholders[out], f[n], FilledBy(outputs, n))
      /\ \A h \in ReservedBy(outputs, lo, n) \ FilledBy(outputs, n) : IsHoleOf(f[n], h)
  BY <1>4, <1>5 DEF OutputsSoFar
<1>7. /\ placeholders'[out] = f[n]
      /\ \A w \in Conn : w # out => placeholders'[w] = placeholders[w]
      /\ placeholders' \in [Conn -> Deques(Byte)]
  <2> HIDE DEF n
  <2> QED
    BY <1>1, <1>4, <1>6
<1>8. CellsStep(placeholders[out], f[n])
  <2> DEFINE p == CellsOfAll(placeholders[out])
             q == CellsOfAll(f[n])
  <2>1. p \in Seq(Cells(Byte)) /\ filled \in BOOLEAN
    BY <1>1, CellsConcat
  <2> HIDE DEF filled, p, q, lo, n
  <2>2. Evolved(Byte, p, q, lo, lo + n, filled)
    BY <1>6 DEF p, q
  <2>3. q = p \/ IsExtended(p, q) \/ IsFilled(p, q)
    BY <1>1, <2>1, <2>2, EvolvedIsStep
  <2> QED
    BY <2>3 DEF CellsStep, p, q
<1>9. \A w \in Conn : IdsBelow(placeholders'[w], lo + n)
  <2>1. ASSUME NEW w \in Conn, w # out PROVE IdsBelow(placeholders[w], lo + n)
    <3>1. ASSUME NEW i \in 1..Len(placeholders[w]) PROVE placeholders[w][i].id < lo + n
      <4>1. placeholders[w] \in Deques(Byte) /\ IdsBelow(placeholders[w], lo)
        BY <1>1
      <4>2. placeholders[w][i].id \in Nat /\ placeholders[w][i].id < lo
        BY <4>1, DequeElements DEF IdsBelow
      <4> QED
        BY <1>1, <4>2
    <3> QED
      BY <3>1 DEF IdsBelow
  <2> QED
    BY <1>6, <1>7, <2>1
<1>10. lo + n \in Nat
  BY <1>1
<1> HIDE DEF n
<1>11. DequesTyped(Byte, placeholders', nextTicket')
  BY <1>3, <1>7, <1>9, <1>10 DEF DequesTyped
<1> QED
  BY <1>3, <1>6, <1>7, <1>8, <1>11 DEF n

=============================================================================
