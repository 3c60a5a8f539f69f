----------------------------- MODULE ChunkedBody -----------------------------
(***************************************************************************)
(* DataFilter on a chunked body (DataFilter.h, DataFilter.cpp): it reads   *)
(* the size lines, the data and the CRLFs of the chunks by instructions of *)
(* its own, feeds the data to the sub-filter under the sub-filter's        *)
(* instructions, and writes chunks of what the sub-filter outputs.  Each   *)
(* written chunk starts with a place for its size, filled when the chunk   *)
(* is complete.                                                            *)
(*                                                                         *)
(* The sub-filter is PcreDataFilter's, the only one there is: it commits   *)
(* all it is given, so subUncommitted is empty between its runs, it        *)
(* reserves no place, so a chunk is always ready to be written, and it     *)
(* gives no ThruDelimiter and no BytesExact.                               *)
(*                                                                         *)
(* subReadSoFar is set by no constructor: a filter begins with any value   *)
(* of a size_t.  SizeValues is the number of these values.                 *)
(***************************************************************************)
EXTENDS Instructions, FiniteSets

SizeValues == 64

Digits == << "0", "1", "2", "3", "4", "5", "6", "7",
             "8", "9", "a", "b", "c", "d", "e", "f" >>
IsDigit(b) == \E d \in 1..16 : Digits[d] = b
DigitValue(b) == CHOOSE d \in 0..15 : Digits[d + 1] = b

\* sprintf %x of a size below 256.
Hex(n) == IF n < 16 THEN << Digits[n + 1] >>
                    ELSE << Digits[(n \div 16) + 1], Digits[(n % 16) + 1] >>

\* The value of the digits that a line starts with, of which there are at most two.
Leading(line, base) ==
  { k \in DOMAIN line : \A j \in 1..k : IsDigit(line[j]) /\ DigitValue(line[j]) < base }
LastDigit(line, base, j) ==
  LET k == Cardinality(Leading(line, base)) - j
  IN  IF k \in Leading(line, base) THEN DigitValue(line[k]) ELSE 0
Scan(line, base) == base * LastDigit(line, base, 1) + LastDigit(line, base, 0)

\* Faulty variant of ScanHex: as sscanf %d.
ScanDecimal(line) == Scan(line, 10)

\* sscanf %x of a line, for sizes below 256; 0, what the variable was set to,
\* when it starts with no digit.
ScanHex(line) == Scan(line, 16)

ChunkedFilter(contentLength, garbage) ==
  [class |-> "Chunked",
   totalSize |-> contentLength,          \* contentLengthUnfiltered
   chunkState |-> "BeginChunk",
   chunkSize |-> UNKNOWN,
   chunkString |-> << >>,
   subInstruction |-> SubFirstInstruction(contentLength),
   subUnfiltered |-> << >>,
   subReadSoFar |-> garbage,
   sizePlaceholder |-> 0, charsWritten |-> 0,     \* of currentChunk
   filteredCharsSent |-> 0,
   contentLengthFiltered |-> UNKNOWN]

NextChunkState ==
  [BeginChunk |-> "ReadChunkData", ReadChunkSize |-> "ReadChunkData",
   ReadChunkData |-> "ReadChunkCrLf", ReadChunkCrLf |-> "ReadChunkSize"]

InNextState(f) == [f EXCEPT !.chunkState = NextChunkState[@]]

-----------------------------------------------------------------------------
(* The written chunk.                                                      *)

\* What the constructor of a Chunk outputs: the place of its size, and CRLF.
NewChunk == << Own, String(CRLF) >>

\* Faulty variant of WithChunk: the count goes on from the last chunk's.
WithChunkKeepsCount(f, ticket) == [f EXCEPT !.sizePlaceholder = ticket]

\* The new currentChunk, whose place has the ticket.
WithChunk(f, ticket) ==
  [f EXCEPT !.sizePlaceholder = ticket, !.charsWritten = 0]

\* Faulty variant of FinishChunk: the size does not count the filtered data.
FinishChunkUncounted(f) ==
  << Fill(f.sizePlaceholder, Hex(Len(f.chunkString))), String(CRLF) >>

\* FulfillAndReturnChunkSize.
FinishChunk(f) == << Fill(f.sizePlaceholder, Hex(f.charsWritten)), String(CRLF) >>

-----------------------------------------------------------------------------
(* Feeding the sub-filter subUnfiltered with what has been appended to it, *)
(* for as long as its instruction is satisfied.  A turn has what is left,  *)
(* the sub-filter's state, what was output, and whether the loop goes on   *)
(* ("more"), ends, or is stopped.  total is contentLengthUnfiltered.       *)

\* runSubCore on the first n bytes of what is left.
SubRun(total, turn, n, more) ==
  LET soFar == (turn.readSoFar + n) % SizeValues
  IN  IF ~SubCoreAccepts(total, soFar)
        THEN [turn EXCEPT !.goes = "asserted"]
        ELSE [left |-> SubSeq(turn.left, n + 1, Len(turn.left)),
              readSoFar |-> soFar,
              instruction |-> SubInstruction(total, soFar, n),
              output |-> turn.output \o FilterBuffer(SubSeq(turn.left, 1, n)),
              goes |-> more]

SubTurn(total, turn) ==
  LET inst == turn.instruction
      n == Len(turn.left)
  IN  IF turn.goes # "more" THEN turn
      ELSE CASE inst.type = "QuitFilter" -> [turn EXCEPT !.goes = "asserted"]
             [] inst.type = "BytesUnknown" -> SubRun(total, turn, n, "done")
             [] inst.type = "BytesMax" /\ n = 0 -> [turn EXCEPT !.goes = "done"]
             [] inst.type = "BytesMax" /\ n > 0 ->
                  SubRun(total, turn, IF n > inst.count THEN inst.count ELSE n, "more")

FirstTurn(f, data) ==
  [left |-> f.subUnfiltered \o data, readSoFar |-> f.subReadSoFar,
   instruction |-> f.subInstruction, output |-> << >>, goes |-> "more"]

\* Faulty variant of Fed: the data goes past the sub-filter.
FedUnfiltered(f, data) ==
  [FirstTurn(f, data) EXCEPT !.left = << >>, !.output = data, !.goes = "done"]

\* Each turn that does not end the loop takes a byte.
Fed(f, data) ==
  LET n == Len(f.subUnfiltered) + Len(data) + 1
      Turn(turn) == SubTurn(f.totalSize, turn)
      Turns[k \in 0..n] == IF k = 0 THEN FirstTurn(f, data)
                                    ELSE Once(Turns[k - 1], Turn)
  IN  Turns[n]

\* The filter after that.
WithFed(f, fed) ==
  [f EXCEPT !.subUnfiltered = fed.left, !.subReadSoFar = fed.readSoFar,
            !.subInstruction = fed.instruction, !.charsWritten = @ + Len(fed.output)]

-----------------------------------------------------------------------------
(* One runFilter in each chunkState.                                       *)

\* BeginChunk: the size line of the next chunk.  Size 0, or no number at all,
\* is the end: the sub-filter is told, what it still outputs (nothing: it holds
\* nothing back) and the size 0 complete currentChunk, and a last 0 goes out.
RunSizeLine(f, line, outputs) ==
  LET size == ScanHex(line)
      ended == [f EXCEPT !.totalSize = f.subReadSoFar,
                         !.filteredCharsSent = @ + f.charsWritten,
                         !.contentLengthFiltered = f.filteredCharsSent + f.charsWritten]
  IN  CASE Len(line) < 3 -> Ended(f, "thrown")
        [] Len(line) >= 3 /\ size = 0 ->
             IF f.subUnfiltered # << >> THEN Ended(f, "asserted")
             ELSE Ran(InNextState(ended), QuitFilter(Len(line)),
                      outputs \o FinishChunk(f) \o << String(<< "0" >> \o CRLF) >>)
        [] OTHER -> Ran(InNextState([f EXCEPT !.chunkSize = size]),
                        BytesExact(size, Len(line)), outputs)

\* ReadChunkSize: what has been collected is filtered and written as a chunk,
\* and the next one begun; then as BeginChunk.  chunkString is not cleared.
RunNextSize(f, line, ticket) ==
  LET Written(fed) ==
        LET g == WithFed(f, fed)
            written == << String(fed.output) >> \o FinishChunk(g)
            next == WithChunk([g EXCEPT !.filteredCharsSent = @ + g.charsWritten],
                              ticket + Len(written))
        IN  IF fed.goes = "asserted" THEN Ended(f, "asserted")
            ELSE RunSizeLine(next, line, written \o NewChunk)
  IN  IF f.chunkString = << >> THEN RunSizeLine(f, line, << >>)
                               ELSE Once(Fed(f, f.chunkString), Written)

\* Faulty variant of RunChunkData: the data is not committed.
RunChunkDataUncommitted(f, bytes) ==
  Ran(InNextState([f EXCEPT !.chunkString = @ \o bytes]), ThruDelimiter(0), << >>)

RunChunkData(f, bytes) ==
  IF Len(bytes) # f.chunkSize THEN Ended(f, "asserted")
  ELSE Ran(InNextState([f EXCEPT !.chunkString = @ \o bytes]),
           ThruDelimiter(Len(bytes)), << >>)

\* Faulty variant of RunChunkCrLf: the size is expected right behind the data.
RunChunkCrLfSkipped(f, bytes) ==
  Ran([f EXCEPT !.chunkState = "ReadChunkCrLf"], ThruDelimiter(Len(bytes)), << >>)

RunChunkCrLf(f, bytes) ==
  IF bytes # CRLF THEN Ended(f, "asserted")
  ELSE Ran(InNextState(f), ThruDelimiter(2), << >>)

\* The connection may not end before the last chunk does.
RunCutOff(f, readSoFar) ==
  IF IsKnown(f.totalSize) /\ readSoFar >= f.totalSize THEN Ended(f, "asserted")
                                                      ELSE Ended(f, "thrown")

RunChunked(f, bytes, readSoFar, disconnected, ticket) ==
  CASE disconnected -> RunCutOff(f, readSoFar)
    [] ~disconnected /\ f.chunkState = "BeginChunk" -> RunSizeLine(f, bytes, << >>)
    [] ~disconnected /\ f.chunkState = "ReadChunkSize" -> RunNextSize(f, bytes, ticket)
    [] ~disconnected /\ f.chunkState = "ReadChunkData" -> RunChunkData(f, bytes)
    [] ~disconnected /\ f.chunkState = "ReadChunkCrLf" -> RunChunkCrLf(f, bytes)

=============================================================================
