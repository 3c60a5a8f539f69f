----------------------------- MODULE Instructions -----------------------------
(***************************************************************************)
(* What a filter of a Parasock is made of (parasock/Filter.h): the         *)
(* instructions it gives to the event loop, what it writes to the SockBuf  *)
(* behind it, the outcome of one runFilter; and the two operations of a    *)
(* PcreDataFilter on a piece of a body, which the filter of plain bodies   *)
(* and that of chunked ones share.                                         *)
(*                                                                         *)
(* A byte stands for a piece of text that matters to a filter: "r" and "n" *)
(* are the CR and LF of the only delimiter in use; "bad" is text that no   *)
(* line may have; a Verb or a Status is the text of a request or response  *)
(* line, and no header line (it has no colon); "at" is a request line with *)
(* an '@' in front of the server's name; "the" is a word that the          *)
(* PcreDataFilter replaces; any other symbol is plain text.                *)
(***************************************************************************)
EXTENDS Integers, Sequences
LOCAL INSTANCE SequencesExt

\* Op(x).  TLC then evaluates x only once, where it would evaluate an argument
\* at each of its uses.
Once(x, Op(_)) == CHOOSE y \in { Op(v) : v \in {x} } : TRUE

CRLF == << "r", "n" >>

\* Knowable<size_t>: a size, or UNKNOWN.
UNKNOWN == -1
IsKnown(k) == k # UNKNOWN

\* Where std::string::find sees the delimiter, and the length of the string
\* through its first occurrence (0: there is none).
DelimiterAt(s) == { p \in 1..(Len(s) - 1) : SubSeq(s, p, p + 1) = CRLF }
ThroughDelimiter(s) ==
  IF DelimiterAt(s) = {} THEN 0
  ELSE 1 + CHOOSE p \in DelimiterAt(s) : \A q \in DelimiterAt(s) : p <= q

-----------------------------------------------------------------------------

Instruction(type, count, commitSize) ==
  [type |-> type, count |-> count, commitSize |-> commitSize]

QuitFilter(commitSize)    == Instruction("QuitFilter", 0, commitSize)
ThruDelimiter(commitSize) == Instruction("ThruDelimiter", 0, commitSize)
BytesMax(n, commitSize)   == Instruction("BytesMax", n, commitSize)
BytesExact(n, commitSize) == Instruction("BytesExact", n, commitSize)
BytesUnknown(commitSize)  == Instruction("BytesUnknown", 0, commitSize)

-----------------------------------------------------------------------------
(* What a filter does to the SockBuf it writes to, in the order of its     *)
(* calls: an outputString; an outputPlaceholder whose Placeholder goes to  *)
(* the filter's caller, or stays with the filter (Own); the fulfilment of  *)
(* one that stayed.                                                        *)

String(s)   == [op |-> "string", id |-> 0, text |-> s]
Place       == [op |-> "place",  id |-> 0, text |-> << >>]
Own         == [op |-> "own",    id |-> 0, text |-> << >>]
Fill(id, s) == [op |-> "fill",   id |-> id, text |-> s]

\* What one runFilter does: the next instruction, its outputs, and the filter's
\* members after it.  An exception, a failed assertion or a loop that never ends
\* leaves no instruction.
Ran(f, instruction, outputs) ==
  [ended |-> "ok", filter |-> f, instruction |-> instruction, outputs |-> outputs]

Ended(f, how) == [Ran(f, QuitFilter(0), << >>) EXCEPT !.ended = how]

-----------------------------------------------------------------------------
(* PcreDataFilter on a piece of a body.  total is contentLengthUnfiltered. *)

SubFirstInstruction(total) ==
  CASE total = 0      -> QuitFilter(0)
    [] IsKnown(total) /\ total # 0 -> BytesMax(total, 0)
    [] ~IsKnown(total) -> BytesUnknown(0)

\* What a body becomes: each word that is to go is replaced, and nothing of the
\* replacement.  (The reference by which filterBuffer is judged.)
Replacement == << "Flat", "worm" >>
EveryWordReplaced(s) ==
  FlattenSeq([k \in DOMAIN s |-> IF s[k] = "the" THEN Replacement ELSE << s[k] >>])

\* filterBuffer, with the word and the replacement that handleIncomingRequest
\* gives it.  pcre_exec, as the loop uses it: where the matches at or behind an
\* offset begin (offsets count from 0), of which it reports the first.
Matches(buf, offset) == { p \in offset..(Len(buf) - 1) : buf[p + 1] = "the" }

\* Faulty variant of NextOffset: the loop goes on one byte too far.
NextOffsetBehind(place) == place + Len(Replacement) + 1

NextOffset(place) == place + Len(Replacement)

\* One turn of the loop: the buffer is put together anew.  A turn without a match
\* ends the loop; here the turns behind it change nothing.
ReplaceFirst(turn) ==
  LET found == Matches(turn.buf, turn.offset)
      place == CHOOSE p \in found : \A q \in found : p <= q
  IN  IF found = {} THEN turn
      ELSE [buf |-> SubSeq(turn.buf, 1, place) \o Replacement
                      \o SubSeq(turn.buf, place + 2, Len(turn.buf)),
            offset |-> NextOffset(place)]

\* A turn with a match passes at least one byte of s.
FilterBuffer(s) ==
  LET Turns[k \in 0..Len(s)] ==
        IF k = 0 THEN [buf |-> s, offset |-> 0]
                 ELSE Once(Turns[k - 1], ReplaceFirst)
  IN  Turns[Len(s)].buf

\* runSubCore's Assert, and its next instruction; it commits all it is given
\* and outputs FilterBuffer of it.
SubCoreAccepts(total, soFar) == IsKnown(total) => soFar <= total
SubInstruction(total, soFar, commitSize) ==
  IF total = soFar THEN QuitFilter(commitSize)
  ELSE IF IsKnown(total) THEN BytesMax(total - soFar, commitSize)
  ELSE BytesUnknown(commitSize)

=============================================================================
