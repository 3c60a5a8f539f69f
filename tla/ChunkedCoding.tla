---------------------------- MODULE ChunkedCoding ----------------------------
(***************************************************************************)
(* Reference definitions of the chunked coding (RFC 2616, 3.6.1), by which *)
(* what a chunked DataFilter writes is judged: an encoder, and a decoder   *)
(* that says what a reader makes of a beginning of a chunked body.         *)
(***************************************************************************)
EXTENDS ChunkedBody
Coding == INSTANCE SequencesExt

LastChunk == << "0" >> \o CRLF

ChunkOf(data) == Hex(Len(data)) \o CRLF \o data \o CRLF

\* What DataFilter writes behind a body's end: the last chunk once more.
Surplus == LastChunk

\* The chunked coding of a sequence of nonempty chunks.
Encoded(chunks) ==
  Coding!FlattenSeq([k \in DOMAIN chunks |-> ChunkOf(chunks[k])]) \o LastChunk \o CRLF

\* Whether s is a beginning of a chunked body, or one with the surplus behind
\* its end; its complete chunks; the data of the next one; whether the last
\* chunk's line is there.
Decoded(s) ==
  LET Numeric(line) == line # << >> /\ \A k \in DOMAIN line : IsDigit(line[k])
      A(ok, chunks, partial, ended) ==
        [ok |-> ok, chunks |-> chunks, partial |-> partial, ended |-> ended]
      At[i \in 1..(Len(s) + 1)] ==
        LET rest == SubSeq(s, i, Len(s))
            part(t, a, b) == SubSeq(t, a, IF b < Len(t) THEN b ELSE Len(t))
            through == ThroughDelimiter(rest)
            line == part(rest, 1, through - 2)
            size == ScanHex(line)
            data == SubSeq(rest, through + 1, Len(rest))
            behind == part(data, size + 1, size + 2)
            next == At[i + through + size + 2]
            sizeBegun == \A k \in DOMAIN rest :
              IsDigit(rest[k]) \/ (rest[k] = "r" /\ k = Len(rest) /\ k > 1)
        IN  IF through = 0 THEN A(sizeBegun, << >>, << >>, FALSE)
            ELSE IF ~Numeric(line) THEN A(FALSE, << >>, << >>, FALSE)
            ELSE IF size = 0
              THEN A(Coding!IsPrefix(data, CRLF \o Surplus), << >>, << >>, TRUE)
            ELSE IF Len(data) < size + 2
              THEN A(Coding!IsPrefix(behind, CRLF), << >>, part(data, 1, size), FALSE)
            ELSE A(behind = CRLF /\ next.ok, << SubSeq(data, 1, size) >> \o next.chunks,
                   next.partial, next.ended)
  IN  At[1]

\* The data in s, as far as it has got.
DataIn(s) == Coding!FlattenSeq(Decoded(s).chunks) \o Decoded(s).partial

=============================================================================
