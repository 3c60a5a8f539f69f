------------------------------- MODULE Filters -------------------------------
(***************************************************************************)
(* The filters that the proxy attaches to a direction of a Parasock        *)
(* (DeadFilter.h, PassthruFilter.h, OneLineFilter.h, RequestLineFilter.h,  *)
(* ResponseLineFilter.h, HeaderFilter.h, and the PcreDataFilter of a body  *)
(* that is not chunked; the chunked one is ChunkedBody's).                 *)
(***************************************************************************)
EXTENDS ChunkedBody

Verbs == {"GET", "HEAD", "POST", "CONNECT"}
Statuses == {"200", "204", "304"}

\* Whether the line processor of a filter rejects a line.
Malformed(class, line) ==
  \E k \in DOMAIN line :
    \/ line[k] = "bad"
    \/ class = "Header" /\ line[k] \in Verbs \union Statuses

\* A filter: its class, and the members of a PassthruFilter; totalSize is also
\* the contentLengthUnfiltered of a PcreDataFilter.
Filter(class, totalSize, sendFirst) ==
  [class |-> class, totalSize |-> totalSize, sendFirst |-> sendFirst]

DeadFilter         == Filter("Dead", UNKNOWN, << >>)
RequestLineFilter  == Filter("RequestLine", UNKNOWN, << >>)
ResponseLineFilter == Filter("ResponseLine", UNKNOWN, << >>)
HeaderFilter       == Filter("Header", UNKNOWN, << >>)
PassthruFilter(totalSize, sendFirst) == Filter("Passthru", totalSize, sendFirst)
PcreDataFilter(contentLength) == Filter("Data", contentLength, << >>)

\* What the event loop needs of a filter.
Classes == {"Dead", "RequestLine", "ResponseLine", "Header", "Passthru", "Data", "Chunked"}
IsFilter(f) ==
  /\ f.class \in Classes
  /\ IF f.class = "Chunked"
       THEN /\ {"class", "chunkState"} \subseteq DOMAIN f
            /\ f.chunkState \in DOMAIN NextChunkState
       ELSE /\ {"class", "totalSize"} \subseteq DOMAIN f
            /\ f.totalSize \in Nat \union {UNKNOWN}

\* firstInstruction of each class: the instruction, what it outputs, and the
\* filter after it, when its first output has the given ticket.
FirstInstruction(f) ==
  CASE f.class = "Dead" -> QuitFilter(0)
    [] f.class \in {"RequestLine", "ResponseLine", "Header", "Chunked"} ->
         ThruDelimiter(0)
    [] f.class \in {"Passthru", "Data"} -> SubFirstInstruction(f.totalSize)

FirstOutputs(f) ==
  CASE f.class = "Chunked" -> NewChunk
    [] f.class = "Passthru" /\ f.sendFirst # << >> -> << String(f.sendFirst) >>
    [] OTHER -> << >>

Begun(f, ticket) == IF f.class = "Chunked" THEN WithChunk(f, ticket) ELSE f

-----------------------------------------------------------------------------

\* DeadFilter::runFilter is NotReached().
RunDead(f) == Ended(f, "asserted")

\* Whether parseconnusername gets the name in a line: an '@' is in front of it
\* and none in it.  Its loop over the delimiters never ends.
NeverParsed(class, line) ==
  class = "RequestLine" /\ \E k \in DOMAIN line : line[k] = "at"

\* The line is output now, or gets a placeholder to be rewritten into.
RunOneLine(f, bytes, disconnected) ==
  CASE disconnected -> Ended(f, "thrown")
    [] ~disconnected /\ DelimiterAt(bytes) = {} -> Ended(f, "asserted")
    [] ~disconnected /\ 1 \in DelimiterAt(bytes) ->
         Ran(f, ThruDelimiter(Len(bytes)), << >>)
    [] OTHER ->
         IF Malformed(f.class, bytes) THEN Ended(f, "thrown")
         ELSE IF NeverParsed(f.class, bytes) THEN Ended(f, "looping")
         ELSE Ran(f, QuitFilter(Len(bytes)),
                  IF f.class = "RequestLine" THEN << Place >>
                                             ELSE << String(bytes) >>)

\* Faulty variant of RunHeader: the filter quits at its first line.
RunHeaderQuitsAtLine(f, bytes, disconnected) ==
  IF disconnected THEN Ended(f, "thrown")
                  ELSE Ran(f, QuitFilter(Len(bytes)), << >>)

\* A header line is kept in the filter; the blank line ends the header and
\* reserves the places of the header, of its content length and of its CRLF.
RunHeader(f, bytes, disconnected) ==
  CASE disconnected -> Ended(f, "thrown")
    [] ~disconnected /\ bytes = CRLF ->
         Ran(f, QuitFilter(2), << Place, Place, Place >>)
    [] ~disconnected /\ Len(bytes) <= 2 /\ bytes # CRLF -> Ended(f, "asserted")
    [] OTHER -> IF Malformed(f.class, bytes) THEN Ended(f, "thrown")
                ELSE Ran(f, ThruDelimiter(Len(bytes)), << >>)

\* Where a DataFilter differs from a PassthruFilter on a body that is not
\* chunked: the sub-core puts the bytes through filterBuffer, and a filter whose
\* size is known must not be told of a disconnection when it has all of it.
LetThrough(f, bytes) == IF f.class = "Data" THEN FilterBuffer(bytes) ELSE bytes
MustBeShort(f, disconnected) ==
  disconnected /\ f.class = "Data" /\ IsKnown(f.totalSize)

\* Everything goes through, until totalSize bytes or the disconnection.
RunThrough(f, bytes, readSoFar, disconnected) ==
  LET total == IF disconnected /\ ~IsKnown(f.totalSize) THEN readSoFar
                                                        ELSE f.totalSize
      out == LetThrough(f, bytes)
      short == disconnected /\ readSoFar < total
  IN  CASE short -> Ended(f, "thrown")
        [] ~short /\ \/ ~SubCoreAccepts(total, readSoFar)
                     \/ MustBeShort(f, disconnected) ->
             Ended(f, "asserted")
        [] OTHER -> Ran([f EXCEPT !.totalSize = total],
                        SubInstruction(total, readSoFar, Len(bytes)),
                        << String(out) >>)

\* ticket: that of the first output of this run.
RunFilter(f, bytes, readSoFar, disconnected, ticket) ==
  CASE f.class = "Dead" -> RunDead(f)
    [] f.class \in {"RequestLine", "ResponseLine"} -> RunOneLine(f, bytes, disconnected)
    [] f.class = "Header" -> RunHeader(f, bytes, disconnected)
    [] f.class \in {"Passthru", "Data"} -> RunThrough(f, bytes, readSoFar, disconnected)
    [] f.class = "Chunked" -> RunChunked(f, bytes, readSoFar, disconnected, ticket)

\* runWrapper: a filter told of a disconnection must quit, and commits no more
\* than it was given.
RunWrapper(f, bytes, readSoFar, disconnected, ticket) ==
  LET Checked(ran) ==
        IF /\ readSoFar > 0 \/ disconnected
           /\ ran.ended = "ok" =>
                /\ disconnected => ran.instruction.type = "QuitFilter"
                /\ ran.instruction.commitSize <= Len(bytes)
          THEN ran ELSE Ended(f, "asserted")
  IN  Once(RunFilter(f, bytes, readSoFar, disconnected, ticket), Checked)

=============================================================================
