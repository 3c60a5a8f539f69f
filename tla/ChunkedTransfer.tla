--------------------------- MODULE ChunkedTransfer ---------------------------
(***************************************************************************)
(* A chunked body on its way from the server to the client: the event loop *)
(* with a chunked DataFilter, judged by the reference definitions of       *)
(* ChunkedCoding, beside the other filters.                                *)
(*                                                                         *)
(* Bodies: the bodies the server may send, as sequences of chunks.         *)
(***************************************************************************)
EXTENDS ParasockCaller, ChunkedCoding, SequencesExt

CONSTANT Bodies

\* The chunks of a body have one byte or more, in two digits at most; only a
\* response goes through a chunked filter, and each through a new one.
ASSUME TransferAssumption ==
  /\ \A body \in Bodies :
       /\ body \in Seq(Seq(Alphabet))
       /\ \A k \in DOMAIN body : Len(body[k]) \in 1..255
  /\ \A c \in Cases : \A filters \in FilterPairs[c] :
       LET f == filters["server"]
       IN  /\ filters["client"].class # "Chunked"
           /\ f.class = "Chunked" => /\ f = ChunkedFilter(f.totalSize, f.subReadSoFar)
                                     /\ f.totalSize \in Nat \union {UNKNOWN}
                                     /\ f.subReadSoFar \in 0..(SizeValues - 1)

\* How many bytes of the server were taken before its present filter began.
TakenBefore == Len(consumed["server"]) + Len(uncommittedBytes["server"]) - readSoFar["server"]

\* What the server sends to that filter, and what the client has got.
Sent == From(bytesReadSoFar["server"] \o toCome["server"], TakenBefore + 1)
Got == bytesWrittenSoFar["client"]
IsTheBody(body) == Sent = Encoded(body)

Began == filter["server"].class = "Chunked"
HasQuitChunks == Began /\ HasQuit("server")

-----------------------------------------------------------------------------

\* Whatever the server sends and however recv cuts it, the client gets chunks
\* whose size lines, filled in after the data was written behind them, are the
\* lengths of their filtered data.
FramingIsValid == Began => Decoded(Got).ok

\* A body of one chunk reaches the client filtered and otherwise unchanged, for
\* every value that subReadSoFar may start with.
OneChunkIsTransparent ==
  \A body \in Bodies :
    Len(body) = 1 /\ IsTheBody(body) /\ Began =>
      IsPrefix(DataIn(Got), EveryWordReplaced(body[1]))

\* A failed Assert of the loop or of a filter has one of four causes: a send that
\* socksendto gave up midway (its own timeout), a connection that was reset
\* (ParasockReset.cfg shows how), a chunked body that came with a length besides,
\* or one whose framing is wrong.  No cut of the input, no order of calls and
\* contents, no timeout of poll and no interrupt does it by itself.
FailedAssertsHaveACause ==
  ~NoAssertFailure =>
    \/ stage = "shortSend"
    \/ \E w \in Conn : disconnected[w]
    \/ Began /\ IsKnown(filter["server"].totalSize)
    \/ Began /\ \A body \in Bodies : ~IsTheBody(body)

\* The filter takes exactly the input through the line of the last chunk.  The
\* empty line behind it (or a trailer) stays unread.
QuitsAtTheLastChunk ==
  \A body \in Bodies :
    IsTheBody(body) /\ HasQuitChunks =>
      Taken("server") = SubSeq(Sent, 1, Len(Sent) - 2)

\* A body of any number of chunks is written to its end (and the surplus), the
\* filter quits, and it has counted as contentLengthFiltered, by which
\* handleIncomingRequest decides whether to keep the client's connection, what it
\* wrote.  It does not wait for the server's close, and only a timeout (of poll, or
\* of sockrecvfrom, which passes for the close), a peer's reset or a client that
\* does not read prevents it.
\* (The length is not known besides.)
CompleteBodyIsDelivered ==
  (\E body \in Bodies : IsTheBody(body) /\ Began /\ ~IsKnown(filter["server"].totalSize))
    ~> \/ /\ HasQuitChunks
          /\ IsSuffix(LastChunk \o CRLF \o Surplus, Got)
          /\ Decoded(Got).ok
          /\ filter["server"].contentLengthFiltered = Len(DataIn(Got))
       \/ timedOut
       \/ readAZero["server"] /\ toCome["server"] # << >>
       \/ \E w \in Conn : peer[w] = "reset"
       \/ stage \in {"shortSend", "blocked"}

\* Chunking is transparent to a filter (DataFilter.h): whatever the chunks of a
\* body, the client gets its filtered data.
ChunkingIsTransparent ==
  \A body \in Bodies :
    IsTheBody(body) /\ Began =>
      IsPrefix(DataIn(Got), EveryWordReplaced(FlattenSeq(body)))

=============================================================================
