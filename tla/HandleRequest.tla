----------------------------- MODULE HandleRequest -----------------------------
(***************************************************************************)
(* A worker's life: proxychild, the phases of handleIncomingRequest on the *)
(* worker's Parasock, and the destructor (ProxyServer.cpp).                *)
(*                                                                         *)
(* A phase is a place in handleIncomingRequest between two calls of the    *)
(* event loop; the loop's steps run while stage is not "idle".  The value  *)
(* of ckeepalive is 0 after every first request: it is counted up only     *)
(* when the filtered length of the client's data is known, and that filter *)
(* is never attached.  So a worker handles one request.                    *)
(*                                                                         *)
(* Texts that the proxy writes itself are one symbol each.                 *)
(***************************************************************************)
EXTENDS Parasock, ChunkedCoding
Texts == INSTANCE SequencesExt

CONSTANTS Exchanges,  \* what the client and the server may send
          Peers,      \* whether they close after it
          Memory,     \* what a body filter's subReadSoFar may begin with
          External    \* whether main may have been given -e, not, or either

ASSUME RequestAssumption ==
  /\ \A e \in Exchanges : e \in [Conn -> Seq(Alphabet)]
  /\ Peers \subseteq [Conn -> {"open", "closed"}]
  /\ Memory \subseteq 0..(SizeValues - 1)
  /\ External \subseteq BOOLEAN

VARIABLES phase,
          everTimedOut,   \* some call of the loop has timed out (history)
          errorSent       \* the message that failureShutdown has sent

workerVars == << phase, everTimedOut, errorSent >>
allVars == << vars, workerVars >>

RequestText == << "request" >>
HeaderText  == << "header" >>
ChunkedText == << "transfer-encoding" >>
EstablishedText == << "established" >>
ErrorText == << "error" >>

Init ==
  /\ \E e \in Exchanges, p \in Peers : InitWith(e, p, {"client"})
  /\ phase = "request"
  /\ everTimedOut = FALSE
  /\ errorSent = << >>

-----------------------------------------------------------------------------
(* What the filters have found out: the text of the request or response    *)
(* line, and the attributes in the header lines that were read.            *)

IsIn(s, symbols) == \E k \in DOMAIN s : s[k] \in symbols

Lengths == [len0 |-> 0, len1 |-> 1, len2 |-> 2]

\* A header line Content-Length; the last one counts.
ContentLength(s) ==
  LET at == { k \in DOMAIN s : s[k] \in DOMAIN Lengths }
  IN  IF at = {} THEN UNKNOWN
      ELSE Lengths[s[CHOOSE k \in at : \A j \in at : j <= k]]

\* A header line Transfer-Encoding: chunked.
IsChunked(s) == IsIn(s, {"chunked"})

IsConnect == IsIn(consumed["client"], {"CONNECT"})
NoBody == \/ IsIn(consumed["client"], {"HEAD"})
          \/ IsIn(consumed["server"], {"204", "304"})

\* The first placeholder that is not fulfilled yet; phs with the first ones
\* fulfilled in turn.
NextHole(phs) ==
  phs[CHOOSE k \in DOMAIN phs : /\ ~phs[k].contentsKnown
                                /\ \A j \in 1..(k - 1) : phs[j].contentsKnown].id

FulfilledNext(phs, contents) == FulfillPlaceholder(phs, NextHole(phs), contents)

FulfilledInTurn(phs, contents) ==
  LET n == Len(contents)
      Fulfilled[k \in 0..n] ==
        IF k = 0 THEN phs
        ELSE LET fulfill(before) == FulfilledNext(before, contents[k])
             IN  Once(Fulfilled[k - 1], fulfill)
  IN  Fulfilled[n]

\* Whether one of the placeholders was never reserved: those before it have
\* filled the last hole.
OneIsMissing(phs, contents) ==
  \E k \in DOMAIN contents :
    Holes(FulfilledInTurn(phs, SubSeq(contents, 1, k - 1))) = {}

-----------------------------------------------------------------------------
(* The calls of the event loop.                                            *)

Call(from, filters, to) ==
  /\ phase = from
  /\ StartCall(filters)
  /\ phase' = to
  /\ UNCHANGED << everTimedOut, errorSent >>

Filtered(c, s) == [client |-> c, server |-> s]
Flush(from, to) == Call(from, Filtered(DeadFilter, DeadFilter), to)

ReadRequestLine ==
  Call("request", Filtered(RequestLineFilter, DeadFilter), "requestRead")

\* A request line that a timeout has cut off is too short.
CheckRequest ==
  /\ phase = "requestRead"
  /\ stage = "idle"
  /\ IF Holes(placeholders["server"]) = {}
       THEN phase' = phase /\ stage' = "thrown"
       ELSE phase' = "header" /\ UNCHANGED stage
  /\ UNCHANGED << sockbufVars, filter, instruction, readSoFar, socketClosed,
                  readAZero, needToRead, timedOut, todo, held, nextTicket,
                  consumed, peerVars, everTimedOut, errorSent >>

ReadHeader ==
  Call("header", Filtered(HeaderFilter, DeadFilter), "connect")

\* What comes behind connectToServer.
Connected == phase' = IF IsConnect THEN "consume" ELSE "fulfillRequest"

\* Without -e: every socket call may fail.
ConnectToServer ==
  /\ phase = "connect"
  /\ stage = "idle"
  /\ FALSE \in External
  /\ \E socketMade, connected \in BOOLEAN :
       /\ connected => socketMade
       /\ sock' = [sock EXCEPT !["server"] = IF socketMade THEN "open" ELSE @]
       /\ stage' = IF connected THEN "idle" ELSE "thrown"
  /\ Connected
  /\ UNCHANGED << disconnected, unfilteredBytes, uncommittedBytes, placeholders,
                  bytesReadSoFar, bytesWrittenSoFar, filter, instruction,
                  readSoFar, socketClosed, readAZero, needToRead, timedOut,
                  todo, held, nextTicket, consumed, peerVars, everTimedOut,
                  errorSent >>

\* With -e the branch that binds and connects is not entered: the worker goes on
\* with a socket that leads nowhere.
LeaveUnconnected ==
  /\ phase = "connect"
  /\ stage = "idle"
  /\ TRUE \in External
  /\ \/ /\ sock' = [sock EXCEPT !["server"] = "open"]
        /\ peer' = [peer EXCEPT !["server"] = "unconnected"]
        /\ toCome' = [toCome EXCEPT !["server"] = << >>]
        /\ UNCHANGED stage
     \/ stage' = "thrown" /\ UNCHANGED << sock, peerVars >>
  /\ Connected
  /\ UNCHANGED << disconnected, unfilteredBytes, uncommittedBytes, placeholders,
                  bytesReadSoFar, bytesWrittenSoFar, filter, instruction,
                  readSoFar, socketClosed, readAZero, needToRead, timedOut,
                  todo, held, nextTicket, consumed, everTimedOut, errorSent >>

\* Fulfilling the first unfulfilled placeholders of w with the given contents;
\* a placeholder that its filter never reserved is NULL, and Assert stops.
FulfillNext(from, w, contents, to) ==
  LET fulfilled == FulfilledInTurn(placeholders[w], contents)
  IN  /\ phase = from
      /\ stage = "idle"
      /\ phase' = to
      /\ IF OneIsMissing(placeholders[w], contents)
           THEN /\ stage' = "asserted"
                /\ UNCHANGED << placeholders, held >>
           ELSE /\ placeholders' = [placeholders EXCEPT ![w] = fulfilled]
                /\ held' = held \ ({w} \X (Holes(placeholders[w]) \ Holes(fulfilled)))
                /\ UNCHANGED stage
      /\ UNCHANGED << sock, disconnected, unfilteredBytes, uncommittedBytes,
                      bytesReadSoFar, bytesWrittenSoFar, filter, instruction,
                      readSoFar, socketClosed, readAZero, needToRead, timedOut,
                      todo, nextTicket, consumed, peerVars, everTimedOut,
                      errorSent >>

\* Faulty variant of HeaderContents: the CRLF is in the header's place.
HeaderContentsSwapped(w) ==
  << CRLF, IF IsChunked(consumed[w]) THEN ChunkedText ELSE << >>, HeaderText >>

\* The placeholders of the header of what w sends, its content length and its
\* CRLF.  The filtered length is not known yet: only chunks are announced.
HeaderContents(w) ==
  << HeaderText, IF IsChunked(consumed[w]) THEN ChunkedText ELSE << >>, CRLF >>

-----------------------------------------------------------------------------
(* CONNECT: the request and header are consumed, and a tunnel is set up.   *)

\* Faulty variant of Consume: the proxy's CONNECT goes on to the server.
ConsumeForwardsRequest ==
  FulfillNext("consume", "server", << RequestText, << >>, << >>, << >> >>, "tunnel")

Consume ==
  FulfillNext("consume", "server", << << >>, << >>, << >>, << >> >>, "tunnel")

Tunnel ==
  Call("tunnel", Filtered(PassthruFilter(UNKNOWN, << >>),
                          PassthruFilter(UNKNOWN, EstablishedText)), "checkpoint")

-----------------------------------------------------------------------------
(* Any other request: it is sent, and the response is sent back.           *)

FulfillRequest ==
  FulfillNext("fulfillRequest", "server", << RequestText >>, "sendRequest")
SendRequest == Flush("sendRequest", "fulfillHeader")
FulfillRequestHeader ==
  FulfillNext("fulfillHeader", "server", HeaderContents("client"), "sendHeader")
SendHeader == Flush("sendHeader", "response")

\* Faulty variant of ReadResponseLine: the filter is attached to the client.
ReadResponseFromClient ==
  Call("response", Filtered(ResponseLineFilter, DeadFilter), "responseHeader")

ReadResponseLine ==
  Call("response", Filtered(DeadFilter, ResponseLineFilter), "responseHeader")
ReadResponseHeader ==
  Call("responseHeader", Filtered(DeadFilter, HeaderFilter), "headerRead")

\* The filtered length of the server's data is not known before the data is
\* read: this call reads none.
FlushBeforeBody ==
  /\ ~NoBody
  /\ Flush("headerRead", "fulfillResponseHeader")
SkipFlush ==
  /\ phase = "headerRead"
  /\ stage = "idle"
  /\ NoBody
  /\ phase' = "fulfillResponseHeader"
  /\ UNCHANGED << vars, everTimedOut, errorSent >>

FulfillResponseHeader ==
  FulfillNext("fulfillResponseHeader", "client", HeaderContents("server"), "body")

FinishWithoutBody == NoBody /\ Flush("body", "checkpoint")

\* Faulty variant of ReadBody: the length is looked for in the client's header.
ReadBodyByClientLength ==
  /\ ~NoBody
  /\ Call("body",
          Filtered(DeadFilter, PcreDataFilter(ContentLength(consumed["client"]))),
          "flushClient")

BodyFilters ==
  LET length == ContentLength(consumed["server"])
  IN  IF IsChunked(consumed["server"])
        THEN { ChunkedFilter(length, garbage) : garbage \in Memory }
        ELSE { PcreDataFilter(length) }

ReadBody ==
  /\ ~NoBody
  /\ \E f \in BodyFilters : Call("body", Filtered(DeadFilter, f), "flushClient")
FlushClient == Flush("flushClient", "flushServer")
FlushServer == Flush("flushServer", "checkpoint")

-----------------------------------------------------------------------------
(* The ends of handleIncomingRequest, and of the worker.                   *)

CleanCheckpoint ==
  /\ phase = "checkpoint"
  /\ stage = "idle"
  /\ IF \A w \in Conn : uncommittedBytes[w] = << >> /\ placeholders[w] = << >>
       THEN phase' = "handled" /\ UNCHANGED stage
       ELSE phase' = phase /\ stage' = "asserted"
  /\ UNCHANGED << sockbufVars, filter, instruction, readSoFar, socketClosed,
                  readAZero, needToRead, timedOut, todo, held, nextTicket,
                  consumed, peerVars, everTimedOut, errorSent >>

\* The catch clauses: the stack's auto_ptrs are gone; the client is told, as far
\* as socksendto gets.
Catch ==
  /\ stage = "thrown"
  /\ phase \notin {"failed", "deleted"}
  /\ phase' = "failed"
  /\ held' = {}
  /\ sock' = [sock EXCEPT !["client"] = "invalid"]
  /\ disconnected' = [disconnected EXCEPT !["client"] = @ \/ sock["client"] = "open"]
  /\ IF sock["client"] = "open"
       THEN errorSent' \in {ErrorText} \union (IF peer["client"] = "reset" \/ Faults # {}
                                                 THEN {<< >>} ELSE {})
       ELSE UNCHANGED errorSent
  /\ UNCHANGED << unfilteredBytes, uncommittedBytes, placeholders,
                  bytesReadSoFar, bytesWrittenSoFar, loopVars, nextTicket,
                  consumed, peerVars, everTimedOut >>

\* failureShutdown's sendto never returns (see SendBlocks).
CatchBlocks ==
  /\ stage = "thrown"
  /\ phase \notin {"failed", "deleted"}
  /\ sock["client"] = "open"
  /\ peer["client"] # "reset"
  /\ "blockingSend" \in Faults
  /\ stage' = "blocked"
  /\ UNCHANGED << sockbufVars, filter, instruction, readSoFar, socketClosed,
                  readAZero, needToRead, timedOut, todo, held, nextTicket,
                  consumed, peerVars, workerVars >>

\* Faulty variant of DeleteProxy: the client's SockBuf is not destroyed.
DeleteProxyKeepsClient ==
  /\ phase \in {"handled", "failed"}
  /\ phase' = "deleted"
  /\ sock' = [sock EXCEPT !["server"] = "invalid"]
  /\ UNCHANGED << disconnected, held, unfilteredBytes, uncommittedBytes,
                  placeholders, bytesReadSoFar, bytesWrittenSoFar, loopVars,
                  nextTicket, consumed, peerVars, everTimedOut, errorSent >>

\* delete proxy: the server's SockBuf, and with the Parasock the client's.
DeleteProxy ==
  /\ phase \in {"handled", "failed"}
  /\ phase' = "deleted"
  /\ sock' = [w \in Conn |-> "invalid"]
  /\ disconnected' = [w \in Conn |-> disconnected[w] \/ sock[w] = "open"]
  /\ held' = {}
  /\ UNCHANGED << unfilteredBytes, uncommittedBytes, placeholders,
                  bytesReadSoFar, bytesWrittenSoFar, loopVars, nextTicket,
                  consumed, peerVars, everTimedOut, errorSent >>

LoopStep ==
  /\ Loop
  /\ everTimedOut' = (everTimedOut \/ timedOut')
  /\ UNCHANGED << phase, errorSent >>

\* The steps of the worker's thread.
Worker ==
  \/ ReadRequestLine \/ CheckRequest \/ ReadHeader
  \/ ConnectToServer \/ LeaveUnconnected
  \/ Consume \/ Tunnel
  \/ FulfillRequest \/ SendRequest \/ FulfillRequestHeader \/ SendHeader
  \/ ReadResponseLine \/ ReadResponseHeader
  \/ FlushBeforeBody \/ SkipFlush \/ FulfillResponseHeader
  \/ FinishWithoutBody \/ ReadBody \/ FlushClient \/ FlushServer
  \/ CleanCheckpoint \/ Catch \/ CatchBlocks \/ DeleteProxy
  \/ LoopStep

Next ==
  \/ Worker
  \/ \E w \in Conn : PeerReset(w) /\ UNCHANGED workerVars

Spec == Init /\ [][Next]_allVars

\* The worker's thread runs on, and every poll returns (it has a timeout), in
\* the end otherwise than by an interrupt.
FairSpec ==
  /\ Spec
  /\ WF_allVars(Worker)
  /\ SF_allVars((PollReady \/ PollTimeout) /\ LoopStep)

-----------------------------------------------------------------------------

\* Where a line of s ends that is not blank, and where a blank line behind one
\* does: blank lines in front of the first line are passed over.
LineEnds(s) == { p \in DelimiterAt(s) : p # 1 /\ p - 2 \notin DelimiterAt(s) }
BlankLines(s) ==
  { p \in DelimiterAt(s) : /\ p - 2 \in DelimiterAt(s)
                           /\ \E q \in LineEnds(s) : q < p }

\* The first line of s that is not blank.
FirstLine(s) ==
  IF LineEnds(s) = {} THEN << >>
  ELSE LET end == CHOOSE p \in LineEnds(s) : \A q \in LineEnds(s) : p <= q
           blanks == { p \in DelimiterAt(s) : p < end }
       IN  SubSeq(s, 2 * Cardinality(blanks) + 1, end + 1)

\* The part of s through its header's blank line.
ThroughHeader(s) ==
  IF BlankLines(s) = {} THEN Len(s)
  ELSE 1 + CHOOSE p \in BlankLines(s) : \A q \in BlankLines(s) : p <= q

\* A body through the filter, by how the header before it says it is coded: up
\* to its length, chunk by chunk, or as it is.
Body(header, rest) ==
  IF IsChunked(header)
    THEN LET chunks == Decoded(rest).chunks
             recoded == [k \in DOMAIN chunks |-> EveryWordReplaced(chunks[k])]
         IN  IF Decoded(rest).ended
               THEN Encoded(recoded) \o Surplus
               ELSE Texts!FlattenSeq([k \in DOMAIN chunks |-> ChunkOf(recoded[k])])
  ELSE IF IsKnown(ContentLength(header))
    THEN EveryWordReplaced(SubSeq(rest, 1, Least(ContentLength(header), Len(rest))))
  ELSE EveryWordReplaced(rest)

\* What a server that sent s should have been made to say to the client.  (A
\* body of at most one chunk: ChunkedTransfer shows what becomes of more.)
Translated(s) ==
  LET header == SubSeq(s, 1, ThroughHeader(s))
  IN  FirstLine(s) \o HeaderText
        \o (IF IsChunked(header) THEN ChunkedText ELSE << >>) \o CRLF
        \o (IF NoBody THEN << >> ELSE Body(header, From(s, ThroughHeader(s) + 1)))

\* The data of a request: a body has a length or is chunked.
RequestBody(s) ==
  LET header == SubSeq(s, 1, ThroughHeader(s))
  IN  IF IsChunked(header) \/ IsKnown(ContentLength(header))
        THEN Body(header, From(s, ThroughHeader(s) + 1)) ELSE << >>

\* What a server that sent t and a client that sent s are to be made to say; of a
\* request's text, the line and the header are the head.
ToClient(t) == IF IsConnect THEN EstablishedText \o t ELSE Translated(t)
RequestHead(s) ==
  RequestText \o HeaderText
    \o (IF IsChunked(SubSeq(s, 1, ThroughHeader(s))) THEN ChunkedText ELSE << >>)
    \o CRLF
Tunnelled(s) == From(s, ThroughHeader(s) + 1)
ToServer(s) == IF IsConnect THEN Tunnelled(s) ELSE RequestHead(s) \o RequestBody(s)

\* What the client is sent is never anything but the beginning of the server's
\* response with its header and body filtered (in a tunnel, of its bytes as they
\* are): whatever the cuts of the recvs, resets, timeouts and the order in which
\* its placeholders were filled.  One case is excepted: when a call has timed out
\* before the response and that begins with a blank line, the next call takes the
\* blank line for the header's end, and the response line goes out as body.  (The
\* text that failureShutdown may send behind it is errorSent.)
ClientGetsTheResponse ==
  \/ everTimedOut /\ 1 \in DelimiterAt(bytesReadSoFar["server"])
  \/ Texts!IsPrefix(bytesWrittenSoFar["client"], ToClient(bytesReadSoFar["server"]))

\* The server is never sent anything but the beginning of the rewritten request
\* line, the rewritten header and the client's data behind it, or of what follows
\* the header of a CONNECT: whatever the cuts of the recvs, resets, timeouts and
\* the order in which its placeholders are filled.
ServerGetsTheRequest ==
  LET said == bytesWrittenSoFar["server"]
      s == bytesReadSoFar["client"]
  IN  \/ Texts!IsPrefix(said, ToServer(s))
      \/ ~IsConnect /\ Texts!IsPrefix(said, RequestHead(s))

\* The client's data reaches the server: "if we didn't do that then now we attach
\* the client filter" (ProxyServer.cpp:940).  A request that was handled without a
\* timeout was sent to the server with its body.
RequestBodyIsSent ==
  phase = "handled" /\ ~everTimedOut =>
    bytesWrittenSoFar["server"] =
      ToServer(bytesReadSoFar["client"] \o toCome["client"])

\* Both sides have been sent all they are to be sent, and the response was read
\* to its end: its last chunk, its length, when that is known, or the server's
\* close.
Complete ==
  LET s == bytesReadSoFar["server"]
      header == SubSeq(s, 1, ThroughHeader(s))
      rest == From(s, ThroughHeader(s) + 1)
  IN  /\ bytesWrittenSoFar["client"] = ToClient(s)
      /\ bytesWrittenSoFar["server"] = ToServer(bytesReadSoFar["client"])
      /\ \/ NoBody
         \/ ~IsConnect /\ IsChunked(header) /\ Decoded(rest).ended
         \/ ~IsConnect /\ IsKnown(ContentLength(header)) /\ Len(rest) >= ContentLength(header)
         \/ toCome["server"] = << >>

\* A request that handleIncomingRequest ends without an exception and without a
\* timeout was handled completely.  (One without a body: see RequestBodyIsSent.)
HandledIsComplete ==
  phase = "handled" /\ ~everTimedOut /\ RequestBody(bytesReadSoFar["client"]) = << >>
    => Complete

\* Every worker goes away, and none without closing both sockets: unless Assert has
\* stopped the program, or the thread is in one of the two places that have no end,
\* the loop over delimiters for a request line with an '@' in front of the name and
\* a sendto on a socket that blocks.
WorkerEnds ==
  <>[](/\ \/ phase = "deleted"
          \/ stage \in {"asserted", "shortSend"}
          \/ stage = "looping" /\ phase = "requestRead"
          \/ stage = "blocked" /\ "blockingSend" \in Faults
       /\ phase = "deleted" => \A w \in Conn : sock[w] = "invalid")

=============================================================================
