------------------------------- MODULE Parasock -------------------------------
(***************************************************************************)
(* A Parasock: the two SockBufs of a proxied connection and the event loop *)
(* doBidirectionalFilteredProxyCore (parasock/Parasock.cpp) that reads     *)
(* each socket under the instructions of a filter and writes what the      *)
(* filters have put in the SockBufs.                                       *)
(*                                                                         *)
(* The filter attached to connection w reads from w and writes to the      *)
(* other connection.  One worker thread runs the loop; between two of its  *)
(* steps only the peers act.  The caller of the loop is not in this        *)
(* module: StartCall is the loop's entry, and the modules that use it add  *)
(* what their callers do between calls.                                    *)
(*                                                                         *)
(* Alphabet holds the symbols of which the peers' input is made.  MaxRecv  *)
(* bounds what one recv returns (BUFSIZE).  Faults says which failures of  *)
(* the sockets a run includes.                                             *)
(***************************************************************************)
EXTENDS Filters, Placeholders, FiniteSets

CONSTANTS Alphabet, MaxRecv, Faults

ASSUME ParasockAssumption ==
  /\ MaxRecv \in Nat \ {0}
  /\ Faults \subseteq {"timeout", "interrupt", "pollError", "reset",
                       "partialSend", "blockingSend", "sendError", "recvError"}

Conn == {"client", "server"}
Other(w) == IF w = "client" THEN "server" ELSE "client"

VARIABLES
  \* the members of each connection's SockBuf
  sock, disconnected, unfilteredBytes, uncommittedBytes, placeholders,
  bytesReadSoFar, bytesWrittenSoFar,
  \* the locals of the loop, by direction, and timedOut
  filter, instruction, readSoFar, socketClosed, readAZero, needToRead, timedOut,
  stage,       \* where the loop is: see Stages
  todo,        \* the directions still to set up, or the socket events to handle
  held,        \* the Placeholders a caller can fulfil: << connection, id >>
  nextTicket,  \* the next Placeholder's identity
  consumed,    \* the bytes the filters of each direction have committed
  \* the peers: what each will still send, and whether it then closes ("closed")
  \* or not ("open"), has reset, or was never connected to
  toCome, peer

sockbufVars == << sock, disconnected, unfilteredBytes, uncommittedBytes,
                  placeholders, bytesReadSoFar, bytesWrittenSoFar >>
loopVars == << filter, instruction, readSoFar, socketClosed, readAZero,
               needToRead, timedOut, stage, todo >>
peerVars == << toCome, peer >>
vars == << sockbufVars, loopVars, held, nextTicket, consumed, peerVars >>

\* "thrown": an exception left the loop.  "asserted": Assert stopped the program,
\* and "shortSend": the one behind a send that was given up midway did.  "looping"
\* and "blocked": the thread is in a loop without an end, or in a sendto that
\* never returns.
Stages == {"idle", "setup", "compute", "poll", "work",
           "thrown", "asserted", "shortSend", "looping", "blocked"}

Least(a, b) == IF a <= b THEN a ELSE b
From(s, i) == SubSeq(s, i, Len(s))

\* ForEachDirection.
Directions == << "client", "server" >>

-----------------------------------------------------------------------------
(* The initial state, for given peers: both SockBufs new; the client's     *)
(* socket is accepted, the server's is connected now or later.             *)

InitWith(input, peers, connected) ==
  /\ sock = [w \in Conn |-> IF w \in connected THEN "open" ELSE "invalid"]
  /\ disconnected = [w \in Conn |-> FALSE]
  /\ unfilteredBytes = [w \in Conn |-> << >>]
  /\ uncommittedBytes = [w \in Conn |-> << >>]
  /\ placeholders = [w \in Conn |-> << >>]
  /\ bytesReadSoFar = [w \in Conn |-> << >>]
  /\ bytesWrittenSoFar = [w \in Conn |-> << >>]
  /\ filter = [w \in Conn |-> DeadFilter]
  /\ instruction = [w \in Conn |-> QuitFilter(0)]
  /\ readSoFar = [w \in Conn |-> 0]
  /\ socketClosed = [w \in Conn |-> FALSE]
  /\ readAZero = [w \in Conn |-> FALSE]
  /\ needToRead = [w \in Conn |-> UNKNOWN]
  /\ timedOut = FALSE
  /\ stage = "idle"
  /\ todo = << >>
  /\ held = {}
  /\ nextTicket = 0
  /\ consumed = [w \in Conn |-> << >>]
  /\ toCome = input
  /\ peer = peers

-----------------------------------------------------------------------------
(* Parts of the loop's steps.                                              *)

\* Faulty variant of Output: a place is reserved in front.
OutputPlaceInFront(phs, id, o) ==
  CASE o.op = "string" -> OutputString(phs, id, o.text)
    [] o.op \in {"place", "own"} -> << Hole(id) >> \o phs
    [] o.op = "fill" -> FulfillPlaceholder(phs, o.id, o.text)

\* One output of a filter, with ticket id.
Output(phs, id, o) ==
  CASE o.op = "string" -> OutputString(phs, id, o.text)
    [] o.op \in {"place", "own"} -> OutputPlaceholder(phs, id)
    [] o.op = "fill" -> FulfillPlaceholder(phs, o.id, o.text)

\* The outputs of a filter to connection `out', from the next ticket on; its
\* caller gets the Placeholders of the places.
FilterOutputs(out, outputs) ==
  LET n == Len(outputs)
      id(k) == nextTicket + k - 1
      Written[k \in 0..n] ==
        IF k = 0 THEN placeholders[out]
        ELSE LET write(phs) == Output(phs, id(k), outputs[k])
             IN  Once(Written[k - 1], write)
  IN  /\ placeholders' = [placeholders EXCEPT ![out] = Written[n]]
      /\ held' = held \union { << out, id(k) >> :
                                k \in { k \in 1..n : outputs[k].op = "place" } }
      /\ nextTicket' = nextTicket + n

\* filterHelper on direction w: `taken' moves from the front of `stream' to
\* uncommittedBytes, the filter f runs on what is there, and what it commits
\* leaves.  first: what its firstInstruction has output before.
FilterHelper(w, f, stream, taken, isDisconnected, first, goto) ==
  LET bytes == uncommittedBytes[w] \o SubSeq(stream, 1, taken)
      soFar == readSoFar[w] + taken
  IN  \E ran \in {RunWrapper(f, bytes, soFar, isDisconnected, nextTicket + Len(first))} :
        LET commit == ran.instruction.commitSize
        IN  /\ unfilteredBytes' = [unfilteredBytes EXCEPT ![w] = From(stream, taken + 1)]
            /\ uncommittedBytes' = [uncommittedBytes EXCEPT ![w] = From(bytes, commit + 1)]
            /\ consumed' = [consumed EXCEPT ![w] = @ \o SubSeq(bytes, 1, commit)]
            /\ readSoFar' = [readSoFar EXCEPT ![w] = soFar]
            /\ FilterOutputs(Other(w), first \o ran.outputs)
            /\ filter' = [filter EXCEPT ![w] = ran.filter]
            /\ instruction' = [instruction EXCEPT ![w] = ran.instruction]
            /\ IF ran.ended = "ok" THEN goto
                                   ELSE stage' = ran.ended /\ todo' = << >>

\* Faulty variant of NextEvent: the loop starts over after every socket event.
NextEventStartsOver ==
  /\ todo' = Tail(todo)
  /\ stage' = "compute"

\* The loop goes on with the next socket event, or starts over.
NextEvent ==
  /\ todo' = Tail(todo)
  /\ stage' = IF Tail(todo) = << >> THEN "compute" ELSE "work"

\* Faulty variant of ShutdownAndClose: sock is not set to INVALID_SOCKET.
ShutdownKeepsSock(w) ==
  /\ UNCHANGED sock
  /\ disconnected' = [disconnected EXCEPT ![w] = TRUE]
  /\ socketClosed' = [socketClosed EXCEPT ![w] = TRUE]

\* SockBuf::shutdownAndClose from the loop.
ShutdownAndClose(w) ==
  /\ sock' = [sock EXCEPT ![w] = "invalid"]
  /\ disconnected' = [disconnected EXCEPT ![w] = TRUE]
  /\ socketClosed' = [socketClosed EXCEPT ![w] = TRUE]

-----------------------------------------------------------------------------
(* Entry of the loop: each filter gives its first instruction; one on a    *)
(* socket that is not there is told of the disconnection at once.          *)

StartCall(filters) ==
  /\ stage = "idle"
  /\ filter' = filters
  /\ readSoFar' = [w \in Conn |-> 0]
  /\ readAZero' = [w \in Conn |-> FALSE]
  /\ needToRead' = [w \in Conn |-> UNKNOWN]
  /\ timedOut' = FALSE
  /\ stage' = "setup"
  /\ todo' = Directions
  /\ UNCHANGED << sockbufVars, instruction, socketClosed, held, nextTicket,
                  consumed, peerVars >>

NextSetup ==
  /\ todo' = Tail(todo)
  /\ stage' = IF Tail(todo) = << >> THEN "compute" ELSE "setup"

Setup ==
  LET w == Head(todo)
      f == Begun(filter[w], nextTicket)
      inst == FirstInstruction(filter[w])
      first == FirstOutputs(filter[w])
      missing == sock[w] = "invalid"
  IN  /\ stage = "setup"
      /\ socketClosed' = [socketClosed EXCEPT ![w] = missing]
      /\ IF missing /\ inst.type # "QuitFilter"
           THEN FilterHelper(w, f, unfilteredBytes[w], 0, TRUE, first, NextSetup)
           ELSE /\ instruction' = [instruction EXCEPT ![w] = inst]
                /\ filter' = [filter EXCEPT ![w] = f]
                /\ FilterOutputs(Other(w), first)
                /\ NextSetup
                /\ UNCHANGED << readSoFar, unfilteredBytes, uncommittedBytes,
                                consumed >>
      /\ UNCHANGED << sock, disconnected, bytesReadSoFar, bytesWrittenSoFar,
                      readAZero, needToRead, timedOut, peerVars >>

-----------------------------------------------------------------------------
(* LTryAgain: bytes that are already buffered go to the filters first.     *)

Reading(w) == /\ sock[w] = "open"
              /\ ~readAZero[w]
              /\ instruction[w].type # "QuitFilter"

\* Faulty variant of Satisfied: the filter runs before its delimiter is there.
SatisfiedByAnyBytes(w) == Len(unfilteredBytes[w])

\* How many of the unfiltered bytes the instruction of w moves to the filter.
Satisfied(w) ==
  LET inst == instruction[w]
      buflen == Len(uncommittedBytes[w])
      rawlen == Len(unfilteredBytes[w])
  IN  CASE inst.type = "ThruDelimiter" -> ThroughDelimiter(unfilteredBytes[w])
        [] inst.type = "BytesExact" ->
             IF buflen + rawlen >= inst.count THEN inst.count - buflen ELSE 0
        [] inst.type = "BytesMax" ->
             IF inst.count <= buflen THEN 0 ELSE Least(inst.count - buflen, rawlen)
        [] inst.type = "BytesUnknown" -> rawlen

CanFilter(w) == Reading(w) /\ Satisfied(w) > 0

\* The first direction that can run does; then everything is tried again.
FilterBuffered(w) ==
  /\ stage = "compute"
  /\ CanFilter(w)
  /\ w = "server" => ~CanFilter("client")
  /\ FilterHelper(w, filter[w], unfilteredBytes[w], Satisfied(w), FALSE, << >>,
                  UNCHANGED << stage, todo >>)
  /\ UNCHANGED << sock, disconnected, bytesReadSoFar, bytesWrittenSoFar,
                  socketClosed, readAZero, needToRead, timedOut, peerVars >>

\* What is still to be read when the buffered bytes do not satisfy.
NeedToRead(w) ==
  LET inst == instruction[w]
      buffered == Len(uncommittedBytes[w]) + Len(unfilteredBytes[w])
  IN  IF ~Reading(w) THEN 0
      ELSE IF inst.type \in {"BytesExact", "BytesMax"}
             THEN IF inst.count <= buffered THEN 0 ELSE inst.count - buffered
             ELSE UNKNOWN

NeedToWrite(w) == sock[w] = "open" /\ HasKnownWritesPending(placeholders[w])

\* Nothing to read and nothing to write: the call is over.
Done == \A w \in Conn : NeedToRead(w) = 0 /\ ~NeedToWrite(w)

\* The checks behind the loop, in the order of the directions: what direction
\* w has against a normal return.
EndCheck(w) ==
  IF instruction[w].type # "QuitFilter" THEN "asserted"
  ELSE IF ~DefinitelyHasFutureWrites(placeholders[w]) THEN "idle"
  ELSE IF disconnected[w] THEN "thrown"
  ELSE IF HasKnownWritesPending(placeholders[w]) THEN "asserted"
  ELSE "idle"

AtEnd == IF EndCheck("client") # "idle" THEN EndCheck("client")
                                        ELSE EndCheck("server")

\* doBidirectionalFilteredProxyEx: a socket closed under a filter that has
\* not quit is an exception.
Leave == IF \E w \in Conn : /\ socketClosed[w]
                            /\ instruction[w].type # "QuitFilter"
           THEN "thrown" ELSE "idle"

Decide ==
  /\ stage = "compute"
  /\ \A w \in Conn : ~CanFilter(w)
  /\ needToRead' = [w \in Conn |-> NeedToRead(w)]
  /\ stage' = IF ~Done THEN "poll"
              ELSE IF AtEnd = "idle" THEN Leave ELSE AtEnd
  /\ UNCHANGED << sockbufVars, filter, instruction, readSoFar, socketClosed,
                  readAZero, timedOut, todo, held, nextTicket, consumed, peerVars >>

-----------------------------------------------------------------------------
(* The poll.                                                               *)

\* Something to read: data, an end of file, or an error.
Readable(w) == toCome[w] # << >> \/ peer[w] \in {"closed", "reset"}

Events == {"send", "recv"} \X Conn
Requested ==
  { e \in Events :
      IF e[1] = "send" THEN NeedToWrite(e[2]) ELSE needToRead[e[2]] # 0 }
\* What poll can find ready.  A socket that was never connected is ready for
\* nothing.
Possible == { e \in Requested : IF e[1] = "recv" THEN Readable(e[2])
                                                ELSE peer[e[2]] # "unconnected" }

\* The order in which one pass handles socket events.
IfReady(ready, op, w) == IF << op, w >> \in ready THEN << << op, w >> >> ELSE << >>
InOrder(ready) ==
  IfReady(ready, "send", "client") \o IfReady(ready, "send", "server")
    \o IfReady(ready, "recv", "client") \o IfReady(ready, "recv", "server")

LoopUnchanged ==
  UNCHANGED << sockbufVars, filter, instruction, readSoFar, socketClosed,
               readAZero, needToRead, held, nextTicket, consumed, peerVars >>

PollReady ==
  /\ stage = "poll"
  /\ \E ready \in (SUBSET Possible) \ {{}} : todo' = InOrder(ready)
  /\ stage' = "work"
  /\ UNCHANGED timedOut
  /\ LoopUnchanged

\* Faulty variant of PollTimeout: timedOut is not set.
PollTimeoutUnnoticed ==
  /\ stage = "poll"
  /\ Possible = {} \/ "timeout" \in Faults
  /\ stage' = Leave
  /\ UNCHANGED << timedOut, todo >>
  /\ LoopUnchanged

\* Nothing becomes ready in time: silent peers, or slow ones.
PollTimeout ==
  /\ stage = "poll"
  /\ Possible = {} \/ "timeout" \in Faults
  /\ timedOut' = TRUE
  /\ stage' = Leave
  /\ UNCHANGED todo
  /\ LoopUnchanged

\* EINTR or EAGAIN: the loop starts over.  Any other error is thrown.
PollFails ==
  /\ stage = "poll"
  /\ \/ "interrupt" \in Faults /\ stage' = "compute"
     \/ "pollError" \in Faults /\ stage' = "thrown"
  /\ UNCHANGED << timedOut, todo >>
  /\ LoopUnchanged

-----------------------------------------------------------------------------
(* The sends: each known placeholder at the front, until a hole.           *)

AtEvent(op, w) == stage = "work" /\ Head(todo) = << op, w >>

SendUnchanged(w) ==
  UNCHANGED << unfilteredBytes, uncommittedBytes, bytesReadSoFar, filter,
               instruction, readSoFar, readAZero, needToRead, timedOut, held,
               nextTicket, consumed, peerVars >>

SendFront(w) ==
  /\ AtEvent("send", w)
  /\ HasKnownWritesPending(placeholders[w])
  /\ peer[w] # "reset"
  /\ bytesWrittenSoFar' = [bytesWrittenSoFar EXCEPT
                             ![w] = @ \o Head(placeholders[w]).contents]
  /\ placeholders' = [placeholders EXCEPT ![w] = Tail(@)]
  /\ IF HasKnownWritesPending(Tail(placeholders[w]))
       THEN UNCHANGED << stage, todo >>
       ELSE NextEvent
  /\ UNCHANGED << sock, disconnected, socketClosed >>
  /\ SendUnchanged(w)

\* WSAECONNABORTED or WSAECONNRESET: the socket is closed, and its filter is
\* not told.
SendReset(w) ==
  /\ AtEvent("send", w)
  /\ HasKnownWritesPending(placeholders[w])
  /\ peer[w] = "reset"
  /\ ShutdownAndClose(w)
  /\ NextEvent
  /\ UNCHANGED << bytesWrittenSoFar, placeholders >>
  /\ SendUnchanged(w)

\* socksendto gives up when the peer takes nothing more for the timeout and
\* returns a short count.  The whole of the placeholder is recorded as written,
\* and Assert(res == len) stops the program with the placeholder in the deque.
SendShort(w) ==
  /\ AtEvent("send", w)
  /\ HasKnownWritesPending(placeholders[w])
  /\ "partialSend" \in Faults
  /\ bytesWrittenSoFar' = [bytesWrittenSoFar EXCEPT
                             ![w] = @ \o Head(placeholders[w]).contents]
  /\ stage' = "shortSend"
  /\ UNCHANGED << todo, sock, disconnected, socketClosed, placeholders >>
  /\ SendUnchanged(w)

\* Whether a socket blocks was decided by a variable that nothing has assigned.
\* On one that does, sendto itself waits for the peer, without a timeout: for
\* ever, when the peer neither reads nor resets.
SendBlocks(w) ==
  /\ AtEvent("send", w)
  /\ HasKnownWritesPending(placeholders[w])
  /\ peer[w] # "reset"
  /\ "blockingSend" \in Faults
  /\ stage' = "blocked"
  /\ todo' = << >>
  /\ UNCHANGED << sock, disconnected, socketClosed, placeholders, bytesWrittenSoFar >>
  /\ SendUnchanged(w)

\* Any other error is thrown.
SendFails(w) ==
  /\ AtEvent("send", w)
  /\ HasKnownWritesPending(placeholders[w])
  /\ "sendError" \in Faults
  /\ stage' = "thrown"
  /\ todo' = << >>
  /\ UNCHANGED << sock, disconnected, socketClosed, placeholders, bytesWrittenSoFar >>
  /\ SendUnchanged(w)

-----------------------------------------------------------------------------
(* The receives: one recv for each readable socket.                        *)

RecvUnchanged ==
  UNCHANGED << bytesWrittenSoFar, needToRead, timedOut, peer >>

\* Faulty variant of WithUnfiltered: the bytes of the last recv replace the others.
OnlyReceived(w, buffer) == buffer

\* unfilteredBytes with the bytes of a recv appended.
WithUnfiltered(w, buffer) == unfilteredBytes[w] \o buffer

\* Faulty variant of Received: a satisfied filter gets all there is.
ReceivedTooMuch(w, stream, n) ==
  IF instruction[w].type = "ThruDelimiter" /\ ThroughDelimiter(stream) = 0
    THEN 0 ELSE Len(stream)

\* How many of the bytes of stream go to the filter when the last n of them
\* have just been received.
Received(w, stream, n) ==
  LET inst == instruction[w]
  IN  CASE inst.type = "BytesUnknown" -> Len(stream)
        [] inst.type = "BytesMax" -> Least(n, needToRead[w])
        [] inst.type = "ThruDelimiter" -> ThroughDelimiter(stream)
        [] inst.type = "BytesExact" ->
             IF n >= needToRead[w] THEN Len(stream) - n + needToRead[w] ELSE 0

RecvData(w) ==
  /\ AtEvent("recv", w)
  /\ sock[w] = "open"
  /\ peer[w] # "reset"
  /\ \E n \in 1..Least(MaxRecv, Len(toCome[w])) :
       LET buffer == SubSeq(toCome[w], 1, n)
           stream == WithUnfiltered(w, buffer)
       IN  /\ toCome' = [toCome EXCEPT ![w] = From(@, n + 1)]
           /\ bytesReadSoFar' = [bytesReadSoFar EXCEPT ![w] = @ \o buffer]
           /\ IF Received(w, stream, n) > 0
                THEN FilterHelper(w, filter[w], stream, Received(w, stream, n),
                                  FALSE, << >>, NextEvent)
                ELSE /\ unfilteredBytes' = [unfilteredBytes EXCEPT ![w] = stream]
                     /\ NextEvent
                     /\ UNCHANGED << uncommittedBytes, placeholders, filter,
                                     instruction, readSoFar, held, nextTicket,
                                     consumed >>
  /\ UNCHANGED << sock, disconnected, socketClosed, readAZero >>
  /\ RecvUnchanged

\* sockrecvfrom returns 0: the peer has closed, the socket was closed by this
\* pass's send and poll fails on it, or that poll is interrupted.
RecvZero(w) ==
  /\ AtEvent("recv", w)
  /\ \/ sock[w] = "invalid"
     \/ sock[w] = "open" /\ peer[w] = "closed" /\ toCome[w] = << >>
     \/ sock[w] = "open" /\ "interrupt" \in Faults
  /\ readAZero' = [readAZero EXCEPT ![w] = TRUE]
  /\ FilterHelper(w, filter[w], unfilteredBytes[w], 0, TRUE, << >>, NextEvent)
  /\ UNCHANGED << sock, disconnected, bytesReadSoFar, socketClosed, toCome >>
  /\ RecvUnchanged

RecvReset(w) ==
  /\ AtEvent("recv", w)
  /\ sock[w] = "open"
  /\ peer[w] = "reset"
  /\ ShutdownAndClose(w)
  /\ FilterHelper(w, filter[w], unfilteredBytes[w], 0, TRUE, << >>, NextEvent)
  /\ UNCHANGED << bytesReadSoFar, readAZero, toCome >>
  /\ RecvUnchanged

RecvFails(w) ==
  /\ AtEvent("recv", w)
  /\ "recvError" \in Faults
  /\ stage' = "thrown"
  /\ todo' = << >>
  /\ UNCHANGED << sockbufVars, filter, instruction, readSoFar, socketClosed,
                  readAZero, held, nextTicket, consumed, toCome >>
  /\ RecvUnchanged

-----------------------------------------------------------------------------
(* The peers.                                                              *)

\* A peer resets the connection; what it had sent and was not read is gone.  (A
\* reset would end the wait of a sendto: "blocked" is the one that is not ended.)
PeerReset(w) ==
  /\ "reset" \in Faults
  /\ stage # "blocked"
  /\ sock[w] = "open"
  /\ peer[w] # "reset"
  /\ peer' = [peer EXCEPT ![w] = "reset"]
  /\ toCome' = [toCome EXCEPT ![w] = << >>]
  /\ UNCHANGED << sockbufVars, loopVars, held, nextTicket, consumed >>

-----------------------------------------------------------------------------
(* What a caller does with a Parasock between two calls.                   *)

\* SockBuf::fulfillPlaceholder of a placeholder that a filter has reserved.
FulfillHeld(h, contents) ==
  /\ placeholders' = [placeholders EXCEPT
                        ![h[1]] = FulfillPlaceholder(@, h[2], contents)]
  /\ held' = held \ {h}
  /\ UNCHANGED << sock, disconnected, unfilteredBytes, uncommittedBytes,
                  bytesReadSoFar, bytesWrittenSoFar, loopVars, nextTicket,
                  consumed, peerVars >>

\* The steps of the worker's thread inside the loop.
Loop ==
  \/ Setup
  \/ \E w \in Conn : FilterBuffered(w)
  \/ Decide
  \/ PollReady
  \/ PollTimeout
  \/ PollFails
  \/ \E w \in Conn : SendFront(w) \/ SendReset(w)
  \/ \E w \in Conn : SendShort(w) \/ SendBlocks(w) \/ SendFails(w)
  \/ \E w \in Conn : RecvData(w) \/ RecvZero(w) \/ RecvReset(w) \/ RecvFails(w)

-----------------------------------------------------------------------------
(* What the loop is to keep, whoever calls it.                             *)

\* What the filter of w has committed in this call.
Taken(w) == From(consumed[w], Len(consumed[w]) - readSoFar[w] + 1)

\* Every byte that was received is, in order, with a filter that committed it,
\* with a filter that has seen it and not committed it, or still unfiltered:
\* none is lost, doubled or moved between the recv buffers and the filters,
\* across instructions, calls, timeouts and resets.
NoByteLost ==
  \A w \in Conn :
    bytesReadSoFar[w] = consumed[w] \o uncommittedBytes[w] \o unfilteredBytes[w]

\* Assert stops the program at no place of the loop, of a filter, of
\* fulfillPlaceholder or of cleanCheckpoint.
NoAssertFailure == stage \notin {"asserted", "shortSend"}

=============================================================================
