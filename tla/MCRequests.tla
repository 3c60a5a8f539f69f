------------------------------ MODULE MCRequests ------------------------------
(***************************************************************************)
(* HandleRequest for TLC in two modes, of which each behaviour is in one:  *)
(* many exchanges over sockets that do not fail, or a few with every fault *)
(* of Faults and with -e.  The variable faulty is the mode.                *)
(***************************************************************************)
EXTENDS MCHandleRequest

VARIABLE faulty

mcVars == << allVars, faulty >>

\* (Where every poll may time out, a peer that stays open does nothing that one
\* that closes late does not.)
MCInit ==
  /\ Init
  /\ faulty \in BOOLEAN
  /\ IF faulty THEN toCome \in ShortExchanges /\ peer["client"] = "closed"
               ELSE toCome \in SomeExchanges

\* A timeout while something could be done; an interrupted sockrecvfrom; the text
\* of failureShutdown given up midway.
SlowPoll == PollTimeout /\ Possible # {}
InterruptedRecv(w) ==
  /\ RecvZero(w)
  /\ sock[w] = "open"
  /\ ~(peer[w] = "closed" /\ toCome[w] = << >>)
ShortCatch ==
  /\ Catch
  /\ sock["client"] = "open"
  /\ errorSent' = << >>

\* The steps that only a fault, or -e, makes possible.
FaultStep ==
  \/ SlowPoll \/ PollFails
  \/ \E w \in Conn : SendShort(w) \/ SendBlocks(w) \/ SendFails(w)
  \/ \E w \in Conn : InterruptedRecv(w) \/ RecvFails(w) \/ PeerReset(w)
  \/ ShortCatch \/ CatchBlocks
  \/ LeaveUnconnected

InMode == (faulty \/ ~FaultStep) /\ UNCHANGED faulty

MCNext == Next /\ InMode

MCSpec ==
  /\ MCInit
  /\ [][MCNext]_mcVars
  /\ WF_mcVars(Worker /\ InMode)
  /\ SF_mcVars((PollReady \/ PollTimeout) /\ LoopStep /\ InMode)

-----------------------------------------------------------------------------

\* Sockets that do not fail: a request that ends without an exception was handled
\* completely.
HandledRequestIsComplete == ~faulty => HandledIsComplete

\* Sockets that do not fail: Assert stops the program at no place of the loop, of a
\* filter, of fulfillPlaceholder or of cleanCheckpoint, whatever is malformed or cut
\* off by a close.
NoAssertWithoutFaults == ~faulty => NoAssertFailure

\* A request and a response that keep to the protocol are served: both sides get
\* everything they are to get, and the worker goes away.  Only a server that
\* cannot be reached prevents it, and then the client is told so.
GoodRequestIsServed ==
  ~faulty /\ [w \in Conn |-> bytesReadSoFar[w] \o toCome[w]] \in GoodExchanges
    ~> /\ phase = "deleted"
       /\ \/ Complete /\ errorSent = << >>
          \/ /\ errorSent = ErrorText
             /\ \A w \in Conn : bytesWrittenSoFar[w] = << >>

=============================================================================
