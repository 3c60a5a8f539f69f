---------------------------- MODULE ParasockCaller ----------------------------
(***************************************************************************)
(* A Parasock with the most general legal caller: it calls the event loop  *)
(* with filters of its choice, one call after the other, and between calls *)
(* fulfils the placeholders that filters have reserved, in any order.      *)
(*                                                                         *)
(* Cases: the cases to tell apart; for each of them, Inputs: what the      *)
(* peers may send; FilterPairs: the filters of a call; MaxCalls: the bound *)
(* on the number of calls.  Peers: whether the peers close after what they *)
(* send.  Contents: what a placeholder may be fulfilled with.              *)
(***************************************************************************)
EXTENDS Parasock

CONSTANTS Cases, Inputs, FilterPairs, MaxCalls, Peers, Contents

ASSUME CallerAssumption ==
  \A c \in Cases :
    /\ MaxCalls[c] \in Nat
    /\ \A input \in Inputs[c] : input \in [Conn -> Seq(Alphabet)]
    /\ \A filters \in FilterPairs[c] :
         DOMAIN filters = Conn /\ \A w \in Conn : IsFilter(filters[w])

\* What the callers write themselves are strings.
IsString(s) == s \in Seq({ s[k] : k \in DOMAIN s })
ASSUME StringsAssumption ==
  /\ \A contents \in Contents : IsString(contents)
  /\ \A c \in Cases : \A filters \in FilterPairs[c] : \A w \in Conn :
       filters[w].class = "Passthru" => IsString(filters[w].sendFirst)

VARIABLES case,   \* the case, which no step changes
          calls   \* how many calls of the loop there have been

callVars == << case, calls >>
callerVars == << vars, callVars >>

Init ==
  /\ case \in Cases
  /\ \E input \in Inputs[case], peers \in Peers : InitWith(input, peers, Conn)
  /\ calls = 0

\* doBidirectionalFilteredProxy, or doUnidirectionalProxy with two DeadFilters.
Call ==
  /\ calls < MaxCalls[case]
  /\ calls' = calls + 1
  /\ UNCHANGED case
  /\ \E filters \in FilterPairs[case] : StartCall(filters)

Fulfill ==
  /\ stage = "idle"
  /\ \E h \in held, contents \in Contents : FulfillHeld(h, contents)
  /\ UNCHANGED callVars

LoopStep == Loop /\ UNCHANGED callVars

Next ==
  \/ Call
  \/ Fulfill
  \/ LoopStep
  \/ \E w \in Conn : PeerReset(w) /\ UNCHANGED callVars

Spec == Init /\ [][Next]_callerVars

\* The worker's thread runs on, and every poll returns (it has a timeout), in
\* the end otherwise than by an interrupt.
FairSpec ==
  /\ Spec
  /\ WF_callerVars(LoopStep)
  /\ SF_callerVars((PollReady \/ PollTimeout) /\ UNCHANGED callVars)

-----------------------------------------------------------------------------

ConnMap(S) == [Conn -> S]

\* The values the variables range over.
TypeOK ==
  /\ sock \in ConnMap({"open", "invalid"})
  /\ disconnected \in ConnMap(BOOLEAN)
  /\ socketClosed \in ConnMap(BOOLEAN)
  /\ readAZero \in ConnMap(BOOLEAN)
  /\ readSoFar \in ConnMap(Nat)
  /\ needToRead \in ConnMap(Nat \union {UNKNOWN})
  /\ stage \in Stages
  /\ todo # << >> <=> stage \in {"setup", "work", "shortSend"}
  /\ held \subseteq Conn \X (0..nextTicket)
  /\ case \in Cases
  /\ calls \in 0..MaxCalls[case]

HasQuit(w) == /\ instruction[w].type = "QuitFilter"
              /\ stage = "idle"
              /\ ~readAZero[w] /\ sock[w] = "open"

\* A filter of one line takes exactly the blank lines in front of its line and
\* the line, however the bytes were cut up by recv: what was received behind
\* the line is left to the next filter.
OneLineIsOneLine ==
  \A w \in Conn :
    HasQuit(w) /\ filter[w].class \in {"RequestLine", "ResponseLine"} =>
      \E k \in 0..Len(Taken(w)) :
        LET line == From(Taken(w), 2 * k + 1)
        IN  /\ \A i \in 1..k : SubSeq(Taken(w), 2 * i - 1, 2 * i) = CRLF
            /\ DelimiterAt(line) = {Len(line) - 1}
            /\ Len(line) > 2

\* A header filter takes the bytes through the first blank line and no more.
HeaderEndsAtBlankLine ==
  \A w \in Conn :
    HasQuit(w) /\ filter[w].class = "Header" =>
      LET blank(s) == { p \in DelimiterAt(s) :
                          p = 1 \/ p - 2 \in DelimiterAt(s) }
      IN  blank(Taken(w)) = {Len(Taken(w)) - 1}

\* A PassthruFilter of known size lets no byte past its size through, and
\* quits only at its size.
PassthruTakesItsSize ==
  \A w \in Conn :
    filter[w].class = "Passthru" /\ IsKnown(filter[w].totalSize) =>
      /\ stage \notin {"idle", "setup"} => readSoFar[w] <= filter[w].totalSize
      /\ HasQuit(w) /\ ~timedOut => readSoFar[w] = filter[w].totalSize

\* However recv cuts what the peers send, and whatever comes behind it, a filter
\* takes its own part of the input, and leaves the rest to the filter of the next
\* call (DelimiterInstruction and BytesMaxInstruction, as the loop follows them).
FiltersTakeTheirParts ==
  OneLineIsOneLine /\ HeaderEndsAtBlankLine /\ PassthruTakesItsSize

\* A call that returns and has not timed out has done its work: both filters
\* have quit, and everything that could be written has been.
ReturnsWhenDone ==
  [][ stage # "idle" /\ stage' = "idle" /\ ~timedOut' =>
        \A w \in Conn :
          /\ instruction'[w].type = "QuitFilter"
          /\ sock'[w] = "open" => ~HasKnownWritesPending(placeholders'[w])
    ]_callerVars

\* Every call of the loop ends, by a return, by an exception or with the program,
\* but for two places in which the code has no end: the loop over delimiters for
\* a request line with an '@' in front of the name, and a sendto on a socket that
\* blocks.
CallsEnd ==
  (stage \notin {"idle", "thrown"})
    ~> \/ stage \in {"idle", "thrown"}
       \/ stage \in {"asserted", "shortSend"}
       \/ stage = "looping" /\ \E w \in Conn : filter[w].class = "RequestLine"
       \/ stage = "blocked" /\ "blockingSend" \in Faults

=============================================================================
