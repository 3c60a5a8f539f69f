------------------------------ MODULE MCParasock ------------------------------
(***************************************************************************)
(* ParasockCaller and ChunkedTransfer for TLC: the peers, filters, bodies  *)
(* and contents of each run.                                               *)
(***************************************************************************)
EXTENDS ChunkedTransfer, ParasockStream

Both(c, s) == [client |-> c, server |-> s]

ShortContents == {<< >>, << "h" >>}

\* Each peer in both kinds; in these runs a call reads from one connection only.
OneCloses == {Both("open", "closed"), Both("closed", "open")}

\* Requests and responses: lines (one with an '@' in front of the name), a header,
\* a body of known length.
HttpInputs ==
  { Both(<< "x", "r", "n", "r", "n", "y" >>, << "y", "x" >>),
    Both(<< "r", "n", "x", "r", "n" >>, << "y", "r", "n" >>),
    Both(<< "at", "r", "n" >>, << >>) }
HttpPairs ==
  { Both(RequestLineFilter, DeadFilter),
    Both(HeaderFilter, DeadFilter),
    Both(DeadFilter, ResponseLineFilter),
    Both(DeadFilter, PassthruFilter(1, << >>)),
    Both(DeadFilter, DeadFilter) }

\* The tunnel of a CONNECT request: everything goes through.
TunnelInputs == {Both(<< "x" >>, << "u" >>)}
TunnelPairs == {Both(PassthruFilter(UNKNOWN, << >>), PassthruFilter(UNKNOWN, << "e" >>))}
AllClosed == {Both("closed", "closed")}

\* No chunk, one and two; a word to replace, a CRLF and a digit in the data; a
\* size of more than nine.
SomeBodies ==
  { << >>, << << "the", "the", "x" >> >>, << << "r", "n", "0" >> >>,
    << << "x" >>, << "the" >> >>,
    << << "the", "x", "x", "x", "x", "x", "x", "x", "x", "x" >>, << "y" >> >> }

\* No number, an empty line, too little and too much data, no last chunk.
BadFraming ==
  { << "bad", "r", "n" >>, << "r", "n", "r", "n" >>,
    << "2", "r", "n", "x", "r", "n" >>, << "1", "r", "n", "x", "y", "r", "n" >>,
    << "1", "r", "n", "x", "r", "n" >> }

FromServer(s) == [client |-> << >>, server |-> s]
ChunkedInputs == { FromServer(s) : s \in { Encoded(b) : b \in SomeBodies } \union BadFraming }

\* What the memory of subReadSoFar may hold, or a length besides the chunks.
SomeMemory == {0, 3, SizeValues - 1}
SomeLengths == {0, 2}
Chunked(length, garbage) ==
  [client |-> DeadFilter, server |-> ChunkedFilter(length, garbage)]
ChunkedPairs == { Chunked(UNKNOWN, g) : g \in SomeMemory }
                \union { Chunked(l, 0) : l \in SomeLengths }

TwoChunks == { << << "x" >>, << "the" >> >> }
TwoChunkInputs == { FromServer(Encoded(b)) : b \in TwoChunks }

\* The symbols in the input of all cases.
Symbols(s) == { s[k] : k \in DOMAIN s }
AllSymbols ==
  UNION { Symbols(input[w]) : input \in UNION { Inputs[c] : c \in Cases }, w \in Conn }

NoContents == {}
NoBodies == {}

\* The cases: requests and responses in two calls, a chunked body in one; the
\* tunnel; a body of two chunks.
Mixed == {"http", "chunked"}
Tunnel == {"tunnel"}
Two == {"two chunks"}
InputsOf == ("http" :> HttpInputs) @@ ("chunked" :> ChunkedInputs)
            @@ ("tunnel" :> TunnelInputs) @@ ("two chunks" :> TwoChunkInputs)
PairsOf == ("http" :> HttpPairs) @@ ("chunked" :> ChunkedPairs)
           @@ ("tunnel" :> TunnelPairs) @@ ("two chunks" :> {Chunked(UNKNOWN, 0)})
MixedCalls == [c \in Mixed |-> IF c = "http" THEN 2 ELSE 1]
TunnelCalls == [c \in Tunnel |-> 1]
TwoCalls == [c \in Two |-> 1]

=============================================================================
