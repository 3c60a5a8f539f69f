--------------------------- MODULE MCHandleRequest ---------------------------
(***************************************************************************)
(* HandleRequest for TLC: the requests, responses and peers of the runs.   *)
(***************************************************************************)
EXTENDS HandleRequest

ServerCloses == { p \in [Conn -> {"open", "closed"}] : p["server"] = "closed" }
BothClosed == {[w \in Conn |-> "closed"]}

Exchange(q, r) == [client |-> q, server |-> r]

Get     == << "GET", "r", "n", "host", "r", "n", "r", "n", "x" >>
HeadReq == << "HEAD", "r", "n", "r", "n" >>
Connect == << "CONNECT", "r", "n", "r", "n", "x", "y" >>

Known     == << "200", "r", "n", "len2", "r", "n", "r", "n", "the", "z", "z" >>
Unknown   == << "200", "r", "n", "r", "n", "the", "z" >>
Empty     == << "200", "r", "n", "len0", "r", "n", "r", "n" >>
OneChunk  == << "200", "r", "n", "chunked", "r", "n", "r", "n",
                "2", "r", "n", "the", "z", "r", "n", "0", "r", "n", "r", "n" >>
NoContent == << "204", "r", "n", "r", "n", "z" >>

\* Behind blank lines, which are passed over.
Late(s) == CRLF \o CRLF \o s

GoodExchanges ==
  { Exchange(Get, Known), Exchange(Get, Unknown), Exchange(HeadReq, Known),
    Exchange(Get, OneChunk), Exchange(HeadReq, Empty), Exchange(HeadReq, NoContent),
    Exchange(Connect, << "u", "v" >>), Exchange(Late(Connect), << "u" >>),
    Exchange(CRLF \o HeadReq, Late(Known)) }
\* Malformed or cut off at either end, or with an '@' in front of the name.
BadExchanges ==
  { Exchange(<< "bad", "r", "n" >>, << >>), Exchange(<< "GET", "r" >>, << >>),
    Exchange(<< "at", "r", "n", "r", "n" >>, << >>),
    Exchange(HeadReq, << "200", "r", "n", "bad", "r", "n" >>),
    Exchange(<< "GET", "r", "n", "r", "n" >>, SubSeq(Known, 1, 9)),
    Exchange(<< "GET", "r", "n", "r", "n" >>, SubSeq(OneChunk, 1, 14)) }
SomeExchanges == GoodExchanges \union BadExchanges

\* With faults: one of each kind, and one cut off behind a blank line.
ShortExchanges ==
  { Exchange(<< "GET", "r", "n", "r", "n" >>, Unknown),
    Exchange(<< "GET", "r", "n", "r", "n" >>, CRLF \o << "200", "r", "n" >>),
    Exchange(<< "POST", "r", "n", "chunked", "r", "n", "r", "n" >>, SubSeq(OneChunk, 1, 17)),
    Exchange(CRLF \o << "CONNECT", "r", "n", "r", "n", "x" >>, << "u" >>) }
OneExchange == { Exchange(<< "GET", "r", "n", "r", "n" >>, Unknown) }
\* A request with a body.
PostExchange ==
  { Exchange(<< "POST", "r", "n", "len2", "r", "n", "r", "n", "x", "y" >>, Known) }
AllExchanges == SomeExchanges \union ShortExchanges

\* The symbols in all exchanges.
Symbols(s) == { s[k] : k \in DOMAIN s }
AllSymbols == UNION { Symbols(e[w]) : e \in Exchanges, w \in Conn }

\* What may be in a new filter's subReadSoFar.
SomeMemory == {0, SizeValues - 1}

=============================================================================
