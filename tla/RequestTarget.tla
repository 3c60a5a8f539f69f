---------------------------- MODULE RequestTarget ----------------------------
(***************************************************************************)
(* How the first line of a client's request names the server: the cuts of  *)
(* RequestLineFilter::processTheLine, decodeurl, parsehostname and         *)
(* parseusername.  A text is a sequence of tokens; the tokens the code     *)
(* looks for (the delimiters, "http:", "CONNECT") are tokens of their      *)
(* own and what is between them is one token.  Positions count from 1,     *)
(* so that std::string::npos is 0 and npos + 1 is the first position.      *)
(***************************************************************************)
EXTENDS Naturals, SequencesExt, TLC

Nowhere == 0                                     \* std::string::npos
SP == " "                                        \* the space between the parts of a line

(* The positions from a to b at which c stands. *)
Places(s, c, a, b) == {i \in a .. b : s[i] = c}

(* find(c, from) and find_last_of(c, upto).  (The bound variables make TLC *)
(* evaluate the arguments once.)                                           *)
Find(s, c, from) ==
    CHOOSE place \in UNION {
        {IF hits = {} THEN Nowhere ELSE Min(hits) : hits \in {Places(t, c, a, Len(t))}} :
            t \in {s}, a \in {from}} : TRUE

FindLastOf(s, c, upto) ==
    CHOOSE place \in UNION {
        {IF hits = {} THEN Nowhere ELSE Max(hits) :
            hits \in {Places(t, c, 1, Min({b, Len(t)}))}} :
        t \in {s}, b \in {upto}} : TRUE

(* substr(from), and substr(0, end) where end may be npos. *)
From(s, from) == SubSeq(s, from, Len(s))
Before(s, end) == IF end = Nowhere THEN s ELSE SubSeq(s, 1, end - 1)

(* substr(from, count) with an end position, itself counted from 0, given  *)
(* as the count: what parseusername passes.                                *)
FromFor(s, from, count) ==
    IF count = Nowhere THEN From(s, from)
    ELSE SubSeq(s, from, Min({Len(s), from + count - 2}))

(* atoi, for the tokens that are numbers; unsigned short keeps 16 bits. *)
Number == [c \in {"80", "81", "3128", "65616"} |->
    CASE c = "80" -> 80 [] c = "81" -> 81 [] c = "3128" -> 3128 [] c = "65616" -> 65616]
Atoi(s) == IF s # <<>> /\ Head(s) \in DOMAIN Number THEN Number[Head(s)] ELSE 0
Port(n) == n % 65536

(* decodeurl(input, 0): escapes are replaced, an escaped line end is       *)
(* dropped, an escaped quote gets a backslash, and a '?' ends the text.    *)
Escaped == "%40" :> <<"@">> @@ "%3a" :> <<":">> @@ "%0d" :> <<>>
           @@ "%22" :> <<"\\", "quote">> @@ "+" :> <<SP>>
DecodeUrl(input) ==
    LET shown == Before(input, Find(input, "?", 1))
    IN  FlattenSeq([i \in 1 .. Len(shown) |->
            IF shown[i] \in DOMAIN Escaped THEN Escaped[shown[i]] ELSE <<shown[i]>>])

(***************************************************************************)
(* The cuts of a request line.  sb is where the server's name starts, se   *)
(* where it ends, ss where the target starts.                              *)
(***************************************************************************)
IsConnect(request) == request[1] = "CONNECT"
TargetStart(request) == Find(request, SP, 1) + 1
Target(request) == From(request, TargetStart(request))
IsAbsolute(request) ==
    ~IsConnect(request) /\ IsPrefix(<<"http:", "/", "/">>, Target(request))
IsTransparent(request) == ~IsConnect(request) /\ IsPrefix(<<"/">>, Target(request))

NameStart(request) ==
    TargetStart(request) + (IF IsAbsolute(request) THEN 3 ELSE 0)
SpaceAfterName(request) == Find(request, SP, NameStart(request))
SlashAfterName(request) == Find(request, "/", NameStart(request))
NameEnd(request) ==
    IF IsConnect(request) \/ SlashAfterName(request) > SpaceAfterName(request)
    THEN SpaceAfterName(request)
    ELSE SlashAfterName(request)
ServerName(request) == SubSeq(request, NameStart(request), NameEnd(request) - 1)

(* The throws of processTheLine, past the one on the line's length. *)
IsMalformed(request) ==
    \/ Find(request, SP, 1) = Nowhere
    \/ /\ IsConnect(request)
       /\ SpaceAfterName(request) \in {Nowhere, NameStart(request)}
    \/ /\ ~IsConnect(request)
       /\ ~IsAbsolute(request)
       /\ ~IsTransparent(request)
    \/ /\ IsAbsolute(request)
       /\ \/ SlashAfterName(request) \in {Nowhere, NameStart(request)}
          \/ SpaceAfterName(request) = Nowhere

(* Faulty variant of HasUserName: the whole line is searched. *)
HasUserNameAnywhere(request) == FindLastOf(request, "@", Len(request)) # Nowhere

(* request.find_last_of('@', sb): an '@' at the start of the name or       *)
(* before it; one inside the name is not seen.                             *)
HasUserName(request) == FindLastOf(request, "@", NameStart(request)) # Nowhere

(* Faulty variant of Rewritten: the slash is written over the space. *)
RewrittenOverSpace(request) ==
    Before(request, TargetStart(request))
    \o From([request EXCEPT ![NameEnd(request)] = "/"], NameEnd(request))

(* The line for the server: the name is cut out, and where no path follows *)
(* it its last place becomes the path "/".                                 *)
Rewritten(request) ==
    LET cut == IF NameEnd(request) = SpaceAfterName(request)
               THEN NameEnd(request) - 1 ELSE NameEnd(request)
    IN  Before(request, TargetStart(request))
        \o From([request EXCEPT ![cut] = "/"], cut)

(***************************************************************************)
(* The parsers the name is given to.                                       *)
(***************************************************************************)
HostPart(name) == Before(name, Find(name, ":", 1))

PortPart(name, port) ==
    LET colon == Find(name, ":", 1)
    IN  IF colon = Nowhere THEN port ELSE Port(Atoi(From(name, colon + 1)))

(* parseusername(username, proxy, 1): the third and the fourth field are   *)
(* the name and the password for the parent proxy.  The first two are kept *)
(* only when srv->nouser is off, and main always turns it on.              *)
Colon(s, n) ==
    LET first == Find(s, ":", 1)
        second == IF first = Nowhere THEN Nowhere ELSE Find(s, ":", first + 1)
        third == IF second = Nowhere THEN Nowhere ELSE Find(s, ":", second + 1)
    IN  <<first, second, third>>[n]
ExtUserName(s) == FromFor(s, Colon(s, 2) + 1, Colon(s, 3))
ExtPassword(s) == IF Colon(s, 3) = Nowhere THEN <<>> ELSE From(s, Colon(s, 3) + 1)
=============================================================================
