------------------------------- MODULE Outbound -------------------------------
(***************************************************************************)
(* From a client's request to the socket the proxy talks to the server on: *)
(* main accepts a connection (Startup has what came before); the request   *)
(* line is cut up (RequestTarget), the name is resolved, a Host header may *)
(* name the server instead, connectToServer opens, binds and connects, and *)
(* the credentials for a parent proxy are encoded (Base64).  The first     *)
(* worker, its first request.                                              *)
(*                                                                         *)
(* Modelled from how it is used: the resolver and the socket calls of the  *)
(* operating system, each of which may fail.                               *)
(***************************************************************************)
EXTENDS Startup, Base64

CONSTANTS
    Lines,         \* requests: [verb, scheme, name, path, version, headers]
    TooShort(_),   \* whether a line has less than ten characters
    Meant(_),      \* the address and the port the writer of a name means
    CharOf(_)      \* the character code of a token that is one character

(* The parts of a request line are those of its grammar: a verb, "scheme://", *)
(* a name, the rest of the target and the version.  CONNECT has a name only   *)
(* for a target; the others have a scheme and a name, or neither.             *)
InGrammar(l) ==
    /\ {l.verb, l.scheme, l.name, l.path, l.version} \subseteq Seq(STRING)
    /\ l.headers \in Seq([key : STRING, value : Seq(STRING)])
    /\ l.verb # <<>> /\ \A i \in DOMAIN l.verb : l.verb[i] # SP
    /\ l.scheme # <<>> => /\ l.scheme = <<Head(l.scheme), "/", "/">>
                         /\ Head(l.scheme) \notin {SP, "/", "@"}
    /\ \A i \in DOMAIN l.name : l.name[i] \notin {SP, "/"}
    /\ l.path # <<>> => Head(l.path) \in {"/", "?"}
    /\ l.version # <<>> => Head(l.version) = SP
    /\ Head(l.verb) = "CONNECT" => l.verb = <<"CONNECT">> /\ l.scheme = <<>> /\ l.path = <<>>
    /\ Head(l.verb) # "CONNECT" /\ l.scheme = <<>> => l.name = <<>>

ASSUME LinesAssumption == \A l \in Lines : InGrammar(l)

(* The host of a name ends before its first ':', or with the name. *)
HostEnds(name, k) ==
    /\ \A i \in 1 .. k : name[i] # ":"
    /\ k < Len(name) => name[k + 1] = ":"

NamesToResolve ==
    {l.name : l \in Lines}
    \cup {h.value : h \in UNION {Range(l.headers) : l \in Lines}}
    \cup {o.value : o \in {x \in UNION {Range(c) : c \in CommandLines} : x.flag = "h"}}

(* A name that has an address means that and the port behind its ':', or 80. *)
ASSUME MeantAssumption ==
    \A name \in NamesToResolve : \A k \in 0 .. Len(name) :
        LET host == SubSeq(name, 1, k)
            port == Atoi(SubSeq(name, k + 2, Len(name)))
        IN  HostEnds(name, k) /\ Resolve(host) # AnyAddress
            => /\ port < 65536
               /\ Meant(name) = [addr |-> Resolve(host),
                                 port |-> IF k = Len(name) THEN 80 ELSE port]

(* A query that follows a name without a path makes it a name of no host. *)
ASSUME QueryAssumption ==
    \A l \in Lines : l.path # <<>> /\ Head(l.path) = "?" =>
        \A k \in 1 .. Len(l.path) : Resolve(l.name \o SubSeq(l.path, 1, k)) = AnyAddress

LocalAddress == "local"                        \* what the system binds to
Closed == [state |-> "invalid", addr |-> AnyAddress, port |-> 0,
           localport |-> "none", local |-> AnyAddress, peer |-> <<>>]
NoLine == [verb |-> <<>>, scheme |-> <<>>, name |-> <<>>, path |-> <<>>,
           version |-> <<>>, headers |-> <<>>]

VARIABLES
    line,          \* the request the client sends, in its parts
    pc,            \* "none" until main has accepted a connection
    request, requestOriginal,
    headers,       \* the header lines still to be processed
    hostname, req, \* ProxyWorker::hostname and ::req
    extuser,       \* <<extusername, extpassword>>
    sb,            \* the position parseconnusername has reached
    server,        \* the server's SockBuf: socket and sin
    extip,         \* ProxyWorker::extip
    clientport,    \* above 1023 or not
    credentials,   \* of the Authorization header
    outcome        \* why the worker gave up

workerVars == <<line, pc, request, requestOriginal, headers, hostname, req,
                extuser, sb, server, extip, clientport, credentials, outcome>>
vars == <<mainVars, workerVars>>
parsed == <<hostname, req, extuser>>
given == <<mainVars, line, clientport, credentials>>

Text(l) == l.verb \o <<SP>> \o l.scheme \o l.name \o l.path \o l.version

(* The user name and the password that parseusername finds in a name, and  *)
(* the bytes that stand for both in the Authorization header.              *)
ParsedUser(su) == <<ExtUserName(su), ExtPassword(su)>>
CodesOf(user) ==
    LET text == user[1] \o <<":">> \o user[2]
    IN  [i \in DOMAIN text |-> CharOf(text[i])]

Init ==
    /\ MainInit
    /\ line = NoLine
    /\ clientport = "low"
    /\ headers = <<>>
    /\ pc = "none"
    /\ request = <<>>
    /\ requestOriginal = <<>>
    /\ hostname = <<>>
    /\ req = [addr |-> AnyAddress, port |-> 0]
    /\ extuser = <<<<>>, <<>>>>
    /\ sb = Nowhere
    /\ server = Closed
    /\ extip = AnyAddress
    /\ credentials = <<>>
    /\ outcome = "none"

(* main accepts, and the new worker is a copy of defparam.  The client's   *)
(* request is on its way.                                                  *)
Accept ==
    /\ mainPc = "accepting"
    /\ pc = "none"
    /\ line' \in Lines
    /\ clientport' \in {"low", "high"}
    /\ headers' = line'.headers
    /\ request' = Text(line')
    /\ requestOriginal' = Text(line')
    /\ hostname' = defparam.hostname
    /\ req' = defparam.req
    /\ extip' = defparam.extip
    /\ pc' = "line"
    /\ UNCHANGED <<mainVars, extuser, sb, server, credentials, outcome>>

Fail(why) == pc' = "failed" /\ outcome' = why

(* parsehostname(name, proxy, 80): an empty name changes nothing. *)
ParseHostname(name) ==
    IF name = <<>> THEN UNCHANGED <<hostname, req, server>>
    ELSE /\ hostname' = HostPart(name)
         /\ req' = [addr |-> Resolve(HostPart(name)), port |-> PortPart(name, 80)]
         /\ server' = [server EXCEPT !.addr = AnyAddress, !.port = 0]

(* processTheLine throws. *)
RejectLine ==
    /\ pc = "line"
    /\ TooShort(request) \/ IsMalformed(request)
    /\ Fail("request line")
    /\ UNCHANGED <<given, request, requestOriginal, headers, parsed, sb, server, extip>>

ReadableLine == pc = "line" /\ ~TooShort(request) /\ ~IsMalformed(request)

(* A path alone: the Host header will name the server. *)
ReadPath ==
    /\ ReadableLine
    /\ IsTransparent(request)
    /\ pc' = "headers"
    /\ UNCHANGED <<given, request, requestOriginal, headers, parsed, sb, server,
                   extip, outcome>>

RewrittenLine == IF IsConnect(request) THEN request ELSE Rewritten(request)

(* A server's name, with nothing taken for a user name before it. *)
ReadServerName ==
    /\ ReadableLine
    /\ ~IsTransparent(request)
    /\ ~HasUserName(request)
    /\ \E su \in {ServerName(request)} : ParseHostname(su)
    /\ request' = RewrittenLine
    /\ pc' = "headers"
    /\ UNCHANGED <<given, requestOriginal, headers, extuser, sb, extip, outcome>>

(* parseconnusername.  Its test is the wrong way round: a name with the    *)
(* delimiter goes to parseusername as a whole, or nowhere when no host is  *)
(* known yet (and nobody looks at the result); a name without one goes     *)
(* into the loop that looks for the last delimiter.                        *)
ReadUserName ==
    /\ ReadableLine
    /\ ~IsTransparent(request)
    /\ HasUserName(request)
    /\ \E su \in {DecodeUrl(ServerName(request))} :
         \E delimited \in {Find(su, "@", 1) # Nowhere} :
          /\ extuser' = IF delimited /\ hostname # <<>>
                        THEN ParsedUser(su) ELSE extuser
          /\ IF su # <<>> /\ ~delimited
             THEN pc' = "delimiters" /\ UNCHANGED request
             ELSE pc' = "headers" /\ request' = RewrittenLine
    /\ UNCHANGED <<given, requestOriginal, headers, hostname, req, sb, server,
                   extip, outcome>>

(* while ((se = find(delim, sb + 1))) sb = se;  find answers npos, which   *)
(* is not 0, and npos + 1 starts again at the first place.                 *)
FindDelimiter ==
    /\ pc = "delimiters"
    /\ sb' = Find(DecodeUrl(ServerName(request)), "@", sb + 1)
    /\ pc' = "delimiter"
    /\ UNCHANGED <<given, request, requestOriginal, headers, parsed, server,
                   extip, outcome>>

NextDelimiter ==
    /\ pc = "delimiter"
    /\ sb # 1
    /\ pc' = "delimiters"
    /\ UNCHANGED <<given, request, requestOriginal, headers, parsed, sb, server,
                   extip, outcome>>

(* Faulty variant of HostHeaderCounts: every Host header is taken. *)
EveryHostHeaderCounts(key) == key = "Host"

(* processHeaderLine: a Host header names the server of a request that     *)
(* came with a path alone.                                                 *)
HostHeaderCounts(key) == IsTransparent(Text(line)) /\ key = "Host"

ReadHeader ==
    /\ pc = "headers"
    /\ headers # <<>>
    /\ LET header == Head(headers)
           path == Find(requestOriginal, "/", 2)
       IN  IF HostHeaderCounts(header.key)
           THEN /\ ParseHostname(header.value)
                /\ requestOriginal' = Before(requestOriginal, path)
                       \o <<"http:", "/", "/">> \o header.value \o From(requestOriginal, path)
           ELSE UNCHANGED <<hostname, req, server, requestOriginal>>
    /\ headers' = Tail(headers)
    /\ UNCHANGED <<given, pc, request, extuser, sb, extip, outcome>>

EndHeaders ==
    /\ pc = "headers"
    /\ headers = <<>>
    /\ pc' = "open"
    /\ UNCHANGED <<given, request, requestOriginal, headers, parsed, sb, server,
                   extip, outcome>>
-----------------------------------------------------------------------------
(* connectToServer. *)
HostNotFound ==
    /\ pc = "open"
    /\ req.addr = AnyAddress
    /\ Fail("host not found")
    /\ UNCHANGED <<given, request, requestOriginal, headers, parsed, sb, server, extip>>

(* The socket is opened; it is bound and connected only when no external   *)
(* address was asked for.                                                  *)
OpenSocket ==
    /\ pc = "open"
    /\ req.addr # AnyAddress
    /\ server' = [server EXCEPT !.state = "open", !.addr = req.addr, !.port = req.port]
    /\ pc' = IF extip = AnyAddress THEN "bind" ELSE "credentials"
    /\ UNCHANGED <<given, request, requestOriginal, headers, parsed, sb, extip, outcome>>

(* bind with the client's own port number when that is above 1023.  (The   *)
(* port options behind extport and targetport are never set.)              *)
BindPort == IF clientport = "high" THEN "client's" ELSE "any"

Bind ==
    /\ pc = "bind"
    /\ \/ /\ server' = [server EXCEPT !.state = "bound", !.localport = BindPort]
          /\ pc' = "connect"
       \/ /\ server' = server
          /\ pc' = "bind any"
    /\ UNCHANGED <<given, request, requestOriginal, headers, parsed, sb, extip, outcome>>

BindAnyPort ==
    /\ pc = "bind any"
    /\ server' = [server EXCEPT !.state = "bound", !.localport = "any"]
    /\ pc' = "connect"
    /\ UNCHANGED <<given, request, requestOriginal, headers, parsed, sb, extip, outcome>>

(* Faulty variant of IsRecursion: the socket's own address is compared. *)
IsRecursionOfLocal(sin) == [addr |-> server'.local, port |-> sin.port]
                           = [addr |-> srv.intip, port |-> srv.intport]

(* The server is the proxy itself: compared with the address main was      *)
(* given, which is 0 where none was.                                       *)
IsRecursion(sin) == sin = [addr |-> srv.intip, port |-> srv.intport]

Connect ==
    /\ pc = "connect"
    /\ LET sin == [addr |-> server.addr, port |-> server.port]
       IN  /\ server' = [server EXCEPT !.state = "connected", !.local = LocalAddress,
                                       !.peer = <<sin>>]
           /\ extip' = LocalAddress
           /\ IF IsRecursion(sin)
              THEN Fail("recursion")
              ELSE pc' = "credentials" /\ UNCHANGED outcome
    /\ UNCHANGED <<given, request, requestOriginal, headers, parsed, sb>>

(* A socket call throws: socket(), the second bind(), connect(). *)
SocketFails ==
    /\ \/ pc = "open" /\ req.addr # AnyAddress
       \/ pc \in {"bind any", "connect"}
    /\ Fail("socket")
    /\ UNCHANGED <<given, request, requestOriginal, headers, parsed, sb, server, extip>>

(* The Authorization header is added to what the client sent; a CONNECT is  *)
(* not passed on.                                                           *)
UserAndPassword == CodesOf(extuser)

AddCredentials ==
    /\ pc = "credentials"
    /\ IF extuser[1] = <<>> \/ IsConnect(request)
       THEN pc' = "serving" /\ UNCHANGED credentials
       ELSE /\ credentials' = En64(UserAndPassword).code
            /\ pc' = IF En64(UserAndPassword).outside THEN "outside" ELSE "serving"
    /\ UNCHANGED <<mainVars, line, clientport, request, requestOriginal, headers,
                   parsed, sb, server, extip, outcome>>

WorkerNext ==
    \/ RejectLine \/ ReadPath \/ ReadServerName \/ ReadUserName
    \/ FindDelimiter \/ NextDelimiter \/ ReadHeader \/ EndHeaders
    \/ HostNotFound \/ OpenSocket \/ Bind \/ BindAnyPort \/ Connect \/ SocketFails
    \/ AddCredentials

Next ==
    \/ MainNext /\ UNCHANGED workerVars
    \/ Accept
    \/ WorkerNext

Spec == Init /\ [][Next]_vars

(* main and the worker's thread run.  That a client connects is not        *)
(* assumed, nor that the system ever lets main bind.                       *)
FairSpec ==
    /\ Spec
    /\ WF_vars(MainNext /\ UNCHANGED workerVars)
    /\ WF_vars(WorkerNext)
-----------------------------------------------------------------------------
Serving == pc = "serving"

(* The name has a user name in it, or the line has an '@' before it. *)
HasAt(l) == \E i \in 1 .. Len(l.verb \o l.name) : (l.verb \o l.name)[i] = "@"

(* Who the client asks for: the name in the line or, for a path alone, the *)
(* last Host header, and the -h host when there is none.                   *)
HostHeaders(l) ==
    {i \in DOMAIN l.headers : l.headers[i].key = "Host" /\ l.headers[i].value # <<>>}

NamedBy(l) ==
    IF l.scheme # <<>> \/ l.verb = <<"CONNECT">> THEN l.name
    ELSE IF HostHeaders(l) = {} THEN <<>>
    ELSE l.headers[Max(HostHeaders(l))].value

ParentProxy ==
    IF \E i \in DOMAIN srv.host : srv.host[i] = ":" THEN Meant(srv.host)
    ELSE [addr |-> Meant(srv.host).addr, port |-> 3128]

Intended == IF NamedBy(line) # <<>> THEN Meant(NamedBy(line)) ELSE ParentProxy

(* A connected socket leads to the server the request names, in its line   *)
(* or in a Host header but never in the one when it is in the other, with  *)
(* the port given or 80: the cuts of processTheLine, parsehostname's and   *)
(* processHeaderLine's effects on req, and connectToServer together.  For  *)
(* names without an '@': with one, what is before its first ':' is asked   *)
(* for.                                                                    *)
ConnectedToTheNamedServer ==
    Serving /\ server.state = "connected" /\ ~HasAt(line) => server.peer = <<Intended>>

(* What is sent to the server is the line it would have got directly: the  *)
(* scheme and the name are gone, and a target without a path has become    *)
(* "/", which processTheLine writes over the end of the name.              *)
RequestIsOriginForm ==
    Serving /\ line.scheme # <<>> /\ (line.path = <<>> \/ Head(line.path) = "/")
    => request = line.verb \o <<SP>>
                 \o (IF line.path = <<>> THEN <<"/">> ELSE line.path) \o line.version

(* A proxy that was given an address to listen on (-i and -p) does not go  *)
(* on with a connection to it; and the page Proxyerror_Recursion_Detected  *)
(* is only for requests that name it, in their line or a Host header, so   *)
(* nobody gets it without -i.                                              *)
Itself == [addr |-> srv.intip, port |-> srv.intport]

RecursionIsDetected ==
    /\ Serving /\ server.state = "connected" /\ srv.intip # AnyAddress
       => server.peer # <<Itself>>
    /\ outcome = "recursion" => srv.intip # AnyAddress
    /\ outcome = "recursion" /\ ~HasAt(line) => Intended = Itself

(* A worker gets past the server's name and ends with a page or a server,  *)
(* unless an '@' stands in front of the name: only then can the loop of    *)
(* parseconnusername run, and it does not end.                             *)
TargetIsRead ==
    (pc = "line" /\ (\A i \in 1 .. Len(line.verb) : line.verb[i] # "@")
                /\ ~IsPrefix(<<"@">>, line.name))
    ~> pc \in {"serving", "failed"}
=============================================================================
