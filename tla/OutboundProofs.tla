---------------------------- MODULE OutboundProofs ----------------------------
(***************************************************************************)
(* The way to the server, for every set of requests and command lines: the *)
(* proxy listens where it was told to, a worker of a proxy that was given  *)
(* an address does not go on with a connection to it, what is sent is the  *)
(* line in origin form and a connected socket leads to the server that the *)
(* request names.                                                          *)
(* Most of it is about texts: where processTheLine's searches end in a     *)
(* line that has the parts of the grammar.                                 *)
(***************************************************************************)
EXTENDS Outbound, Induction

-----------------------------------------------------------------------------
(* The recursion check.                                                    *)

\* A worker comes after main's startup, and a connected socket is past the check.
WorkerComesLater == pc # "none" => mainPc = "accepting"
OnlyPassedConnections ==
    /\ pc \in {"none", "line", "delimiters", "delimiter", "headers", "open", "bind",
               "bind any", "connect", "failed", "credentials", "serving", "outside"}
    /\ "state" \in DOMAIN server /\ "peer" \in DOMAIN server
    /\ server.state = "connected" /\ pc # "failed"
       => /\ pc \in {"credentials", "serving", "outside"}
          /\ server.peer # <<[addr |-> srv.intip, port |-> srv.intport]>>
RecursionInv == WorkerComesLater /\ OnlyPassedConnections

\* Nobody is connected at first.
LEMMA InitRecursionInv == Init => RecursionInv
PROOF
  BY DEF Init, MainInit, RecursionInv, WorkerComesLater, OnlyPassedConnections, Closed, Nowhere

\* In the accept loop main's state is settled.
LEMMA MainIsDone ==
  ASSUME mainPc = "accepting" PROVE ~MainNext
PROOF
  BY DEF MainNext, ReadOption, Usage, SetDefaults, OpenListener, BindSucceeds, BindFails,
         Sleep, Listen, OptionsRead

\* A worker leaves main's state and its own request's parts alone.
LEMMA MainKept ==
  ASSUME WorkerNext PROVE UNCHANGED <<mainVars, line>> /\ pc # "none" /\ pc' # "none"
PROOF
<1> USE DEF given, Fail
<1>1. ASSUME RejectLine \/ ReadPath \/ ReadServerName PROVE UNCHANGED <<mainVars, line>> /\ pc # "none" /\ pc' # "none"
  BY <1>1 DEF RejectLine, ReadPath, ReadServerName, ReadableLine
<1>2. ASSUME ReadUserName PROVE UNCHANGED <<mainVars, line>> /\ pc # "none" /\ pc' # "none"
  BY <1>2 DEF ReadUserName, ReadableLine
<1>3. ASSUME FindDelimiter \/ NextDelimiter \/ ReadHeader \/ EndHeaders PROVE UNCHANGED <<mainVars, line>> /\ pc # "none" /\ pc' # "none"
  BY <1>3 DEF FindDelimiter, NextDelimiter, ReadHeader, EndHeaders
<1>4. ASSUME HostNotFound \/ OpenSocket \/ Bind \/ BindAnyPort \/ Connect \/ SocketFails PROVE UNCHANGED <<mainVars, line>> /\ pc # "none" /\ pc' # "none"
  BY <1>4 DEF HostNotFound, OpenSocket, Bind, BindAnyPort, Connect, SocketFails
<1>5. ASSUME AddCredentials PROVE UNCHANGED <<mainVars, line>> /\ pc # "none" /\ pc' # "none"
  BY <1>5 DEF AddCredentials
<1> QED
  BY <1>1, <1>2, <1>3, <1>4, <1>5 DEF WorkerNext

\* A worker's steps: only Connect makes a connected socket, and fails when it is the
\* proxy's own.
LEMMA WorkerKeepsRecursionInv ==
  ASSUME RecursionInv, WorkerNext PROVE RecursionInv'
PROOF
<1>1. UNCHANGED mainVars /\ pc # "none" /\ pc' # "none"
  BY MainKept
<1>2. WorkerComesLater'
  BY <1>1 DEF RecursionInv, WorkerComesLater, mainVars
<1>3. srv' = srv
  BY <1>1 DEF mainVars
<1> SUFFICES OnlyPassedConnections'
  BY <1>2 DEF RecursionInv
<1> USE <1>3 DEF RecursionInv, OnlyPassedConnections, Fail
<1>4. ASSUME ReadServerName \/ ReadHeader
      PROVE  /\ pc' = "headers"
             /\ \/ server' = server
                \/ server' = [server EXCEPT !.addr = AnyAddress, !.port = 0]
             /\ pc \in {"line", "headers"}
  BY <1>4 DEF ReadServerName, ReadHeader, ReadableLine, ParseHostname
<1>5. CASE ReadServerName \/ ReadHeader
  BY <1>4, <1>5 DEF OnlyPassedConnections
<1>6. CASE RejectLine \/ ReadPath \/ ReadUserName
  BY <1>6 DEF RejectLine, ReadPath, ReadUserName, ReadableLine
<1>7. CASE FindDelimiter \/ NextDelimiter \/ EndHeaders
  BY <1>7 DEF FindDelimiter, NextDelimiter, EndHeaders
<1>8. CASE HostNotFound \/ OpenSocket \/ SocketFails
  BY <1>8 DEF HostNotFound, OpenSocket, SocketFails
<1>9. CASE Bind \/ BindAnyPort
  BY <1>9 DEF Bind, BindAnyPort
<1>10. CASE Connect
  BY <1>10 DEF Connect, IsRecursion
<1>11. CASE AddCredentials
  BY <1>11 DEF AddCredentials
<1> QED
  BY <1>2, <1>5, <1>6, <1>7, <1>8, <1>9, <1>10, <1>11 DEF WorkerNext

\* And the others.
LEMMA NextRecursionInv ==
  ASSUME RecursionInv, [Next]_vars PROVE RecursionInv'
PROOF
<1>1. CASE WorkerNext
  BY <1>1, WorkerKeepsRecursionInv
<1>2. CASE Accept
  BY <1>2 DEF Accept, RecursionInv, WorkerComesLater, OnlyPassedConnections, mainVars
<1>3. CASE MainNext /\ UNCHANGED workerVars
  <2>1. mainPc # "accepting"
    BY <1>3, MainIsDone
  <2>2. pc = "none" /\ pc' = "none" /\ server' = server
    BY <1>3, <2>1 DEF RecursionInv, WorkerComesLater, workerVars
  <2> QED
    BY <2>2 DEF RecursionInv, WorkerComesLater, OnlyPassedConnections
<1>4. CASE UNCHANGED vars
  BY <1>4 DEF vars, mainVars, workerVars, RecursionInv, WorkerComesLater, OnlyPassedConnections
<1> QED
  BY <1>1, <1>2, <1>3, <1>4 DEF Next

-----------------------------------------------------------------------------
(* The options.                                                            *)

Options == [flag : STRING, value : Seq(STRING)]
AlreadyRead == Len(commandLine) - Len(argv)

PlacesUpTo(flag, k) == {i \in 1 .. k : commandLine[i].flag = flag}
ValueUpTo(flag, k) == commandLine[Max(PlacesUpTo(flag, k))].value

AddressUpTo(k) == IF PlacesUpTo("i", k) = {} THEN AnyAddress ELSE Resolve(ValueUpTo("i", k))
PortUpTo(k) == IF PlacesUpTo("p", k) = {} THEN 0 ELSE Port(Atoi(ValueUpTo("p", k)))
KnownUpTo(k) == \A i \in 1 .. k : IsKnownOption(commandLine[i])

\* What has been read is in srv, as the last values of each kind.
OptionsTyped ==
    /\ commandLine \in Seq(Options)
    /\ argv \in Seq(Options)
    /\ Len(argv) <= Len(commandLine)
    /\ \A i \in 1 .. Len(argv) : argv[i] = commandLine[AlreadyRead + i]
    /\ {"intip", "intport", "error"} \subseteq DOMAIN srv
    /\ srv.error \in BOOLEAN
OptionsTaken ==
    /\ srv.intip = AddressUpTo(AlreadyRead)
    /\ srv.intport = PortUpTo(AlreadyRead)
    /\ srv.error <=> ~KnownUpTo(AlreadyRead)
DefaultsSet ==
    /\ \A i \in DOMAIN commandLine : IsKnownOption(commandLine[i])
    /\ AskedPort < 65536 => bound = [addr |-> AskedAddress, port |-> AskedPort]
    /\ bound = [addr |-> srv.intip, port |-> srv.intport]
OptionsInv ==
    /\ OptionsTyped
    /\ mainPc = "options" => OptionsTaken
    /\ mainPc \notin {"options", "exited"} => DefaultsSet

\* The greatest of a set of numbers.
LEMMA MaxIs ==
  ASSUME NEW S \in SUBSET Nat, NEW m \in S, \A i \in S : i <= m
  PROVE  Max(S) = m
PROOF
<1> DEFINE c == CHOOSE x \in S : \A y \in S : x >= y
<1>1. m \in S /\ \A y \in S : m >= y
  OBVIOUS
<1>2. c \in S /\ \A y \in S : c >= y
  BY <1>1
<1>3. c = m
  <2> HIDE DEF c
  <2>1. c >= m /\ c <= m /\ c \in Nat /\ m \in Nat
    BY <1>2
  <2> QED
    BY <2>1
<1> QED
  BY <1>3, Zenon DEF Max

\* One more option: it is the last of its kind, or changes nothing for the kind.
LEMMA NextValue ==
  ASSUME NEW flag, NEW k \in Nat
  PROVE  IF commandLine[k + 1].flag = flag
         THEN /\ PlacesUpTo(flag, k + 1) # {}
              /\ ValueUpTo(flag, k + 1) = commandLine[k + 1].value
         ELSE PlacesUpTo(flag, k + 1) = PlacesUpTo(flag, k)
PROOF
<1>1. CASE commandLine[k + 1].flag = flag
  <2>1. /\ PlacesUpTo(flag, k + 1) \in SUBSET Nat
        /\ k + 1 \in PlacesUpTo(flag, k + 1)
        /\ \A i \in PlacesUpTo(flag, k + 1) : i <= k + 1
    BY <1>1 DEF PlacesUpTo
  <2> QED
    BY <1>1, <2>1, MaxIs DEF ValueUpTo
<1>2. CASE commandLine[k + 1].flag # flag
  BY <1>2 DEF PlacesUpTo
<1> QED
  BY <1>1, <1>2

\* atoi's results.
LEMMA NumbersAreNat == \A s : Atoi(s) \in Nat
PROOF
<1>1. \A t \in DOMAIN Number : Number[t] \in Nat
  BY DEF Number
<1> QED
  BY <1>1 DEF Atoi

\* No option is read at first.
LEMMA InitOptionsInv == Init => OptionsInv
PROOF
<1> SUFFICES ASSUME Init PROVE OptionsInv
  OBVIOUS
<1>1. commandLine \in Seq(Options) /\ argv = commandLine /\ mainPc = "options"
  BY CommandLinesAssumption DEF Init, MainInit, Options
<1>2. Len(commandLine) \in Nat
  BY <1>1
<1>3. AlreadyRead = 0
  BY <1>1, <1>2 DEF AlreadyRead
<1>4. OptionsTyped
  <2>1. \A i \in 1 .. Len(argv) : AlreadyRead + i = i
    BY <1>3
  <2> QED
    BY <1>1, <1>2, <2>1 DEF OptionsTyped, Init, MainInit
<1>5. OptionsTaken
  <2>1. 1 .. 0 = {}
    OBVIOUS
  <2> QED
    BY <1>3, <2>1 DEF OptionsTaken, AddressUpTo, PortUpTo, KnownUpTo, PlacesUpTo, Init, MainInit
<1> QED
  BY <1>1, <1>4, <1>5 DEF OptionsInv

\* What the switch does with the option that is read.
LEMMA WithOptionTakes ==
  ASSUME NEW s, {"intip", "intport", "error"} \subseteq DOMAIN s, s.error \in BOOLEAN, NEW o
  PROVE  LET t == WithOption(s, o)
         IN  /\ {"intip", "intport", "error"} \subseteq DOMAIN t
             /\ t.intip = (IF o.flag = "i" THEN Resolve(o.value) ELSE s.intip)
             /\ t.intport = (IF o.flag = "p" THEN Port(Atoi(o.value)) ELSE s.intport)
             /\ t.error = (s.error \/ ~IsKnownOption(o))
PROOF
  BY DEF WithOption, IsKnownOption, Quiet

\* The next option.
LEMMA ReadOptionKeeps ==
  ASSUME OptionsInv, ReadOption PROVE OptionsInv'
PROOF
<1> DEFINE k == AlreadyRead
           o == Head(argv)
<1>1. /\ mainPc = "options" /\ argv # <<>> /\ argv' = Tail(argv)
      /\ srv' = WithOption(srv, o) /\ commandLine' = commandLine /\ mainPc' = "options"
  BY DEF ReadOption
<1>2. OptionsTyped /\ OptionsTaken
  BY <1>1 DEF OptionsInv
<1>3. /\ Len(argv) \in Nat /\ Len(argv) > 0 /\ Len(commandLine) \in Nat
      /\ Tail(argv) \in Seq(Options) /\ Len(Tail(argv)) = Len(argv) - 1
      /\ \A i \in 1 .. Len(Tail(argv)) : Tail(argv)[i] = argv[i + 1]
      /\ o = argv[1]
  BY <1>1, <1>2, HeadTailProperties, EmptySeq DEF OptionsTyped
<1>4. k \in Nat /\ AlreadyRead' = k + 1
  BY <1>1, <1>2, <1>3 DEF AlreadyRead, OptionsTyped
<1>5. o = commandLine[k + 1]
  BY <1>2, <1>3, <1>4 DEF OptionsTyped
<1>6. OptionsTyped'
  <2>1. /\ {"intip", "intport", "error"} \subseteq DOMAIN srv'
        /\ srv'.error \in BOOLEAN
    BY <1>1, <1>2, WithOptionTakes DEF OptionsTyped
  <2>2. ASSUME NEW i \in 1 .. Len(argv') PROVE argv'[i] = commandLine'[AlreadyRead' + i]
    <3>1. i + 1 \in 1 .. Len(argv) /\ k + (i + 1) = (k + 1) + i
      BY <1>1, <1>3, <1>4
    <3>2. argv[i + 1] = commandLine[k + (i + 1)]
      BY <1>2, <3>1 DEF OptionsTyped
    <3> QED
      BY <1>1, <1>3, <1>4, <3>1, <3>2
  <2> QED
    BY <1>1, <1>2, <1>3, <2>1, <2>2 DEF OptionsTyped
<1>7. OptionsTaken'
  <2> HIDE DEF k
  <2>1. /\ srv'.intip = (IF o.flag = "i" THEN Resolve(o.value) ELSE srv.intip)
        /\ srv'.intport = (IF o.flag = "p" THEN Port(Atoi(o.value)) ELSE srv.intport)
        /\ srv'.error = (srv.error \/ ~IsKnownOption(o))
    BY <1>1, <1>2, WithOptionTakes DEF OptionsTyped
  <2>2. /\ srv.intip = AddressUpTo(k) /\ srv.intport = PortUpTo(k)
        /\ srv.error <=> ~KnownUpTo(k)
    BY <1>2 DEF OptionsTaken, k
  <2> HIDE DEF o
  <2>3. srv'.intip = AddressUpTo(k + 1)
    <3>1. CASE o.flag = "i"
      BY <1>4, <1>5, <2>1, <3>1, NextValue DEF AddressUpTo
    <3>2. CASE o.flag # "i"
      <4>1. PlacesUpTo("i", k + 1) = PlacesUpTo("i", k)
        BY <1>4, <1>5, <3>2, NextValue
      <4> QED
        BY <2>1, <2>2, <3>2, <4>1 DEF AddressUpTo, ValueUpTo
    <3> QED
      BY <3>1, <3>2
  <2>4. srv'.intport = PortUpTo(k + 1)
    <3>1. CASE o.flag = "p"
      BY <1>4, <1>5, <2>1, <3>1, NextValue DEF PortUpTo
    <3>2. CASE o.flag # "p"
      <4>1. PlacesUpTo("p", k + 1) = PlacesUpTo("p", k)
        BY <1>4, <1>5, <3>2, NextValue
      <4> QED
        BY <2>1, <2>2, <3>2, <4>1 DEF PortUpTo, ValueUpTo
    <3> QED
      BY <3>1, <3>2
  <2>5. srv'.error <=> ~KnownUpTo(k + 1)
    <3>1. 1 .. (k + 1) = (1 .. k) \cup {k + 1}
      BY <1>4
    <3> QED
      BY <1>5, <2>1, <2>2, <3>1 DEF KnownUpTo
  <2> QED
    BY <1>1, <1>4, <2>3, <2>4, <2>5
    DEF OptionsTaken, AddressUpTo, PortUpTo, KnownUpTo, PlacesUpTo, ValueUpTo
<1> QED
  BY <1>1, <1>6, <1>7 DEF OptionsInv

\* The defaults, after the last option.
LEMMA DefaultsKeep ==
  ASSUME OptionsInv, SetDefaults PROVE OptionsInv'
PROOF
<1>1. /\ mainPc = "options" /\ argv = <<>> /\ argv' = argv /\ commandLine' = commandLine
      /\ mainPc' = "socket" /\ ~srv.error
      /\ bound' = [addr |-> srv.intip,
                   port |-> IF srv.intport = 0 THEN DefaultPort ELSE srv.intport]
      /\ srv' = [srv EXCEPT !.intport = bound'.port]
  BY DEF SetDefaults, OptionsRead
<1>2. OptionsTyped /\ OptionsTaken
  BY <1>1 DEF OptionsInv
<1>3. AlreadyRead = Len(commandLine) /\ DOMAIN commandLine = 1 .. Len(commandLine)
  BY <1>1, <1>2 DEF AlreadyRead, OptionsTyped
<1>4. OptionsTyped'
  BY <1>1, <1>2 DEF OptionsTyped, AlreadyRead
<1>5. \A f : PlacesUpTo(f, AlreadyRead) = OptionPlaces(f)
  BY <1>3 DEF PlacesUpTo, OptionPlaces
<1>6. \A f : ValueUpTo(f, AlreadyRead) = LastValue(f)
  BY <1>5, Zenon DEF ValueUpTo, LastValue
<1>7. \A i \in DOMAIN commandLine : IsKnownOption(commandLine[i])
  BY <1>1, <1>2, <1>3 DEF OptionsTaken, KnownUpTo
<1>8. srv.intip = AskedAddress
  BY <1>2, <1>5, <1>6 DEF OptionsTaken, AddressUpTo, AskedAddress
<1>9. AskedPort < 65536 => AskedPort = bound'.port
  <2>1. CASE OptionPlaces("p") = {}
    <3>1. srv.intport = 0
      BY <1>2, <1>5, <2>1 DEF OptionsTaken, PortUpTo
    <3> QED
      BY <1>1, <2>1, <3>1 DEF AskedPort
  <2>2. CASE OptionPlaces("p") # {}
    <3> DEFINE n == Atoi(LastValue("p"))
    <3>1. srv.intport = n % 65536
      BY <1>2, <1>5, <1>6, <2>2 DEF OptionsTaken, PortUpTo, Port
    <3>2. n \in Nat
      BY NumbersAreNat
    <3>3. AskedPort = (IF n = 0 THEN DefaultPort ELSE n)
      BY <2>2 DEF AskedPort
    <3>4. n < 65536 => n % 65536 = n
      BY <3>2
    <3>5. bound'.port = (IF srv.intport = 0 THEN DefaultPort ELSE srv.intport)
      BY <1>1
    <3> HIDE DEF n
    <3> QED
      BY <3>1, <3>2, <3>3, <3>4, <3>5 DEF DefaultPort
  <2> QED
    BY <2>1, <2>2
<1>10. DefaultsSet'
  <2>1. /\ AskedAddress' = AskedAddress /\ AskedPort' = AskedPort
    BY <1>1 DEF AskedAddress, AskedPort, OptionPlaces, LastValue
  <2>2. \A i \in DOMAIN commandLine' : IsKnownOption(commandLine'[i])
    BY <1>1, <1>7
  <2>3. bound' = [addr |-> srv.intip, port |-> bound'.port]
    BY <1>1
  <2>4. srv'.intip = srv.intip /\ srv'.intport = bound'.port
    BY <1>1, <1>2 DEF OptionsTyped
  <2> QED
    <3>1. bound' = [addr |-> srv'.intip, port |-> srv'.intport]
      BY <2>3, <2>4
    <3>2. ASSUME AskedPort' < 65536
          PROVE  bound' = [addr |-> AskedAddress', port |-> AskedPort']
      BY <1>8, <1>9, <2>1, <2>3, <3>2
    <3> QED
      BY <2>2, <3>1, <3>2 DEF DefaultsSet
<1> QED
  BY <1>1, <1>4, <1>10 DEF OptionsInv

\* The other steps leave the options alone.
LEMMA NextOptionsInv ==
  ASSUME OptionsInv, [Next]_vars PROVE OptionsInv'
PROOF
<1>1. CASE MainNext
  <2>1. CASE OpenListener \/ BindSucceeds \/ BindFails \/ Sleep \/ Listen \/ Usage
    <3>1. UNCHANGED <<argv, commandLine, srv, bound>> /\ mainPc' # "options"
          /\ (mainPc = "options" => mainPc' = "exited")
          /\ (mainPc = "exited" => mainPc' = "exited")
      BY <2>1 DEF OpenListener, BindSucceeds, BindFails, Sleep, Listen, Usage, Exit, OptionsRead
    <3> QED
      BY <3>1 DEF OptionsInv, OptionsTyped, OptionsTaken, DefaultsSet, AlreadyRead, AskedPort,
                  AskedAddress, LastValue, OptionPlaces
  <2> QED
    BY <1>1, <2>1, ReadOptionKeeps, DefaultsKeep DEF MainNext
<1>2. CASE UNCHANGED mainVars
  BY <1>2 DEF mainVars, OptionsInv, OptionsTyped, OptionsTaken, DefaultsSet, AlreadyRead, AskedPort,
              AskedAddress, LastValue, OptionPlaces, AddressUpTo, PortUpTo, KnownUpTo,
              PlacesUpTo, ValueUpTo
<1>3. MainNext \/ UNCHANGED mainVars
  BY MainKept DEF Next, Accept, vars
<1> QED
  BY <1>1, <1>2, <1>3

\* The proxy listens where the last options say, and only when all are known.
THEOREM ListensThere == Spec => []ListensWhereAsked
PROOF
<1>1. OptionsInv => ListensWhereAsked
  BY DEF OptionsInv, DefaultsSet, ListensWhereAsked
<1> QED
  BY <1>1, InitOptionsInv, NextOptionsInv, PTL DEF Spec
-----------------------------------------------------------------------------
(* Searches in texts, and the parts of a request line.                      *)

Token == STRING \cup {SP, "/"}

\* Two texts, one after the other.
LEMMA Joined ==
  ASSUME NEW S, NEW a \in Seq(S), NEW b \in Seq(S)
  PROVE  /\ a \o b \in Seq(S)
         /\ Len(a \o b) = Len(a) + Len(b)
         /\ Len(a) \in Nat /\ Len(b) \in Nat
         /\ \A i \in 1 .. Len(a) : (a \o b)[i] = a[i]
         /\ \A i \in 1 .. Len(b) : (a \o b)[Len(a) + i] = b[i]
PROOF
  OBVIOUS

\* Three of them.
LEMMA Regrouped ==
  ASSUME NEW S, NEW a \in Seq(S), NEW b \in Seq(S), NEW c \in Seq(S)
  PROVE  (a \o b) \o c = a \o (b \o c)
PROOF
  BY ConcatAssociative

\* A text of one token.
LEMMA Single ==
  ASSUME NEW S, NEW x \in S
  PROVE  <<x>> \in Seq(S) /\ Len(<<x>>) = 1 /\ <<x>>[1] = x
PROOF
  OBVIOUS

\* find: the first place from a position, if there is one.
LEMMA FindIs ==
  ASSUME NEW s, NEW c, NEW from \in Nat, Len(s) \in Nat
  PROVE  \/ /\ Find(s, c, from) = Nowhere
            /\ \A i \in from .. Len(s) : s[i] # c
         \/ /\ Find(s, c, from) \in from .. Len(s)
            /\ s[Find(s, c, from)] = c
            /\ \A i \in from .. (Find(s, c, from) - 1) : s[i] # c
PROOF
<1> DEFINE hits == Places(s, c, from, Len(s))
           first == IF hits = {} THEN Nowhere ELSE Min(hits)
<1>1. Find(s, c, from) = first
  <2> DEFINE One(t, a) == {IF h = {} THEN Nowhere ELSE Min(h) : h \in {Places(t, c, a, Len(t))}}
  <2>1. One(s, from) = {first}
    BY Zenon
  <2> DEFINE X == {One(t, a) : t \in {s}, a \in {from}}
  <2>2. Find(s, c, from) = CHOOSE place \in UNION X : TRUE
    BY DEF Find
  <2> HIDE DEF One, first
  <2>3. X = {{first}}
    <3>1. X = {One(s, from)}
      OBVIOUS
    <3> QED
      BY <2>1, <3>1
  <2> HIDE DEF X
  <2>4. UNION {{first}} = {first}
    OBVIOUS
  <2>5. (CHOOSE place \in {first} : TRUE) = first
    OBVIOUS
  <2> QED
    BY <2>2, <2>3, <2>4, <2>5
<1>2. hits = { i \in from .. Len(s) : s[i] = c }
  BY DEF Places
<1>3. CASE hits = {}
  BY <1>1, <1>2, <1>3
<1>4. CASE hits # {}
  <2>1. PICK m \in hits : \A y \in hits : m <= y
    <3>1. hits \subseteq Nat
      BY <1>2
    <3> QED
      BY <1>4, <3>1, Minimum
  <2>2. Min(hits) = m
    <3> DEFINE d == CHOOSE x \in hits : \A y \in hits : x =< y
    <3> HIDE DEF hits
    <3>1. d \in hits /\ \A y \in hits : d <= y
      BY <2>1
    <3> HIDE DEF d
    <3>2. d <= m /\ m <= d /\ m \in Nat /\ d \in Nat
      BY <1>2, <2>1, <3>1
    <3>3. d = m
      BY <3>2
    <3> QED
      BY <3>3 DEF Min, d
  <2>3. Find(s, c, from) = m
    BY <1>1, <1>4, <2>2
  <2> QED
    BY <1>2, <2>1, <2>3
<1> QED
  BY <1>3, <1>4

\* A place that is known bounds what is found.
LEMMA FoundAt ==
  ASSUME NEW s, NEW c, NEW from \in Nat, Len(s) \in Nat, NEW p \in from .. Len(s), s[p] = c
  PROVE  /\ Find(s, c, from) \in from .. p
         /\ (\A i \in from .. (p - 1) : s[i] # c) => Find(s, c, from) = p
PROOF
<1> DEFINE f == Find(s, c, from)
<1>1. \/ \A i \in from .. Len(s) : s[i] # c
      \/ /\ f \in from .. Len(s) /\ s[f] = c
         /\ \A i \in from .. (f - 1) : s[i] # c
  BY FindIs
<1> HIDE DEF f
<1>2. f \in from .. Len(s) /\ s[f] = c /\ ~(p < f)
  BY <1>1
<1>3. f \in from .. p
  BY <1>2
<1>4. (\A i \in from .. (p - 1) : s[i] # c) => f = p
  BY <1>2, <1>3
<1> QED
  BY <1>3, <1>4 DEF f

\* t is a, x, b, c, d and e, one behind the other.
LaidOut(t, S, a, x, b, c, d, e) ==
    /\ t \in Seq(S)
    /\ Len(t) = Len(a) + 1 + Len(b) + Len(c) + Len(d) + Len(e)
    /\ \A i \in 1 .. Len(a) : t[i] = a[i]
    /\ t[Len(a) + 1] = x
    /\ \A i \in 1 .. Len(b) : t[Len(a) + 1 + i] = b[i]
    /\ \A i \in 1 .. Len(c) : t[Len(a) + 1 + Len(b) + i] = c[i]
    /\ \A i \in 1 .. Len(d) : t[Len(a) + 1 + Len(b) + Len(c) + i] = d[i]
    /\ \A i \in 1 .. Len(e) : t[Len(a) + 1 + Len(b) + Len(c) + Len(d) + i] = e[i]

\* The texts of a line, one after the other.
LEMMA FiveParts ==
  ASSUME NEW S, NEW x \in S, NEW a \in Seq(S), NEW b \in Seq(S), NEW c \in Seq(S),
         NEW d \in Seq(S), NEW e \in Seq(S)
  PROVE  LaidOut(a \o <<x>> \o b \o c \o d \o e, S, a, x, b, c, d, e)
PROOF
<1> DEFINE t1 == a \o <<x>>
           t2 == t1 \o b
           t3 == t2 \o c
           t4 == t3 \o d
           t5 == t4 \o e
           n1 == Len(a) + 1
           n2 == n1 + Len(b)
           n3 == n2 + Len(c)
           n4 == n3 + Len(d)
<1>0. Len(a) \in Nat /\ Len(b) \in Nat /\ Len(c) \in Nat /\ Len(d) \in Nat /\ Len(e) \in Nat
  BY LenProperties
<1>1. /\ t1 \in Seq(S) /\ Len(t1) = n1 /\ t1[n1] = x
      /\ \A i \in 1 .. Len(a) : t1[i] = a[i]
  OBVIOUS
<1> HIDE DEF t1
<1>2. /\ t2 \in Seq(S) /\ Len(t2) = n2
      /\ \A i \in 1 .. n1 : t2[i] = t1[i]
      /\ \A i \in 1 .. Len(b) : t2[n1 + i] = b[i]
  <2> HIDE DEF n1
  <2>1. /\ t2 \in Seq(S) /\ Len(t2) = Len(t1) + Len(b)
        /\ \A i \in 1 .. Len(t1) : t2[i] = t1[i]
        /\ \A i \in 1 .. Len(b) : t2[Len(t1) + i] = b[i]
    <3>1. t1 \in Seq(S)
      BY <1>1
    <3> QED
      BY <3>1, Joined
  <2> QED
    BY <1>1, <2>1
<1> HIDE DEF t2
<1>3. /\ t3 \in Seq(S) /\ Len(t3) = n3
      /\ \A i \in 1 .. n2 : t3[i] = t2[i]
      /\ \A i \in 1 .. Len(c) : t3[n2 + i] = c[i]
  <2> HIDE DEF n2
  <2>1. /\ t3 \in Seq(S) /\ Len(t3) = Len(t2) + Len(c)
        /\ \A i \in 1 .. Len(t2) : t3[i] = t2[i]
        /\ \A i \in 1 .. Len(c) : t3[Len(t2) + i] = c[i]
    <3>1. t2 \in Seq(S)
      BY <1>2
    <3> QED
      BY <3>1, Joined
  <2> QED
    BY <1>2, <2>1
<1> HIDE DEF t3
<1>4. /\ t4 \in Seq(S) /\ Len(t4) = n4
      /\ \A i \in 1 .. n3 : t4[i] = t3[i]
      /\ \A i \in 1 .. Len(d) : t4[n3 + i] = d[i]
  <2> HIDE DEF n3
  <2>1. /\ t4 \in Seq(S) /\ Len(t4) = Len(t3) + Len(d)
        /\ \A i \in 1 .. Len(t3) : t4[i] = t3[i]
        /\ \A i \in 1 .. Len(d) : t4[Len(t3) + i] = d[i]
    <3>1. t3 \in Seq(S)
      BY <1>3
    <3> QED
      BY <3>1, Joined
  <2> QED
    BY <1>3, <2>1
<1> HIDE DEF t4
<1>5. /\ t5 \in Seq(S) /\ Len(t5) = n4 + Len(e)
      /\ \A i \in 1 .. n4 : t5[i] = t4[i]
      /\ \A i \in 1 .. Len(e) : t5[n4 + i] = e[i]
  <2> HIDE DEF n4
  <2>1. /\ t5 \in Seq(S) /\ Len(t5) = Len(t4) + Len(e)
        /\ \A i \in 1 .. Len(t4) : t5[i] = t4[i]
        /\ \A i \in 1 .. Len(e) : t5[Len(t4) + i] = e[i]
    <3>1. t4 \in Seq(S)
      BY <1>4
    <3> QED
      BY <3>1, Joined
  <2> QED
    BY <1>4, <2>1
<1> HIDE DEF t5
<1>6. t5 = a \o <<x>> \o b \o c \o d \o e
  BY DEF t1, t2, t3, t4, t5
<1>7. /\ \A i \in 1 .. Len(a) : t5[i] = a[i]
      /\ t5[n1] = x
  <2>1. \A i \in 1 .. n1 : i \in 1 .. n2 /\ i \in 1 .. n3 /\ i \in 1 .. n4
    BY <1>0
  <2>2. n1 \in 1 .. n1 /\ \A i \in 1 .. Len(a) : i \in 1 .. n1
    BY <1>0
  <2> HIDE DEF n1, n2, n3, n4
  <2>3. \A i \in 1 .. n1 : t5[i] = t1[i]
    BY <1>2, <1>3, <1>4, <1>5, <2>1
  <2> QED
    BY <1>1, <2>2, <2>3
<1>8. \A i \in 1 .. Len(b) : t5[n1 + i] = b[i]
  <2>1. \A i \in 1 .. Len(b) : n1 + i \in 1 .. n2 /\ n1 + i \in 1 .. n3 /\ n1 + i \in 1 .. n4
    BY <1>0
  <2> HIDE DEF n1, n2, n3, n4
  <2>2. ASSUME NEW i \in 1 .. Len(b) PROVE t5[n1 + i] = b[i]
    <3>1. t5[n1 + i] = t4[n1 + i]
      BY <1>5, <2>1
    <3>2. t4[n1 + i] = t3[n1 + i]
      BY <1>4, <2>1
    <3>3. t3[n1 + i] = t2[n1 + i] /\ t2[n1 + i] = b[i]
      BY <1>2, <1>3, <2>1
    <3> QED
      BY <3>1, <3>2, <3>3
  <2> QED
    BY <2>2
<1>9. \A i \in 1 .. Len(c) : t5[n2 + i] = c[i]
  <2>1. \A i \in 1 .. Len(c) : n2 + i \in 1 .. n3 /\ n2 + i \in 1 .. n4
    BY <1>0
  <2> QED
    BY <1>3, <1>4, <1>5, <2>1
<1>10. \A i \in 1 .. Len(d) : t5[n3 + i] = d[i]
  <2>1. \A i \in 1 .. Len(d) : n3 + i \in 1 .. n4
    BY <1>0
  <2> QED
    BY <1>4, <1>5, <2>1
<1> QED
  BY <1>5, <1>6, <1>7, <1>8, <1>9, <1>10, Zenon DEF LaidOut

\* The parts of a request line, each with its tokens.
Line(verb, scheme, name, path, version) ==
    verb \o <<SP>> \o scheme \o name \o path \o version

Grammar(verb, scheme, name, path, version) ==
    /\ verb \in Seq(Token) /\ scheme \in Seq(Token) /\ name \in Seq(Token)
    /\ path \in Seq(Token) /\ version \in Seq(Token)
    /\ Len(verb) \in Nat \ {0} /\ Len(scheme) \in {0, 3} /\ Len(name) \in Nat
    /\ Len(path) \in Nat /\ Len(version) \in Nat
    /\ \A i \in 1 .. Len(verb) : verb[i] # SP
    /\ Len(scheme) = 3 => /\ scheme[1] \notin {SP, "/", "@"} /\ scheme[2] = "/" /\ scheme[3] = "/"
    /\ \A i \in 1 .. Len(name) : name[i] \notin {SP, "/"}
    /\ Len(path) # 0 => path[1] \in {"/", "?"}
    /\ Len(version) # 0 => version[1] = SP
    /\ verb[1] = "CONNECT" => Len(verb) = 1 /\ Len(scheme) = 0 /\ Len(path) = 0
    /\ verb[1] # "CONNECT" /\ Len(scheme) = 0 => Len(name) = 0

\* A line is laid out as its parts.
LEMMA LineIs ==
  ASSUME NEW verb, NEW scheme, NEW name, NEW path, NEW version,
         Grammar(verb, scheme, name, path, version)
  PROVE  LaidOut(Line(verb, scheme, name, path, version), Token,
                 verb, SP, scheme, name, path, version)
PROOF
<1>1. SP \in Token
  BY DEF Token
<1>2. /\ verb \in Seq(Token) /\ scheme \in Seq(Token) /\ name \in Seq(Token)
      /\ path \in Seq(Token) /\ version \in Seq(Token)
  BY DEF Grammar
<1> QED
  BY <1>1, <1>2, FiveParts DEF Line

\* What the assumption on the requests says of their parts.
LEMMA GrammarOf ==
  ASSUME NEW l, InGrammar(l)
  PROVE  Grammar(l.verb, l.scheme, l.name, l.path, l.version)
PROOF
<1> DEFINE a == l.verb
           b == l.scheme
           c == l.name
           d == l.path
           e == l.version
<1>1. /\ {a, b, c, d, e} \subseteq Seq(STRING)
      /\ a # <<>> /\ \A i \in DOMAIN a : a[i] # SP
      /\ b # <<>> => b = <<Head(b), "/", "/">> /\ Head(b) \notin {SP, "/", "@"}
      /\ \A i \in DOMAIN c : c[i] \notin {SP, "/"}
      /\ d # <<>> => Head(d) \in {"/", "?"}
      /\ e # <<>> => Head(e) = SP
      /\ Head(a) = "CONNECT" => a = <<"CONNECT">> /\ b = <<>> /\ d = <<>>
      /\ Head(a) # "CONNECT" /\ b = <<>> => c = <<>>
  BY DEF InGrammar
<1> SUFFICES Grammar(a, b, c, d, e)
  OBVIOUS
<1> HIDE DEF a, b, c, d, e
<1>2. \A s \in Seq(STRING) : /\ s \in Seq(Token) /\ Len(s) \in Nat /\ DOMAIN s = 1 .. Len(s)
                             /\ Head(s) = s[1]
                             /\ s # <<>> <=> Len(s) # 0
  <2>1. STRING \subseteq Token
    BY DEF Token
  <2>2. ASSUME NEW S, NEW s \in Seq(S)
        PROVE  /\ Len(s) \in Nat /\ DOMAIN s = 1 .. Len(s) /\ Head(s) = s[1]
               /\ s # <<>> <=> Len(s) # 0
    BY <2>2
  <2>3. \A s \in Seq(STRING) : s \in Seq(Token)
    BY <2>1, SeqMonotonic
  <2> QED
    BY <2>2, <2>3
<1>3. Len(b) = 0 \/ (Len(b) = 3 /\ b[1] = Head(b) /\ b[2] = "/" /\ b[3] = "/")
  <2>1. \A x, y, z : /\ Len(<<x, y, z>>) = 3 /\ <<x, y, z>>[1] = x
                     /\ <<x, y, z>>[2] = y /\ <<x, y, z>>[3] = z
    OBVIOUS
  <2>2. b = <<>> \/ b = <<Head(b), "/", "/">>
    BY <1>1
  <2> QED
    BY <1>1, <1>2, <2>1, <2>2
<1>4. Head(a) = "CONNECT" => Len(a) = 1
  <2>1. \A x : Len(<<x>>) = 1
    OBVIOUS
  <2> QED
    BY <1>1, <2>1
<1>5. /\ a \in Seq(STRING) /\ b \in Seq(STRING) /\ c \in Seq(STRING)
      /\ d \in Seq(STRING) /\ e \in Seq(STRING)
  BY <1>1
<1>6. /\ a \in Seq(Token) /\ b \in Seq(Token) /\ c \in Seq(Token)
      /\ d \in Seq(Token) /\ e \in Seq(Token)
      /\ Len(a) \in Nat \ {0} /\ Len(b) \in {0, 3} /\ Len(c) \in Nat
      /\ Len(d) \in Nat /\ Len(e) \in Nat
  BY <1>1, <1>2, <1>3, <1>5
<1>7. /\ \A i \in 1 .. Len(a) : a[i] # SP
      /\ Len(b) = 3 => /\ b[1] \notin {SP, "/", "@"} /\ b[2] = "/" /\ b[3] = "/"
      /\ \A i \in 1 .. Len(c) : c[i] \notin {SP, "/"}
      /\ Len(d) # 0 => d[1] \in {"/", "?"}
      /\ Len(e) # 0 => e[1] = SP
  BY <1>1, <1>2, <1>3, <1>5
<1>8. /\ a[1] = "CONNECT" => Len(a) = 1 /\ Len(b) = 0 /\ Len(d) = 0
      /\ a[1] # "CONNECT" /\ Len(b) = 0 => Len(c) = 0
  BY <1>1, <1>2, <1>4, <1>5
<1> QED
  BY <1>6, <1>7, <1>8 DEF Grammar

\* A text that begins with another begins with its first token.
LEMMA FirstOfPrefix ==
  ASSUME NEW S, NEW t \in Seq(S), NEW u \in Seq(S), u # <<>>, IsPrefix(u, t)
  PROVE  t # <<>> /\ t[1] = u[1]
PROOF
<1>1. Len(u) \in Nat \ {0} /\ Len(t) \in Nat /\ Len(u) <= Len(t)
  BY EmptySeq, LenProperties DEF IsPrefix
<1>2. SubSeq(u, 1, Len(u)) = SubSeq(t, 1, Len(u))
  BY DEF IsPrefix
<1>3. SubSeq(u, 1, Len(u))[1] = u[1] /\ SubSeq(t, 1, Len(u))[1] = t[1]
  BY <1>1, SubSeqProperties
<1>4. t # <<>>
  BY <1>1, EmptySeq
<1> QED
  BY <1>2, <1>3, <1>4

-----------------------------------------------------------------------------
\* What every line starts with.
LEMMA Starts ==
  ASSUME NEW verb, NEW scheme, NEW name, NEW path, NEW version,
         Grammar(verb, scheme, name, path, version),
         NEW t, t = Line(verb, scheme, name, path, version)
  PROVE  /\ Find(t, SP, 1) = Len(verb) + 1
         /\ TargetStart(t) = Len(verb) + 2
         /\ IsConnect(t) <=> verb[1] = "CONNECT"
         /\ IsTransparent(t) => t[Len(verb) + 2] = "/" /\ Len(verb) + 2 <= Len(t)
         /\ IsAbsolute(t) => t[Len(verb) + 2] = "http:" /\ Len(verb) + 2 <= Len(t)
PROOF
<1> DEFINE v == Len(verb)
<1>1. /\ t \in Seq(Token) /\ v \in Nat \ {0} /\ Len(t) \in Nat /\ v + 1 <= Len(t)
      /\ \A i \in 1 .. v : t[i] = verb[i]
      /\ t[v + 1] = SP
  <2>1. /\ t \in Seq(Token)
        /\ Len(t) = Len(verb) + 1 + Len(scheme) + Len(name) + Len(path) + Len(version)
        /\ \A i \in 1 .. Len(verb) : t[i] = verb[i]
        /\ t[Len(verb) + 1] = SP
    BY LineIs DEF LaidOut
  <2>2. /\ v \in Nat \ {0} /\ Len(scheme) \in Nat /\ Len(name) \in Nat
        /\ Len(path) \in Nat /\ Len(version) \in Nat
    BY DEF Grammar
  <2>3. Len(t) \in Nat /\ v + 1 <= Len(t)
    BY <2>1, <2>2
  <2> QED
    BY <2>1, <2>2, <2>3
<1>2. \A i \in 1 .. v : verb[i] # SP
  BY DEF Grammar
<1> HIDE DEF v
<1>4. Find(t, SP, 1) = v + 1
  <2>1. v + 1 \in 1 .. Len(t) /\ \A i \in 1 .. ((v + 1) - 1) : t[i] # SP
    BY <1>1, <1>2
  <2> QED
    BY <1>1, <2>1, FoundAt
<1>5. TargetStart(t) = v + 2
  BY <1>1, <1>4 DEF TargetStart
<1>6. IsConnect(t) <=> verb[1] = "CONNECT"
  BY <1>1 DEF IsConnect
<1>7. /\ Target(t) \in Seq(Token)
      /\ Target(t) # <<>> => Target(t)[1] = t[v + 2] /\ v + 2 <= Len(t)
  <2>1. Target(t) = SubSeq(t, v + 2, Len(t))
    BY <1>5 DEF Target, From
  <2>2. \A i \in (v + 2) .. Len(t) : t[i] \in Token
    <3>1. \A i \in (v + 2) .. Len(t) : i \in 1 .. Len(t)
      BY <1>1
    <3> QED
      BY <1>1, <3>1, ElementOfSeq
  <2>3. /\ Target(t) \in Seq(Token)
        /\ Len(Target(t)) = IF v + 2 <= Len(t) THEN Len(t) - (v + 2) + 1 ELSE 0
        /\ \A i \in 1 .. (Len(t) - (v + 2) + 1) : Target(t)[i] = t[(v + 2) + i - 1]
    BY <1>1, <2>1, <2>2, SubSeqProperties
  <2>4. ASSUME Target(t) # <<>> PROVE Target(t)[1] = t[v + 2] /\ v + 2 <= Len(t)
    <3>1. v + 2 <= Len(t)
      BY <2>3, <2>4, EmptySeq
    <3>2. 1 \in 1 .. (Len(t) - (v + 2) + 1) /\ (v + 2) + 1 - 1 = v + 2
      BY <1>1, <3>1
    <3> QED
      BY <2>3, <3>1, <3>2
  <2> QED
    BY <2>3, <2>4
<1>8. IsTransparent(t) => t[v + 2] = "/" /\ v + 2 <= Len(t)
  <2> SUFFICES ASSUME IsTransparent(t) PROVE t[v + 2] = "/" /\ v + 2 <= Len(t)
    OBVIOUS
  <2>1. "/" \in Token
    BY DEF Token
  <2>2. <<"/">> \in Seq(Token) /\ <<"/">>[1] = "/" /\ <<"/">> # <<>>
    BY <2>1, Single, EmptySeq
  <2>3. IsPrefix(<<"/">>, Target(t))
    BY DEF IsTransparent
  <2> QED
    BY <1>7, <2>2, <2>3, FirstOfPrefix
<1>9. IsAbsolute(t) => t[v + 2] = "http:" /\ v + 2 <= Len(t)
  <2> SUFFICES ASSUME IsAbsolute(t) PROVE t[v + 2] = "http:" /\ v + 2 <= Len(t)
    OBVIOUS
  <2> DEFINE T == Token \cup {"http:"}
             u == <<"http:", "/", "/">>
  <2>1. /\ u \in Seq(T) /\ u[1] = "http:" /\ u # <<>>
    <3>1. "http:" \in T /\ "/" \in T
      BY DEF Token
    <3>2. \A x, y, z \in T : <<x, y, z>> \in Seq(T) /\ <<x, y, z>>[1] = x /\ <<x, y, z>> # <<>>
      OBVIOUS
    <3> QED
      BY <3>1, <3>2
  <2>2. IsPrefix(u, Target(t))
    BY DEF IsAbsolute
  <2>3. Target(t) \in Seq(T)
    BY <1>7, SeqMonotonic
  <2> HIDE DEF u, T
  <2> QED
    BY <1>7, <2>1, <2>2, <2>3, FirstOfPrefix
<1> QED
  BY <1>4, <1>5, <1>6, <1>8, <1>9 DEF v

\* Where the name of an absolute target starts, and what the first space and the
\* first slash behind that are.
LEMMA AbsoluteParts ==
  ASSUME NEW verb, NEW scheme, NEW name, NEW path, NEW version,
         Grammar(verb, scheme, name, path, version), Len(scheme) = 3,
         NEW t, t = Line(verb, scheme, name, path, version), ~IsMalformed(t)
  PROVE  LET v == Len(verb) + 4
             q == v + Len(name) + 1
             space == SpaceAfterName(t)
             slash == SlashAfterName(t)
         IN  /\ ~IsConnect(t) /\ ~IsTransparent(t) /\ NameStart(t) = v + 1
             /\ space \in q .. Len(t) /\ slash \in q .. Len(t)
             /\ t[space] = SP /\ t[slash] = "/" /\ slash # v + 1
             /\ Len(path) = 0 => space = q /\ slash # q
             /\ Len(path) # 0 /\ path[1] = "/" => slash = q /\ space # q
             /\ Len(path) # 0 /\ path[1] = "?" => /\ slash # q /\ space # q
                                                 /\ space <= q + Len(path)
PROOF
<1> DEFINE v == Len(verb) + 4
           n == Len(name)
           p == Len(path)
           w == Len(version)
           q == v + n + 1
           space == SpaceAfterName(t)
           slash == SlashAfterName(t)
<1>1. /\ v \in Nat /\ n \in Nat /\ p \in Nat /\ w \in Nat /\ Len(verb) \in Nat
      /\ \A i \in 1 .. n : name[i] \notin {SP, "/"}
      /\ p # 0 => path[1] \in {"/", "?"}
      /\ w # 0 => version[1] = SP
      /\ verb[1] # "CONNECT" /\ scheme[1] # "/"
  BY DEF Grammar
<1>2. /\ t \in Seq(Token) /\ Len(t) = v + n + p + w
      /\ t[Len(verb) + 2] = scheme[1]
      /\ \A i \in 1 .. n : t[v + i] = name[i]
      /\ p # 0 => t[q] = path[1]
      /\ w # 0 => t[q + p] = version[1]
  <2>1. /\ t \in Seq(Token)
        /\ Len(t) = Len(verb) + 1 + Len(scheme) + n + p + w
        /\ \A i \in 1 .. Len(scheme) : t[Len(verb) + 1 + i] = scheme[i]
        /\ \A i \in 1 .. n : t[Len(verb) + 1 + Len(scheme) + i] = name[i]
        /\ \A i \in 1 .. p : t[Len(verb) + 1 + Len(scheme) + n + i] = path[i]
        /\ \A i \in 1 .. w : t[Len(verb) + 1 + Len(scheme) + n + p + i] = version[i]
    <3>1. LaidOut(t, Token, verb, SP, scheme, name, path, version)
      BY LineIs
    <3> QED
      BY <3>1, Zenon DEF LaidOut
  <2> HIDE DEF n, p, w
  <2>2. /\ Len(verb) + 1 + Len(scheme) = v /\ Len(verb) + 2 = Len(verb) + 1 + 1
        /\ q = v + n + 1 /\ q + p = v + n + p + 1
    BY <1>1
  <2>3. p # 0 => 1 \in 1 .. p
    BY <1>1
  <2>4. w # 0 => 1 \in 1 .. w
    BY <1>1
  <2> HIDE DEF v, q
  <2>5. t \in Seq(Token) /\ Len(t) = v + n + p + w /\ \A i \in 1 .. n : t[v + i] = name[i]
    BY <2>1, <2>2
  <2>6. t[Len(verb) + 2] = scheme[1]
    BY <2>1, <2>2
  <2>7. p # 0 => t[q] = path[1]
    BY <2>1, <2>2, <2>3
  <2>8. w # 0 => t[q + p] = version[1]
    BY <2>1, <2>2, <2>4
  <2> QED
    BY <2>5, <2>6, <2>7, <2>8
<1>3. ~IsConnect(t) /\ ~IsTransparent(t)
  BY <1>1, <1>2, Starts
<1>4. IsAbsolute(t) /\ space # Nowhere /\ slash # Nowhere /\ slash # NameStart(t)
  BY <1>3 DEF IsMalformed
<1>5. NameStart(t) = v + 1
  <2>1. TargetStart(t) = Len(verb) + 2
    BY Starts
  <2> QED
    BY <1>1, <1>4, <2>1 DEF NameStart
<1> USE <1>1
<1> HIDE DEF n, p, w, v
<1>6. Len(t) \in Nat
  BY <1>2
<1>7. SP # "/"
  BY Zenon DEF SP
<1>8. space \in (v + 1) .. Len(t) /\ t[space] = SP /\ \A i \in (v + 1) .. (space - 1) : t[i] # SP
  <2>1. space = Find(t, SP, v + 1)
    BY <1>5 DEF SpaceAfterName
  <2> QED
    BY <1>4, <1>6, <2>1, FindIs
<1>9. slash \in (v + 1) .. Len(t) /\ t[slash] = "/" /\ \A i \in (v + 1) .. (slash - 1) : t[i] # "/"
  <2>1. slash = Find(t, "/", v + 1)
    BY <1>5 DEF SlashAfterName
  <2> QED
    BY <1>4, <1>6, <2>1, FindIs
<1> HIDE DEF space, slash
<1>10. \A i \in (v + 1) .. (q - 1) : t[i] \notin {SP, "/"}
  <2> SUFFICES ASSUME NEW i \in (v + 1) .. (q - 1) PROVE t[i] \notin {SP, "/"}
    OBVIOUS
  <2>1. i - v \in 1 .. n /\ v + (i - v) = i
    OBVIOUS
  <2> QED
    BY <1>2, <2>1
<1>11. space \in q .. Len(t) /\ slash \in q .. Len(t)
  BY <1>6, <1>8, <1>9, <1>10
<1>12. ASSUME p = 0 PROVE space = q /\ slash # q
  <2>1. w # 0 /\ t[q] = SP
    BY <1>2, <1>11, <1>12
  <2>2. space = q
    BY <1>8, <1>11, <2>1
  <2> QED
    BY <1>7, <1>9, <2>1, <2>2
<1>13. ASSUME p # 0, path[1] = "/" PROVE slash = q /\ space # q
  <2>1. t[q] = "/"
    BY <1>2, <1>13
  <2>2. slash = q
    BY <1>9, <1>11, <2>1
  <2> QED
    BY <1>7, <1>8, <2>1, <2>2
<1>14. ASSUME p # 0, path[1] = "?" PROVE slash # q /\ space # q /\ space <= q + p
  <2>1. t[q] = "?"
    BY <1>2, <1>14
  <2>2. "?" # SP /\ "?" # "/"
    BY Zenon DEF SP
  <2>3. space <= q + p
    <3>1. CASE w = 0
      BY <1>2, <1>8, <3>1
    <3>2. CASE w # 0
      <4>1. t[q + p] = SP
        BY <1>2, <3>2
      <4>2. ~(q + p < space)
        BY <1>8, <4>1
      <4> QED
        BY <1>8, <4>2
    <3> QED
      BY <3>1, <3>2
  <2> QED
    BY <1>8, <1>9, <2>1, <2>2, <2>3
<1> QED
  BY <1>3, <1>4, <1>5, <1>8, <1>9, <1>11, <1>12, <1>13, <1>14 DEF v, n, p, space, slash

\* A name and something of the query after it.
IsWithQuery(su, name, path) ==
    \E k \in 1 .. Len(path) : su = name \o SubSeq(path, 1, k)

\* The name that is cut out of an absolute target.
LEMMA AbsoluteName ==
  ASSUME NEW verb, NEW scheme, NEW name, NEW path, NEW version,
         Grammar(verb, scheme, name, path, version), Len(scheme) = 3,
         NEW t, t = Line(verb, scheme, name, path, version), ~IsMalformed(t)
  PROVE  /\ Len(path) # 0 /\ path[1] = "?" => IsWithQuery(ServerName(t), name, path)
         /\ ~(Len(path) # 0 /\ path[1] = "?") => ServerName(t) = name
PROOF
<1> DEFINE v == Len(verb) + 4
           n == Len(name)
           p == Len(path)
           q == v + n + 1
           space == SpaceAfterName(t)
           slash == SlashAfterName(t)
<1>1. /\ v \in Nat /\ n \in Nat /\ p \in Nat /\ Len(verb) \in Nat
      /\ name \in Seq(Token) /\ path \in Seq(Token)
      /\ p # 0 => path[1] \in {"/", "?"}
  BY DEF Grammar
<1>2. /\ ~IsConnect(t) /\ NameStart(t) = v + 1
      /\ space \in q .. Len(t) /\ slash \in q .. Len(t)
      /\ p = 0 => space = q /\ slash # q
      /\ p # 0 /\ path[1] = "/" => slash = q /\ space # q
      /\ p # 0 /\ path[1] = "?" => slash # q /\ space # q /\ space <= q + p
  BY AbsoluteParts
<1>3. /\ t \in Seq(Token) /\ Len(t) \in Nat
      /\ \A i \in 1 .. n : t[v + i] = name[i]
      /\ \A i \in 1 .. p : t[v + n + i] = path[i]
  <2>1. LaidOut(t, Token, verb, SP, scheme, name, path, version)
    BY LineIs
  <2>2. /\ t \in Seq(Token)
        /\ \A i \in 1 .. n : t[Len(verb) + 1 + Len(scheme) + i] = name[i]
        /\ \A i \in 1 .. p : t[Len(verb) + 1 + Len(scheme) + n + i] = path[i]
    BY <2>1, Zenon DEF LaidOut
  <2>3. Len(verb) + 1 + Len(scheme) = v
    BY <1>1
  <2> HIDE DEF v
  <2> QED
    BY <2>2, <2>3
<1> HIDE DEF v, n, p, space, slash
<1>4. NameEnd(t) = IF slash > space THEN space ELSE slash
  BY <1>2 DEF NameEnd, space, slash
<1>5. ServerName(t) = SubSeq(t, v + 1, NameEnd(t) - 1)
  BY <1>2 DEF ServerName
<1>6. CASE p # 0 /\ path[1] = "?"
  <2> DEFINE k == NameEnd(t) - q
             u == SubSeq(path, 1, k)
  <2>1. k \in 1 .. p /\ NameEnd(t) <= Len(t) /\ NameEnd(t) \in Nat
    BY <1>1, <1>2, <1>3, <1>4, <1>6
  <2> HIDE DEF k
  <2>2. /\ u \in Seq(Token) /\ Len(u) = k
        /\ \A i \in 1 .. k : u[i] = path[i]
    <3>1. \A i \in 1 .. k : path[i] \in Token
      BY <1>1, <2>1, ElementOfSeq DEF p
    <3> QED
      BY <2>1, <3>1, SubSeqProperties
  <2> HIDE DEF u
  <2>3. /\ name \o u \in Seq(Token) /\ Len(name \o u) = n + k
        /\ \A i \in 1 .. n : (name \o u)[i] = name[i]
        /\ \A i \in 1 .. k : (name \o u)[n + i] = u[i]
    <3>1. /\ name \o u \in Seq(Token) /\ Len(name \o u) = Len(name) + Len(u)
          /\ \A i \in 1 .. Len(name) : (name \o u)[i] = name[i]
          /\ \A i \in 1 .. Len(u) : (name \o u)[Len(name) + i] = u[i]
      <4>1. name \in Seq(Token) /\ u \in Seq(Token)
        BY <1>1, <2>2
      <4> QED
        BY <4>1, Joined
    <3> QED
      BY <2>2, <3>1 DEF n
  <2>4. \A i \in 1 .. (n + k) : t[v + i] = (name \o u)[i]
    <3> SUFFICES ASSUME NEW i \in 1 .. (n + k) PROVE t[v + i] = (name \o u)[i]
      OBVIOUS
    <3>1. CASE i <= n
      BY <1>1, <1>3, <2>1, <2>3, <3>1
    <3>2. CASE ~(i <= n)
      <4>1. i - n \in 1 .. k /\ i - n \in 1 .. p /\ v + n + (i - n) = v + i /\ n + (i - n) = i
        BY <1>1, <2>1, <3>2
      <4>2. t[v + i] = path[i - n] /\ (name \o u)[i] = u[i - n]
        BY <1>3, <2>3, <4>1
      <4> QED
        BY <2>2, <4>1, <4>2
    <3> QED
      BY <3>1, <3>2
  <2>5. v + (n + k) <= Len(t) /\ v + (n + k) = NameEnd(t) - 1
    <3> DEFINE end == NameEnd(t)
               len == Len(t)
    <3>1. end \in Nat /\ len \in Nat /\ end <= len /\ k = end - q
      BY <1>3, <2>1 DEF k
    <3> HIDE DEF end, len
    <3>2. v + (n + k) = end - 1
      BY <1>1, <3>1
    <3>3. v + (n + k) <= len
      BY <3>1, <3>2
    <3> QED
      BY <3>2, <3>3 DEF end, len
  <2>6. SubSeq(t, v + 1, v + Len(name \o u)) = name \o u
    <3> DEFINE x == name \o u
    <3>1. x \in Seq(Token) /\ Len(x) = n + k
      BY <2>3
    <3>2. v + Len(x) <= Len(t) /\ \A i \in 1 .. Len(x) : t[v + i] = x[i]
      BY <2>4, <2>5, <3>1
    <3> HIDE DEF x
    <3>3. SubSeq(t, v + 1, v + Len(x)) = x
      BY <1>1, <1>3, <3>1, <3>2, Piece
    <3> QED
      BY <3>3 DEF x
  <2>7. ServerName(t) = name \o u
    BY <1>5, <2>3, <2>5, <2>6
  <2> QED
    BY <1>6, <2>1, <2>7 DEF u, p, IsWithQuery
<1>7. CASE ~(p # 0 /\ path[1] = "?")
  <2>1. NameEnd(t) = q /\ q <= Len(t)
    BY <1>1, <1>2, <1>3, <1>4, <1>7
  <2>2. v + n <= Len(t) /\ NameEnd(t) - 1 = v + n
    BY <1>1, <1>3, <2>1
  <2>3. SubSeq(t, v + 1, v + Len(name)) = name
    BY <1>1, <1>3, <2>2, Piece DEF n
  <2> QED
    BY <1>5, <1>7, <2>2, <2>3 DEF n, p
<1> QED
  BY <1>6, <1>7

\* The line that a server would get directly.
Directly(verb, path, version) ==
    verb \o <<SP>> \o (IF Len(path) = 0 THEN <<"/">> ELSE path) \o version

\* The line that the server gets for an absolute target.
LEMMA AbsoluteRewritten ==
  ASSUME NEW verb, NEW scheme, NEW name, NEW path, NEW version,
         Grammar(verb, scheme, name, path, version), Len(scheme) = 3,
         NEW t, t = Line(verb, scheme, name, path, version), ~IsMalformed(t),
         Len(path) = 0 \/ path[1] = "/"
  PROVE  Rewritten(t) = Directly(verb, path, version)
PROOF
<1> DEFINE v == Len(verb) + 4
           n == Len(name)
           p == Len(path)
           w == Len(version)
           q == v + n + 1
           space == SpaceAfterName(t)
           slash == SlashAfterName(t)
           cut == IF p = 0 THEN q - 1 ELSE q
           r == [t EXCEPT ![cut] = "/"]
<1>1. /\ v \in Nat /\ n \in Nat /\ p \in Nat /\ w \in Nat /\ Len(verb) \in Nat \ {0}
      /\ verb \in Seq(Token) /\ path \in Seq(Token) /\ version \in Seq(Token)
  BY DEF Grammar
<1>2. /\ ~IsConnect(t) /\ NameStart(t) = v + 1
      /\ space \in q .. Len(t) /\ slash \in q .. Len(t)
      /\ p = 0 => space = q /\ slash # q
      /\ p # 0 => slash = q /\ space # q
  BY AbsoluteParts
<1>3. /\ t \in Seq(Token) /\ Len(t) = v + n + p + w
      /\ \A i \in 1 .. Len(verb) : t[i] = verb[i]
      /\ t[Len(verb) + 1] = SP
      /\ \A i \in 1 .. p : t[v + n + i] = path[i]
      /\ \A i \in 1 .. w : t[v + n + p + i] = version[i]
  <2>1. LaidOut(t, Token, verb, SP, scheme, name, path, version)
    BY LineIs
  <2>2. /\ t \in Seq(Token)
        /\ Len(t) = Len(verb) + 1 + Len(scheme) + n + p + w
        /\ \A i \in 1 .. Len(verb) : t[i] = verb[i]
        /\ t[Len(verb) + 1] = SP
        /\ \A i \in 1 .. p : t[Len(verb) + 1 + Len(scheme) + n + i] = path[i]
        /\ \A i \in 1 .. w : t[Len(verb) + 1 + Len(scheme) + n + p + i] = version[i]
    BY <2>1, Zenon DEF LaidOut
  <2>3. Len(verb) + 1 + Len(scheme) = v
    BY <1>1
  <2> HIDE DEF v
  <2> QED
    BY <2>2, <2>3
<1>4. TargetStart(t) = Len(verb) + 2
  BY Starts
<1>5. Len(verb) + 3 < v /\ Len(verb) + 2 \in Nat /\ Len(verb) + 1 \in Nat
  BY <1>1
<1> HIDE DEF v, n, p, w, space, slash, q
<1>6. q = v + n + 1 /\ q \in Nat /\ Len(t) \in Nat
  BY <1>1, <1>3 DEF q
<1>7. NameEnd(t) = q
  <2>1. NameEnd(t) = IF slash > space THEN space ELSE slash
    BY <1>2 DEF NameEnd, space, slash
  <2> QED
    BY <1>1, <1>2, <1>6, <2>1
<1>8. /\ cut \in 1 .. Len(t) /\ cut \in Nat
      /\ IF NameEnd(t) = SpaceAfterName(t) THEN cut = NameEnd(t) - 1 ELSE cut = NameEnd(t)
  BY <1>1, <1>2, <1>5, <1>6, <1>7 DEF space
<1> HIDE DEF cut
<1>9. Rewritten(t) = Before(t, Len(verb) + 2) \o From(r, cut)
  BY <1>4, <1>8 DEF Rewritten
<1>10. Before(t, Len(verb) + 2) = verb \o <<SP>>
  <2>1. SP \in Token
    BY DEF Token
  <2>2. /\ verb \o <<SP>> \in Seq(Token) /\ Len(verb \o <<SP>>) = Len(verb) + 1
        /\ \A i \in 1 .. Len(verb) : (verb \o <<SP>>)[i] = verb[i]
        /\ (verb \o <<SP>>)[Len(verb) + 1] = SP
    BY <1>1, <2>1
  <2>3. \A i \in 1 .. (Len(verb) + 1) : t[0 + i] = (verb \o <<SP>>)[i]
    BY <1>1, <1>3, <2>2
  <2>4. 0 + (Len(verb) + 1) <= Len(t)
    BY <1>1, <1>5, <1>6, <1>8, <1>2
  <2>5. SubSeq(t, 0 + 1, 0 + Len(verb \o <<SP>>)) = verb \o <<SP>>
    BY <1>3, <2>2, <2>3, <2>4, Piece
  <2>6. Before(t, Len(verb) + 2) = SubSeq(t, 1, Len(verb) + 1)
    BY <1>1 DEF Before, Nowhere
  <2> QED
    BY <1>1, <2>2, <2>5, <2>6
<1>11. /\ r \in Seq(Token) /\ Len(r) = Len(t)
       /\ r[cut] = "/"
       /\ \A i \in 1 .. Len(t) : i # cut => r[i] = t[i]
  <2>1. "/" \in Token
    BY DEF Token
  <2> QED
    BY <1>3, <1>8, <2>1, ExceptSeq
<1> DEFINE x == IF p = 0 THEN <<"/">> ELSE path
<1>12. /\ x \in Seq(Token) /\ Len(x) = (IF p = 0 THEN 1 ELSE p)
       /\ x[1] = "/"
       /\ p # 0 => x = path
  <2>1. "/" \in Token
    BY DEF Token
  <2>2. <<"/">> \in Seq(Token) /\ Len(<<"/">>) = 1 /\ <<"/">>[1] = "/"
    BY <2>1, Single
  <2> QED
    BY <1>1, <2>2 DEF p
<1>13. r \in Seq(Token) /\ cut - 1 \in Nat
  BY <1>8, <1>11
<1> HIDE DEF r, x
<1>14. cut = (IF p = 0 THEN v + n ELSE v + n + 1)
  BY <1>1, <1>6 DEF cut
<1>15. \A i \in 1 .. Len(x) : r[cut - 1 + i] = x[i]
  <2> SUFFICES ASSUME NEW i \in 1 .. Len(x) PROVE r[cut - 1 + i] = x[i]
    OBVIOUS
  <2>1. CASE i = 1
    BY <1>8, <1>11, <1>12, <2>1
  <2>2. CASE i # 1
    <3>1. p # 0 /\ i \in 1 .. p /\ cut - 1 + i = v + n + i /\ v + n + i \in 1 .. Len(t)
          /\ v + n + i # cut
      BY <1>1, <1>3, <1>12, <1>14, <2>2
    <3> QED
      BY <1>3, <1>11, <1>12, <3>1
  <2> QED
    BY <2>1, <2>2
<1>16. \A i \in 1 .. w : r[cut - 1 + Len(x) + i] = version[i]
  <2> SUFFICES ASSUME NEW i \in 1 .. w PROVE r[cut - 1 + Len(x) + i] = version[i]
    OBVIOUS
  <2>1. cut - 1 + Len(x) + i = v + n + p + i /\ v + n + p + i \in 1 .. Len(t)
        /\ v + n + p + i # cut
    BY <1>1, <1>3, <1>12, <1>14
  <2> QED
    BY <1>3, <1>11, <2>1
<1>17. From(r, cut) = x \o version
  <2> DEFINE u == x \o version
  <2>1. /\ u \in Seq(Token) /\ Len(u) = Len(x) + w
        /\ \A i \in 1 .. Len(x) : u[i] = x[i]
        /\ \A i \in 1 .. w : u[Len(x) + i] = version[i]
    <3>1. x \in Seq(Token) /\ version \in Seq(Token)
      BY <1>1, <1>12
    <3>2. /\ u \in Seq(Token) /\ Len(u) = Len(x) + Len(version)
          /\ \A i \in 1 .. Len(x) : u[i] = x[i]
          /\ \A i \in 1 .. Len(version) : u[Len(x) + i] = version[i]
      BY <3>1, Joined
    <3> QED
      BY <3>2 DEF w
  <2> HIDE DEF u
  <2>2. \A i \in 1 .. Len(u) : r[cut - 1 + i] = u[i]
    <3> SUFFICES ASSUME NEW i \in 1 .. Len(u) PROVE r[cut - 1 + i] = u[i]
      OBVIOUS
    <3>1. Len(x) \in Nat
      BY <1>1, <1>12
    <3>2. CASE i <= Len(x)
      BY <1>15, <2>1, <3>1, <3>2
    <3>3. CASE ~(i <= Len(x))
      <4>1. i - Len(x) \in 1 .. w /\ Len(x) + (i - Len(x)) = i
            /\ cut - 1 + Len(x) + (i - Len(x)) = cut - 1 + i
        BY <1>1, <1>8, <2>1, <3>1, <3>3
      <4> QED
        BY <1>16, <2>1, <4>1
    <3> QED
      BY <3>2, <3>3
  <2>3. cut - 1 + Len(u) = Len(r)
    BY <1>1, <1>3, <1>11, <1>12, <1>14, <2>1
  <2>4. SubSeq(r, (cut - 1) + 1, (cut - 1) + Len(u)) = u
    <3>1. u \in Seq(Token) /\ (cut - 1) + Len(u) <= Len(r)
      BY <1>6, <1>11, <2>1, <2>3
    <3> QED
      BY <1>13, <2>2, <3>1, Piece
  <2>5. From(r, cut) = SubSeq(r, cut, Len(r)) /\ (cut - 1) + 1 = cut
    BY <1>8 DEF From
  <2> QED
    BY <2>3, <2>4, <2>5 DEF u
<1>18. (verb \o <<SP>>) \o (x \o version) = ((verb \o <<SP>>) \o x) \o version
  <2>1. verb \o <<SP>> \in Seq(Token)
    <3>1. SP \in Token
      BY DEF Token
    <3> QED
      BY <1>1, <3>1
  <2>2. x \in Seq(Token) /\ version \in Seq(Token)
    BY <1>1, <1>12
  <2> DEFINE z == verb \o <<SP>>
  <2>3. z \in Seq(Token)
    BY <2>1
  <2> HIDE DEF z
  <2>4. (z \o x) \o version = z \o (x \o version)
    BY <2>2, <2>3, Regrouped
  <2> QED
    BY <2>4 DEF z
<1> QED
  BY <1>9, <1>10, <1>17, <1>18 DEF Directly, x, p

\* What the name in a CONNECT is.
LEMMA ConnectParts ==
  ASSUME NEW verb, NEW scheme, NEW name, NEW path, NEW version,
         Grammar(verb, scheme, name, path, version), verb[1] = "CONNECT",
         NEW t, t = Line(verb, scheme, name, path, version), ~IsMalformed(t)
  PROVE  /\ IsConnect(t) /\ ~IsTransparent(t)
         /\ NameStart(t) = 3 /\ Len(name) # 0 /\ t[3] = name[1]
         /\ ServerName(t) = name
PROOF
<1> DEFINE n == Len(name)
           w == Len(version)
           space == SpaceAfterName(t)
<1>1. /\ n \in Nat /\ w \in Nat /\ name \in Seq(Token)
      /\ Len(verb) = 1 /\ Len(scheme) = 0 /\ Len(path) = 0
      /\ \A i \in 1 .. n : name[i] \notin {SP, "/"}
      /\ w # 0 => version[1] = SP
  BY DEF Grammar
<1>2. /\ t \in Seq(Token) /\ Len(t) = 2 + n + w
      /\ \A i \in 1 .. n : t[2 + i] = name[i]
      /\ w # 0 => t[3 + n] = version[1]
  <2>1. LaidOut(t, Token, verb, SP, scheme, name, path, version)
    BY LineIs
  <2>2. /\ t \in Seq(Token)
        /\ Len(t) = Len(verb) + 1 + Len(scheme) + n + Len(path) + w
        /\ \A i \in 1 .. n : t[Len(verb) + 1 + Len(scheme) + i] = name[i]
        /\ \A i \in 1 .. w : t[Len(verb) + 1 + Len(scheme) + n + Len(path) + i] = version[i]
    BY <2>1, Zenon DEF LaidOut
  <2> HIDE DEF n, w
  <2>3. Len(verb) + 1 + Len(scheme) = 2
    BY <1>1
  <2>4. ASSUME w # 0 PROVE t[3 + n] = version[1]
    <3>1. 1 \in 1 .. w /\ Len(verb) + 1 + Len(scheme) + n + Len(path) + 1 = 3 + n
      BY <1>1, <2>4
    <3> QED
      BY <2>2, <3>1
  <2>5. Len(t) = 2 + n + w
    BY <1>1, <2>2
  <2> QED
    BY <2>2, <2>3, <2>4, <2>5
<1>3. IsConnect(t) /\ TargetStart(t) = 3
  <2>1. IsConnect(t) /\ TargetStart(t) = Len(verb) + 2
    BY Starts
  <2> QED
    BY <1>1, <2>1
<1>4. ~IsTransparent(t) /\ ~IsAbsolute(t)
  BY <1>3 DEF IsTransparent, IsAbsolute
<1>5. NameStart(t) = 3
  BY <1>3, <1>4 DEF NameStart
<1>6. space \notin {Nowhere, 3}
  BY <1>3, <1>5 DEF IsMalformed
<1> HIDE DEF n, w
<1>7. Len(t) \in Nat
  BY <1>1, <1>2
<1>8. space \in 3 .. Len(t) /\ t[space] = SP /\ \A i \in 3 .. (space - 1) : t[i] # SP
  <2>1. space = Find(t, SP, 3)
    BY <1>5 DEF SpaceAfterName
  <2> QED
    BY <1>6, <1>7, <2>1, FindIs
<1> HIDE DEF space
<1>9. space = 3 + n
  <2>1. \A i \in 3 .. (2 + n) : t[i] # SP
    <3> SUFFICES ASSUME NEW i \in 3 .. (2 + n) PROVE t[i] # SP
      OBVIOUS
    <3>1. i - 2 \in 1 .. n /\ 2 + (i - 2) = i
      BY <1>1
    <3>2. t[2 + (i - 2)] = name[i - 2] /\ name[i - 2] # SP
      BY <1>1, <1>2, <3>1
    <3> QED
      BY <3>1, <3>2
  <2>2. ~(space <= 2 + n)
    BY <1>1, <1>8, <2>1
  <2>3. w # 0
    BY <1>1, <1>2, <1>8, <2>2
  <2>4. t[3 + n] = SP
    BY <1>1, <1>2, <2>3
  <2> QED
    BY <1>1, <1>8, <2>2, <2>4
<1>10. n # 0
  BY <1>1, <1>6, <1>9
<1>11. ServerName(t) = SubSeq(t, 2 + 1, 2 + n)
  <2>1. NameEnd(t) = 3 + n
    BY <1>3, <1>9 DEF NameEnd, space
  <2>2. NameStart(t) = 2 + 1 /\ NameEnd(t) - 1 = 2 + n
    BY <1>1, <1>5, <2>1
  <2> QED
    BY <2>2, Zenon DEF ServerName
<1>12. SubSeq(t, 2 + 1, 2 + n) = name
  <2>1. 2 + Len(name) <= Len(t) /\ \A i \in 1 .. Len(name) : t[2 + i] = name[i]
    BY <1>1, <1>2 DEF n
  <2> QED
    BY <1>1, <1>2, <2>1, Piece DEF n
<1>13. t[3] = name[1]
  <2>1. 1 \in 1 .. n
    BY <1>1, <1>10
  <2> QED
    BY <1>2, <2>1
<1> QED
  BY <1>3, <1>4, <1>5, <1>10, <1>11, <1>12, <1>13 DEF n

\* A line that is neither: a path alone.
LEMMA TransparentParts ==
  ASSUME NEW verb, NEW scheme, NEW name, NEW path, NEW version,
         Grammar(verb, scheme, name, path, version),
         verb[1] # "CONNECT", Len(scheme) = 0,
         NEW t, t = Line(verb, scheme, name, path, version), ~IsMalformed(t)
  PROVE  IsTransparent(t)
PROOF
<1> SUFFICES ASSUME IsAbsolute(t) PROVE FALSE
  <2>1. ~IsConnect(t)
    BY Starts
  <2> QED
    BY <2>1 DEF IsMalformed
<1> DEFINE v == Len(verb)
           p == Len(path)
           w == Len(version)
<1>1. /\ v \in Nat /\ p \in Nat /\ w \in Nat /\ Len(name) = 0
      /\ p # 0 => path[1] \in {"/", "?"}
      /\ w # 0 => version[1] = SP
  BY DEF Grammar
<1>2. t[v + 2] = "http:" /\ v + 2 <= Len(t)
  BY Starts
<1>3. /\ Len(t) = v + 1 + p + w
      /\ \A i \in 1 .. p : t[v + 1 + i] = path[i]
      /\ \A i \in 1 .. w : t[v + 1 + p + i] = version[i]
  <2>1. LaidOut(t, Token, verb, SP, scheme, name, path, version)
    BY LineIs
  <2>2. /\ Len(t) = v + 1 + Len(scheme) + Len(name) + p + w
        /\ \A i \in 1 .. p : t[v + 1 + Len(scheme) + Len(name) + i] = path[i]
        /\ \A i \in 1 .. w : t[v + 1 + Len(scheme) + Len(name) + p + i] = version[i]
    BY <2>1, Zenon DEF LaidOut
  <2>3. v + 1 + Len(scheme) + Len(name) = v + 1
    BY <1>1
  <2> HIDE DEF v
  <2> QED
    BY <2>2, <2>3
<1> HIDE DEF v, p, w
<1>4. CASE p # 0
  <2>1. 1 \in 1 .. p /\ v + 1 + 1 = v + 2
    BY <1>1, <1>4
  <2> QED
    BY <1>1, <1>2, <1>3, <1>4, <2>1
<1>5. CASE p = 0
  <2>1. 1 \in 1 .. w /\ w # 0 /\ v + 1 + p + 1 = v + 2
    BY <1>1, <1>2, <1>3, <1>5
  <2>2. "http:" # SP
    BY Zenon DEF SP
  <2> QED
    BY <1>1, <1>2, <1>3, <2>1, <2>2
<1> QED
  BY <1>4, <1>5

\* The least of a set of numbers.
LEMMA MinIs ==
  ASSUME NEW S \in SUBSET Nat, NEW m \in S, \A i \in S : m <= i
  PROVE  Min(S) = m
PROOF
<1> DEFINE c == CHOOSE x \in S : \A y \in S : x =< y
<1>1. c \in S /\ \A y \in S : c <= y
  OBVIOUS
<1>2. c = m
  <2> HIDE DEF c
  <2>1. c >= m /\ c <= m /\ c \in Nat /\ m \in Nat
    BY <1>1
  <2> QED
    BY <2>1
<1> QED
  BY <1>2 DEF Min, c

\* Nothing is found where nothing is.
LEMMA LastOfNone ==
  ASSUME NEW s, NEW c, NEW upto \in Nat, Len(s) \in Nat,
         \A i \in 1 .. Len(s) : i <= upto => s[i] # c
  PROVE  FindLastOf(s, c, upto) = Nowhere
PROOF
<1> DEFINE end == Min({upto, Len(s)})
           One(t, b) == {IF hits = {} THEN Nowhere ELSE Max(hits) :
                            hits \in {Places(t, c, 1, Min({b, Len(t)}))}}
           X == {One(t, b) : t \in {s}, b \in {upto}}
<1>1. end \in Nat /\ end <= upto /\ end <= Len(s)
  <2>1. CASE upto <= Len(s)
    <3>1. end = upto
      <4>1. {upto, Len(s)} \in SUBSET Nat /\ upto \in {upto, Len(s)}
            /\ \A i \in {upto, Len(s)} : upto <= i
        BY <2>1
      <4> QED
        BY <4>1, MinIs
    <3> QED
      BY <2>1, <3>1
  <2>2. CASE ~(upto <= Len(s))
    <3>1. end = Len(s)
      <4>1. {upto, Len(s)} \in SUBSET Nat /\ Len(s) \in {upto, Len(s)}
            /\ \A i \in {upto, Len(s)} : Len(s) <= i
        BY <2>2
      <4> QED
        BY <4>1, MinIs
    <3> QED
      BY <2>2, <3>1
  <2> QED
    BY <2>1, <2>2
<1> HIDE DEF end
<1>2. Places(s, c, 1, end) = {}
  BY <1>1 DEF Places
<1>3. One(s, upto) = {Nowhere}
  BY <1>2 DEF end
<1>4. FindLastOf(s, c, upto) = CHOOSE place \in UNION X : TRUE
  BY DEF FindLastOf
<1> HIDE DEF One
<1>5. X = {{Nowhere}}
  <2>1. X = {One(s, upto)}
    OBVIOUS
  <2> QED
    BY <1>3, <2>1
<1> HIDE DEF X
<1>6. UNION {{Nowhere}} = {Nowhere} /\ (CHOOSE place \in {Nowhere} : TRUE) = Nowhere
  OBVIOUS
<1> QED
  BY <1>4, <1>5, <1>6

\* No user name is seen where no '@' is.
LEMMA NoUserName ==
  ASSUME NEW verb, NEW scheme, NEW name, NEW path, NEW version,
         Grammar(verb, scheme, name, path, version),
         \A i \in 1 .. Len(verb) : verb[i] # "@", \A i \in 1 .. Len(name) : name[i] # "@",
         NEW t, t = Line(verb, scheme, name, path, version), ~IsMalformed(t), ~IsTransparent(t)
  PROVE  ~HasUserName(t)
PROOF
<1> DEFINE v == Len(verb)
           n == Len(name)
           s == Len(scheme)
           m == v + 1 + s
<1>1. /\ t \in Seq(Token) /\ Len(t) \in Nat
      /\ \A i \in 1 .. v : t[i] = verb[i]
      /\ t[v + 1] = SP
      /\ \A i \in 1 .. s : t[v + 1 + i] = scheme[i]
      /\ \A i \in 1 .. n : t[m + i] = name[i]
  <2>1. LaidOut(t, Token, verb, SP, scheme, name, path, version)
    BY LineIs
  <2>2. t \in Seq(Token)
    BY <2>1 DEF LaidOut
  <2> QED
    BY <2>1, <2>2, LenProperties, Zenon DEF LaidOut
<1>2. /\ v \in Nat /\ n \in Nat /\ s \in Nat /\ s \in {0, 3}
      /\ s = 3 => scheme[1] # "@" /\ scheme[2] = "/" /\ scheme[3] = "/"
      /\ Len(path) \in Nat /\ Len(path) # 0 => path[1] \in {"/", "?"}
      /\ Len(version) \in Nat /\ Len(version) # 0 => version[1] = SP
  BY DEF Grammar
<1>3. verb[1] = "CONNECT" \/ s = 3
  BY <1>2, TransparentParts
<1>4. "@" # SP /\ "@" # "/" /\ "@" # "?"
  BY Zenon DEF SP
<1>5. NameStart(t) = m + 1 /\ (m + 1 \in 1 .. Len(t) => t[m + 1] # "@")
  <2>1. CASE verb[1] = "CONNECT"
    <3>1. NameStart(t) = 3 /\ n # 0 /\ t[3] = name[1]
      BY <2>1, ConnectParts
    <3>2. v = 1 /\ s = 0
      BY <2>1 DEF Grammar
    <3> QED
      BY <1>2, <3>1, <3>2
  <2>2. CASE s = 3
    <3>1. NameStart(t) = v + 4 + 1
      BY <2>2, AbsoluteParts
    <3>2. NameStart(t) = m + 1
      BY <1>2, <2>2, <3>1
    <3>3. ASSUME m + 1 \in 1 .. Len(t) PROVE t[m + 1] # "@"
      <4> DEFINE p == Len(path)
                 w == Len(version)
      <4>1. /\ Len(t) = m + n + p + w
            /\ \A i \in 1 .. p : t[m + n + i] = path[i]
            /\ \A i \in 1 .. w : t[m + n + p + i] = version[i]
        <5>1. LaidOut(t, Token, verb, SP, scheme, name, path, version)
          BY LineIs
        <5> QED
          BY <5>1, Zenon DEF LaidOut
      <4> HIDE DEF v, n, s
      <4>2. m \in Nat
        BY <1>2
      <4> HIDE DEF m, p, w
      <4>3. CASE n # 0
        <5>1. 1 \in 1 .. n
          BY <1>2, <4>3
        <5>2. t[m + 1] = name[1] /\ name[1] # "@"
          BY <1>1, <5>1 DEF n
        <5> QED
          BY <5>2
      <4>4. CASE n = 0 /\ p # 0
        <5>1. 1 \in 1 .. p /\ m + n + 1 = m + 1
          BY <1>2, <4>2, <4>4 DEF p
        <5>2. t[m + 1] = path[1]
          BY <4>1, <5>1
        <5> QED
          BY <1>2, <1>4, <4>4, <5>2 DEF p
      <4>5. CASE n = 0 /\ p = 0
        <5>1. 1 \in 1 .. w /\ m + n + p + 1 = m + 1 /\ w # 0
          BY <1>2, <3>3, <4>1, <4>2, <4>5 DEF w
        <5>2. t[m + 1] = version[1]
          BY <4>1, <5>1
        <5> QED
          BY <1>2, <1>4, <5>1, <5>2 DEF w
      <4> QED
        BY <4>3, <4>4, <4>5
    <3> QED
      BY <3>2, <3>3
  <2> QED
    BY <1>3, <2>1, <2>2
<1> HIDE DEF v, n, s, m
<1>6. \A i \in 1 .. Len(t) : i <= m + 1 => t[i] # "@"
  <2> SUFFICES ASSUME NEW i \in 1 .. Len(t), i <= m + 1 PROVE t[i] # "@"
    OBVIOUS
  <2>1. m = v + 1 + s
    BY DEF m
  <2>2. CASE i <= v
    BY <1>1, <1>2, <2>2 DEF v
  <2>3. CASE i = v + 1
    BY <1>1, <1>4, <2>3
  <2>4. CASE v + 1 < i /\ i <= m
    <3>1. s = 3 /\ i - (v + 1) \in {1, 2, 3} /\ i - (v + 1) \in 1 .. s /\ v + 1 + (i - (v + 1)) = i
      BY <1>2, <2>1, <2>4
    <3> QED
      BY <1>1, <1>2, <1>4, <3>1
  <2>5. CASE i = m + 1
    BY <1>5, <2>5
  <2> QED
    BY <1>2, <2>1, <2>2, <2>3, <2>4, <2>5
<1>7. FindLastOf(t, "@", m + 1) = Nowhere
  <2>1. m + 1 \in Nat
    BY <1>2 DEF m
  <2> QED
    BY <1>1, <1>6, <2>1, LastOfNone
<1> QED
  BY <1>5, <1>7 DEF HasUserName

-----------------------------------------------------------------------------
(* The line that is sent to the server.                                    *)

PastTheLine == {"headers", "open", "bind", "bind any", "connect", "credentials", "serving",
                "outside"}
Sent(t) == IF IsTransparent(t) \/ IsConnect(t) THEN t ELSE Rewritten(t)

\* The request is the client's line until that is read, and what is sent from then on.
RequestInv ==
    /\ pc # "none" => line \in Lines
    /\ pc = "line" => request = Text(line)
    /\ pc \in PastTheLine => ~IsMalformed(Text(line)) /\ request = Sent(Text(line))

\* Nothing has been read at first.
LEMMA InitRequestInv == Init => RequestInv
PROOF
  BY DEF Init, RequestInv, PastTheLine

\* The steps that read the line send what is left of it.
LEMMA LineIsRead ==
  ASSUME RequestInv, ReadPath \/ ReadServerName \/ ReadUserName PROVE RequestInv'
PROOF
<1>1. /\ pc = "line" /\ ~IsMalformed(request) /\ line' = line
      /\ pc' \in {"headers", "delimiters"}
      /\ pc' = "headers" => request' = Sent(request)
  <2>1. CASE ReadPath
    BY <2>1 DEF ReadPath, ReadableLine, Sent, given
  <2>2. CASE ReadServerName
    BY <2>2 DEF ReadServerName, ReadableLine, Sent, RewrittenLine, given
  <2>3. CASE ReadUserName
    BY <2>3 DEF ReadUserName, ReadableLine, Sent, RewrittenLine, given
  <2> QED
    BY <2>1, <2>2, <2>3
<1>2. line \in Lines /\ request = Text(line)
  BY <1>1 DEF RequestInv
<1> QED
  BY <1>1, <1>2 DEF RequestInv, PastTheLine

\* The others leave it.
LEMMA NextRequestInv ==
  ASSUME RequestInv, [Next]_vars PROVE RequestInv'
PROOF
<1> DEFINE Same == line' = line /\ request' = request
<1>1. ASSUME Same, pc # "none" \/ pc' = "none",
             pc' = pc \/ pc' \notin PastTheLine \cup {"none", "line"}
             \/ (pc \in PastTheLine /\ pc' \in PastTheLine)
      PROVE  RequestInv'
  <2>1. pc' # "none" => line' \in Lines
    BY <1>1 DEF RequestInv
  <2>2. pc' = "line" => request' = Text(line')
    BY <1>1 DEF RequestInv, PastTheLine
  <2>3. pc' \in PastTheLine => ~IsMalformed(Text(line')) /\ request' = Sent(Text(line'))
    BY <1>1 DEF RequestInv
  <2> QED
    BY <2>1, <2>2, <2>3 DEF RequestInv
<1>2. CASE RejectLine \/ HostNotFound \/ SocketFails
  BY <1>1, <1>2 DEF RejectLine, HostNotFound, SocketFails, Fail, given, PastTheLine
<1>3. CASE FindDelimiter \/ NextDelimiter \/ ReadHeader \/ EndHeaders
  BY <1>1, <1>3 DEF FindDelimiter, NextDelimiter, ReadHeader, EndHeaders, given, PastTheLine
<1>4. CASE OpenSocket \/ Bind \/ BindAnyPort
  BY <1>1, <1>4 DEF OpenSocket, Bind, BindAnyPort, given, PastTheLine
<1>5. CASE Connect \/ AddCredentials
  BY <1>1, <1>5 DEF Connect, AddCredentials, Fail, given, PastTheLine
<1>6. CASE ReadPath \/ ReadServerName \/ ReadUserName
  BY <1>6, LineIsRead
<1>7. CASE Accept
  <2>1. line' \in Lines /\ request' = Text(line') /\ pc' = "line"
    BY <1>7 DEF Accept
  <2> QED
    BY <2>1, Zenon DEF RequestInv, PastTheLine
<1>8. CASE UNCHANGED workerVars
  BY <1>1, <1>8 DEF workerVars
<1>9. CASE UNCHANGED vars
  BY <1>8, <1>9 DEF vars
<1> QED
  BY <1>2, <1>3, <1>4, <1>5, <1>6, <1>7, <1>8, <1>9 DEF Next, WorkerNext

\* What is sent of a line with a scheme.
LEMMA AbsoluteIsSent ==
  ASSUME NEW l, InGrammar(l), l.scheme # <<>>, l.path = <<>> \/ Head(l.path) = "/",
         ~IsMalformed(Text(l))
  PROVE  Sent(Text(l)) = l.verb \o <<SP>>
                         \o (IF l.path = <<>> THEN <<"/">> ELSE l.path) \o l.version
PROOF
<1> DEFINE a == l.verb
           b == l.scheme
           c == l.name
           d == l.path
           e == l.version
           t == Text(l)
<1>1. /\ Grammar(a, b, c, d, e) /\ t = Line(a, b, c, d, e) /\ ~IsMalformed(t)
      /\ b # <<>> /\ (d = <<>> \/ Head(d) = "/")
  BY GrammarOf DEF Text, Line
<1> SUFFICES Sent(t) = a \o <<SP>> \o (IF d = <<>> THEN <<"/">> ELSE d) \o e
  OBVIOUS
<1> HIDE DEF a, b, c, d, e, t
<1>2. Len(b) = 3 /\ (d = <<>> <=> Len(d) = 0)
  <2>1. /\ b \in Seq(Token) /\ d \in Seq(Token) /\ Len(b) \in {0, 3}
    BY <1>1 DEF Grammar
  <2> QED
    BY <1>1, <2>1, EmptySeq
<1>3. Len(d) = 0 \/ d[1] = "/"
  <2>1. d \in Seq(Token)
    BY <1>1 DEF Grammar
  <2> QED
    BY <1>1, <1>2, <2>1
<1>4. ~IsConnect(t) /\ ~IsTransparent(t)
  BY <1>1, <1>2, AbsoluteParts
<1>5. Rewritten(t) = Directly(a, d, e)
  BY <1>1, <1>2, <1>3, AbsoluteRewritten
<1> QED
  BY <1>2, <1>4, <1>5 DEF Sent, Directly

\* The server gets the line it would have got directly.
THEOREM SentAsOrigin == Spec => []RequestIsOriginForm
PROOF
<1>1. RequestInv => RequestIsOriginForm
  <2> SUFFICES ASSUME RequestInv, Serving, line.scheme # <<>>,
                      line.path = <<>> \/ Head(line.path) = "/"
               PROVE  request = line.verb \o <<SP>>
                          \o (IF line.path = <<>> THEN <<"/">> ELSE line.path) \o line.version
    BY DEF RequestIsOriginForm
  <2>1. line \in Lines /\ ~IsMalformed(Text(line)) /\ request = Sent(Text(line))
    BY DEF RequestInv, Serving, PastTheLine
  <2>2. InGrammar(line)
    BY <2>1, LinesAssumption
  <2> QED
    BY <2>1, <2>2, AbsoluteIsSent
<1> QED
  BY <1>1, InitRequestInv, NextRequestInv, PTL DEF Spec

-----------------------------------------------------------------------------
(* The server that a name means.                                           *)

\* Texts without a colon, and with one, as HostPart and PortPart cut them.
LEMMA CutAtColon ==
  ASSUME NEW S, NEW n \in Seq(S), NEW port
  PROVE  LET c == Find(n, ":", 1)
         IN  /\ c \in 0 .. Len(n) /\ Len(n) \in Nat
             /\ c = 0 => /\ \A i \in 1 .. Len(n) : n[i] # ":"
                         /\ HostPart(n) = n /\ PortPart(n, port) = port
             /\ c # 0 => /\ n[c] = ":" /\ \A i \in 1 .. (c - 1) : n[i] # ":"
                         /\ HostPart(n) = SubSeq(n, 1, c - 1)
                         /\ PortPart(n, port) = Port(Atoi(SubSeq(n, c + 1, Len(n))))
PROOF
<1> DEFINE c == Find(n, ":", 1)
<1>1. Len(n) \in Nat
  BY LenProperties
<1>2. \/ c = 0 /\ \A i \in 1 .. Len(n) : n[i] # ":"
      \/ c \in 1 .. Len(n) /\ n[c] = ":" /\ \A i \in 1 .. (c - 1) : n[i] # ":"
  BY <1>1, FindIs DEF Nowhere
<1>3. HostPart(n) = IF c = 0 THEN n ELSE SubSeq(n, 1, c - 1)
  BY DEF HostPart, Before, Nowhere
<1>4. PortPart(n, port) = IF c = 0 THEN port ELSE Port(Atoi(SubSeq(n, c + 1, Len(n))))
  BY DEF PortPart, From, Nowhere
<1> HIDE DEF c
<1>5. /\ c \in 0 .. Len(n) /\ Len(n) \in Nat
      /\ c = 0 => /\ \A i \in 1 .. Len(n) : n[i] # ":"
                  /\ HostPart(n) = n /\ PortPart(n, port) = port
      /\ c # 0 => /\ n[c] = ":" /\ \A i \in 1 .. (c - 1) : n[i] # ":"
                  /\ HostPart(n) = SubSeq(n, 1, c - 1)
                  /\ PortPart(n, port) = Port(Atoi(SubSeq(n, c + 1, Len(n))))
  BY <1>1, <1>2, <1>3, <1>4
<1> QED
  BY <1>5 DEF c

\* The names that are resolved are texts.
LEMMA NamesAreTexts == NamesToResolve \subseteq Seq(STRING)
PROOF
<1>1. ASSUME NEW l \in Lines PROVE l.name \in Seq(STRING)
  BY LinesAssumption DEF InGrammar
<1>2. ASSUME NEW l \in Lines, NEW h \in Range(l.headers) PROVE h.value \in Seq(STRING)
  <2> DEFINE hs == l.headers
  <2>1. hs \in Seq([key : STRING, value : Seq(STRING)])
    BY LinesAssumption DEF InGrammar
  <2>2. h \in Range(hs)
    BY <1>2
  <2> HIDE DEF hs
  <2>3. PICK i \in 1 .. Len(hs) : h = hs[i]
    BY <2>1, <2>2 DEF Range
  <2>4. h \in [key : STRING, value : Seq(STRING)]
    BY <2>1, <2>3, ElementOfSeq
  <2> QED
    BY <2>4
<1>3. ASSUME NEW c \in CommandLines, NEW o \in Range(c) PROVE o.value \in Seq(STRING)
  <2>1. c \in Seq([flag : STRING, value : Seq(STRING)])
    BY CommandLinesAssumption
  <2>2. PICK i \in 1 .. Len(c) : o = c[i]
    BY <2>1 DEF Range
  <2>3. o \in [flag : STRING, value : Seq(STRING)]
    BY <2>1, <2>2, ElementOfSeq
  <2> QED
    BY <2>3
<1> QED
  BY <1>1, <1>2, <1>3 DEF NamesToResolve

\* A name that resolves means what HostPart and PortPart make of it.
LEMMA NameMeans ==
  ASSUME NEW n \in NamesToResolve, Resolve(HostPart(n)) # AnyAddress
  PROVE  /\ Meant(n) = [addr |-> Resolve(HostPart(n)), port |-> PortPart(n, 80)]
         /\ PortPart(n, 3128) = IF \E i \in DOMAIN n : n[i] = ":" THEN PortPart(n, 80) ELSE 3128
PROOF
<1> DEFINE c == Find(n, ":", 1)
           k == IF c = 0 THEN Len(n) ELSE c - 1
           port == Atoi(SubSeq(n, k + 2, Len(n)))
<1>0. n \in Seq(STRING) /\ DOMAIN n = 1 .. Len(n)
  BY NamesAreTexts
<1>1. /\ c \in 0 .. Len(n) /\ Len(n) \in Nat
      /\ c = 0 => /\ \A i \in 1 .. Len(n) : n[i] # ":"
                  /\ HostPart(n) = n /\ PortPart(n, 80) = 80 /\ PortPart(n, 3128) = 3128
      /\ c # 0 => /\ n[c] = ":" /\ \A i \in 1 .. (c - 1) : n[i] # ":"
                  /\ HostPart(n) = SubSeq(n, 1, c - 1)
                  /\ PortPart(n, 80) = Port(Atoi(SubSeq(n, c + 1, Len(n))))
                  /\ PortPart(n, 3128) = Port(Atoi(SubSeq(n, c + 1, Len(n))))
  BY <1>0, CutAtColon
<1> HIDE DEF c
<1>2. k \in 0 .. Len(n) /\ HostEnds(n, k) /\ (k = Len(n) <=> c = 0)
  BY <1>1 DEF HostEnds
<1>3. SubSeq(n, 1, k) = HostPart(n)
  <2>1. SubSeq(n, 1, Len(n)) = n
    BY <1>0
  <2> QED
    BY <1>1, <2>1
<1>4. /\ port < 65536
      /\ Meant(n) = [addr |-> Resolve(HostPart(n)), port |-> IF k = Len(n) THEN 80 ELSE port]
  <2>1. \A j \in 0 .. Len(n) :
          HostEnds(n, j) /\ Resolve(SubSeq(n, 1, j)) # AnyAddress
          => /\ Atoi(SubSeq(n, j + 2, Len(n))) < 65536
             /\ j = Len(n) => Meant(n) = [addr |-> Resolve(SubSeq(n, 1, j)), port |-> 80]
             /\ j # Len(n) => Meant(n) = [addr |-> Resolve(SubSeq(n, 1, j)),
                                         port |-> Atoi(SubSeq(n, j + 2, Len(n)))]
    BY MeantAssumption
  <2> HIDE DEF k
  <2>2. HostEnds(n, k) /\ Resolve(SubSeq(n, 1, k)) # AnyAddress /\ k \in 0 .. Len(n)
    BY <1>2, <1>3
  <2>3. /\ port < 65536
        /\ k = Len(n) => Meant(n) = [addr |-> Resolve(HostPart(n)), port |-> 80]
        /\ k # Len(n) => Meant(n) = [addr |-> Resolve(HostPart(n)), port |-> port]
    <3> DEFINE host == SubSeq(n, 1, k)
    <3>1. /\ port < 65536
          /\ k = Len(n) => Meant(n) = [addr |-> Resolve(host), port |-> 80]
          /\ k # Len(n) => Meant(n) = [addr |-> Resolve(host), port |-> port]
      BY <2>1, <2>2
    <3>2. host = HostPart(n)
      BY <1>3
    <3> HIDE DEF port, host
    <3> QED
      BY <3>1, <3>2
  <2> HIDE DEF port
  <2> QED
    BY <2>3
<1>5. c # 0 => Port(Atoi(SubSeq(n, c + 1, Len(n)))) = port
  <2>1. c # 0 => k + 2 = c + 1
    BY <1>1
  <2>2. port \in Nat
    BY NumbersAreNat
  <2> HIDE DEF k
  <2>3. c # 0 => Atoi(SubSeq(n, c + 1, Len(n))) = port
    BY <2>1
  <2> HIDE DEF port
  <2>4. Port(port) = port
    BY <1>4, <2>2 DEF Port
  <2> QED
    BY <2>3, <2>4
<1>6. PortPart(n, 80) = IF k = Len(n) THEN 80 ELSE port
  BY <1>1, <1>2, <1>5
<1>7. (\E i \in DOMAIN n : n[i] = ":") <=> c # 0
  BY <1>0, <1>1
<1>8. PortPart(n, 3128) = IF c # 0 THEN PortPart(n, 80) ELSE 3128
  BY <1>1
<1> QED
  BY <1>4, <1>6, <1>7, <1>8


\* The beginnings of two texts, one after the other.
LEMMA JoinedPart ==
  ASSUME NEW S, NEW a \in Seq(S), NEW b \in Seq(S), NEW j \in 1 .. Len(b)
  PROVE  /\ a \o SubSeq(b, 1, j) \in Seq(S) /\ Len(a \o SubSeq(b, 1, j)) = Len(a) + j
         /\ \A i \in 1 .. Len(a) : (a \o SubSeq(b, 1, j))[i] = a[i]
         /\ \A i \in 1 .. j : (a \o SubSeq(b, 1, j))[Len(a) + i] = b[i]
PROOF
<1> DEFINE u == SubSeq(b, 1, j)
<1>1. u \in Seq(S) /\ Len(u) = j /\ \A i \in 1 .. j : u[i] = b[i]
  OBVIOUS
<1> SUFFICES /\ a \o u \in Seq(S) /\ Len(a \o u) = Len(a) + j
             /\ \A i \in 1 .. Len(a) : (a \o u)[i] = a[i]
             /\ \A i \in 1 .. j : (a \o u)[Len(a) + i] = b[i]
  OBVIOUS
<1> HIDE DEF u
<1>2. /\ a \o u \in Seq(S) /\ Len(a \o u) = Len(a) + Len(u)
      /\ \A i \in 1 .. Len(a) : (a \o u)[i] = a[i]
      /\ \A i \in 1 .. Len(u) : (a \o u)[Len(a) + i] = u[i]
  <2>1. u \in Seq(S)
    BY <1>1
  <2> QED
    BY <2>1, Joined
<1> QED
  BY <1>1, <1>2

\* The first token of a part.
LEMMA HeadOfPart ==
  ASSUME NEW S, NEW s \in Seq(S), NEW b \in Nat, NEW a \in 1 .. b, b <= Len(s)
  PROVE  SubSeq(s, a, b) # <<>> /\ Head(SubSeq(s, a, b)) = s[a]
PROOF
<1> DEFINE z == SubSeq(s, a, b)
<1>1. z \in Seq(S) /\ Len(z) = b - a + 1 /\ z[1] = s[a]
  <2>1. a \in Int /\ b \in Int /\ a <= b /\ 1 \in 1 .. b - a + 1 /\ a + 1 - 1 = a
    OBVIOUS
  <2>2. \A i \in a .. b : s[i] \in S
    OBVIOUS
  <2>3. /\ z \in Seq(S) /\ Len(z) = IF a <= b THEN b - a + 1 ELSE 0
        /\ \A i \in 1 .. b - a + 1 : z[i] = s[a + i - 1]
    BY <2>1, <2>2, SubSeqProperties
  <2> HIDE DEF z
  <2> QED
    BY <2>1, <2>3
<1> HIDE DEF z
<1>2. z # <<>> /\ Head(z) = z[1]
  <2>1. Len(z) # 0
    BY <1>1
  <2>2. z # <<>>
    BY <2>1
  <2>3. Head(z) = z[1]
    OBVIOUS
  <2> QED
    BY <2>2, <2>3
<1>3. z # <<>> /\ Head(z) = s[a]
  BY <1>1, <1>2
<1> QED
  BY <1>3, Zenon DEF z

\* A number is told by the first token.
LEMMA SameNumber ==
  ASSUME NEW s, NEW u, s # <<>>, u # <<>>, Head(s) = Head(u)
  PROVE  Atoi(s) = Atoi(u)
PROOF
<1> DEFINE Value(h) == IF h \in DOMAIN Number THEN Number[h] ELSE 0
<1>1. \A x : x # <<>> => Atoi(x) = Value(Head(x))
  BY DEF Atoi
<1> HIDE DEF Value
<1> QED
  BY <1>1

\* A text goes on after a name, with nothing that has an address.
GoesOn(su, name, n, k) ==
    /\ \A i \in 1 .. n : su[i] = name[i]
    /\ \A j \in 1 .. k : Resolve(SubSeq(su, 1, n + j)) = AnyAddress

\* A text that goes on with a query after a name has an address only where the
\* name has a colon.
LEMMA QueryAfterName ==
  ASSUME NEW S, NEW name \in Seq(S), NEW n \in Nat, n = Len(name), NEW k \in Nat \ {0},
         NEW su \in Seq(S), Len(su) = n + k, su[n + 1] = "?", GoesOn(su, name, n, k),
         Resolve(HostPart(su)) # AnyAddress
  PROVE  /\ HostPart(su) = HostPart(name) /\ PortPart(su, 80) = PortPart(name, 80)
         /\ n # 0
PROOF
<1> DEFINE c == Find(su, ":", 1)
           d == Find(name, ":", 1)
<1>1. /\ c \in 0 .. Len(su)
      /\ c = 0 => HostPart(su) = su
      /\ c # 0 => /\ su[c] = ":" /\ \A i \in 1 .. (c - 1) : su[i] # ":"
                  /\ HostPart(su) = SubSeq(su, 1, c - 1)
                  /\ PortPart(su, 80) = Port(Atoi(SubSeq(su, c + 1, Len(su))))
  BY CutAtColon
<1>2. /\ d \in 0 .. n
      /\ d = 0 => \A i \in 1 .. n : name[i] # ":"
      /\ d # 0 => /\ name[d] = ":" /\ \A i \in 1 .. (d - 1) : name[i] # ":"
                  /\ HostPart(name) = SubSeq(name, 1, d - 1)
                  /\ PortPart(name, 80) = Port(Atoi(SubSeq(name, d + 1, n)))
  BY CutAtColon
<1> HIDE DEF c, d
<1>0. /\ \A i \in 1 .. n : su[i] = name[i]
      /\ \A j \in 1 .. k : Resolve(SubSeq(su, 1, n + j)) = AnyAddress
  BY DEF GoesOn
<1>3. c # 0
  <2>1. SubSeq(su, 1, Len(su)) = su
    OBVIOUS
  <2>2. k \in 1 .. k
    OBVIOUS
  <2>3. Resolve(su) = AnyAddress
    BY <1>0, <2>1, <2>2
  <2> QED
    BY <1>1, <2>3
<1>4. c <= n
  <2> SUFFICES ASSUME c > n PROVE FALSE
    BY <1>1
  <2>1. c # n + 1
    BY <1>1, <1>3
  <2>2. c - 1 - n \in 1 .. k /\ n + (c - 1 - n) = c - 1
    BY <1>1, <2>1
  <2>3. Resolve(SubSeq(su, 1, c - 1)) = AnyAddress
    BY <1>0, <2>2
  <2> QED
    BY <1>1, <1>3, <2>3
<1>5. c \in 1 .. n
  BY <1>1, <1>3, <1>4
<1>6. d = c
  <2>1. name[c] = ":" /\ \A i \in 1 .. (c - 1) : name[i] # ":"
    <3>1. name[c] = ":"
      BY <1>0, <1>1, <1>5
    <3>2. ASSUME NEW i \in 1 .. (c - 1) PROVE name[i] # ":"
      <4>1. i \in 1 .. n /\ c # 0
        BY <1>5
      <4> QED
        BY <1>0, <1>1, <4>1
    <3> QED
      BY <3>1, <3>2
  <2>2. d # 0
    BY <1>2, <1>5, <2>1
  <2>3. ~(d < c) /\ ~(c < d)
    BY <1>2, <1>5, <2>1, <2>2
  <2> QED
    BY <1>2, <1>5, <2>3
<1>7. SubSeq(su, 1, c - 1) = SubSeq(name, 1, c - 1)
  <2> DEFINE u == SubSeq(name, 1, c - 1)
  <2>1. u \in Seq(S) /\ Len(u) = c - 1 /\ \A i \in 1 .. (c - 1) : u[i] = name[i]
    BY <1>5
  <2> HIDE DEF u
  <2>2. ASSUME NEW i \in 1 .. Len(u) PROVE su[0 + i] = u[i]
    <3>1. 0 + i = i /\ i \in 1 .. (c - 1) /\ i \in 1 .. n
      BY <1>5, <2>1
    <3> QED
      BY <1>0, <2>1, <3>1
  <2>3. 0 \in Nat /\ 0 + Len(u) <= Len(su) /\ 0 + 1 = 1 /\ 0 + Len(u) = c - 1
    BY <1>5, <2>1
  <2>4. SubSeq(su, 0 + 1, 0 + Len(u)) = u
    BY <2>1, <2>2, <2>3, Piece
  <2>5. SubSeq(su, 1, c - 1) = u
    BY <2>3, <2>4
  <2> QED
    BY <2>5 DEF u
<1>8. Atoi(SubSeq(su, c + 1, Len(su))) = Atoi(SubSeq(name, c + 1, n))
  <2> DEFINE x == SubSeq(su, c + 1, Len(su))
             y == SubSeq(name, c + 1, n)
  <2>1. x # <<>> /\ Head(x) = su[c + 1]
    <3>1. c + 1 \in 1 .. Len(su) /\ Len(su) \in Nat /\ Len(su) <= Len(su)
      BY <1>5
    <3> QED
      BY <3>1, HeadOfPart
  <2>2. ASSUME c < n PROVE y # <<>> /\ Head(y) = name[c + 1]
    <3>1. c + 1 \in 1 .. n /\ n <= Len(name)
      BY <1>5, <2>2
    <3> QED
      BY <3>1, HeadOfPart
  <2>3. ASSUME c = n PROVE y = <<>>
    <3>1. n < c + 1 /\ n \in Int /\ c + 1 \in Int
      BY <1>5, <2>3
    <3> QED
      BY <3>1, SubSeqEmpty
  <2> SUFFICES Atoi(x) = Atoi(y)
    OBVIOUS
  <2> HIDE DEF x, y
  <2>4. CASE c < n
    <3>1. c + 1 \in 1 .. n
      BY <1>5, <2>4
    <3>2. Head(x) = Head(y) /\ x # <<>> /\ y # <<>>
      BY <1>0, <2>1, <2>2, <2>4, <3>1
    <3> QED
      BY <3>2, SameNumber
  <2>5. CASE c = n
    <3>1. "?" \notin DOMAIN Number
      BY DEF Number
    <3>2. Head(x) = "?" /\ y = <<>>
      BY <2>1, <2>3, <2>5
    <3>3. Atoi(x) = 0
      BY <3>1, <3>2, Zenon DEF Atoi
    <3>4. Atoi(y) = 0
      BY <3>2, Zenon DEF Atoi
    <3> QED
      BY <3>3, <3>4
  <2> QED
    BY <1>5, <2>4, <2>5
<1>9. n # 0
  BY <1>5
<1> QED
  BY <1>1, <1>2, <1>3, <1>6, <1>7, <1>8, <1>9

\* So a query is ignored.
LEMMA QueryIsIgnored ==
  ASSUME NEW S, NEW name \in Seq(S), NEW path \in Seq(S), NEW k \in 1 .. Len(path),
         path[1] = "?",
         \A j \in 1 .. Len(path) : Resolve(name \o SubSeq(path, 1, j)) = AnyAddress,
         Resolve(HostPart(name \o SubSeq(path, 1, k))) # AnyAddress
  PROVE  /\ HostPart(name \o SubSeq(path, 1, k)) = HostPart(name)
         /\ PortPart(name \o SubSeq(path, 1, k), 80) = PortPart(name, 80)
         /\ Len(name) # 0
PROOF
<1> DEFINE n == Len(name)
           su == name \o SubSeq(path, 1, k)
<1>1. n \in Nat /\ Len(path) \in Nat /\ k \in Nat \ {0}
  BY LenProperties
<1>2. /\ su \in Seq(S) /\ Len(su) = n + k
      /\ \A i \in 1 .. n : su[i] = name[i]
      /\ \A i \in 1 .. k : su[n + i] = path[i]
  BY JoinedPart
<1> HIDE DEF n
<1>3. ASSUME NEW j \in 1 .. k PROVE Resolve(SubSeq(su, 1, n + j)) = AnyAddress
  <2> DEFINE u == name \o SubSeq(path, 1, j)
  <2>1. j \in 1 .. Len(path) /\ j \in Nat
    BY <1>1
  <2>2. /\ u \in Seq(S) /\ Len(u) = n + j
        /\ \A i \in 1 .. n : u[i] = name[i]
        /\ \A i \in 1 .. j : u[n + i] = path[i]
    BY <2>1, JoinedPart DEF n
  <2>3. Resolve(u) = AnyAddress
    BY <2>1
  <2> HIDE DEF u, su
  <2>4. ASSUME NEW i \in 1 .. Len(u) PROVE su[0 + i] = u[i]
    <3>1. 0 + i = i /\ i \in 1 .. (n + j)
      BY <1>1, <2>1, <2>2
    <3>2. CASE i <= n
      <4>1. i \in 1 .. n
        BY <3>1, <3>2
      <4> QED
        BY <1>2, <2>2, <3>1, <4>1
    <3>3. CASE n < i
      <4>1. i - n \in 1 .. j /\ i - n \in 1 .. k /\ n + (i - n) = i
        BY <1>1, <2>1, <3>1, <3>3
      <4> QED
        BY <1>2, <2>2, <3>1, <4>1
    <3>4. i <= n \/ n < i
      BY <1>1, <3>1
    <3> QED
      BY <3>2, <3>3, <3>4
  <2>5. 0 \in Nat /\ 0 + Len(u) <= Len(su) /\ 0 + 1 = 1 /\ 0 + Len(u) = n + j
    BY <1>1, <1>2, <2>1, <2>2
  <2>6. SubSeq(su, 0 + 1, 0 + Len(u)) = u
    BY <1>2, <2>2, <2>4, <2>5, Piece
  <2> QED
    BY <2>3, <2>5, <2>6
<1>4. su[n + 1] = "?"
  BY <1>1, <1>2
<1>5. Resolve(HostPart(su)) # AnyAddress
  OBVIOUS
<1> HIDE DEF su
<1>6. HostPart(su) = HostPart(name) /\ PortPart(su, 80) = PortPart(name, 80) /\ n # 0
  <2>1. n = Len(name)
    BY DEF n
  <2>2. GoesOn(su, name, n, k)
    BY <1>2, <1>3, Zenon DEF GoesOn
  <2>3. su \in Seq(S) /\ Len(su) = n + k
    BY <1>2
  <2> QED
    BY <1>1, <1>4, <1>5, <2>1, <2>2, <2>3, QueryAfterName
<1> QED
  BY <1>6 DEF su, n

-----------------------------------------------------------------------------
(* The parent proxy that main knows.                                       *)

NoParent == [addr |-> AnyAddress, port |-> 0]
ParentOf(host) ==
    IF host = <<>> THEN NoParent
    ELSE [addr |-> Resolve(HostPart(host)), port |-> PortPart(host, 3128)]

\* The host is the value of an option, and the workers' server when that is read.
ParentInv ==
    /\ commandLine \in CommandLines
    /\ "host" \in DOMAIN srv
    /\ srv.host = <<>> \/ srv.host \in NamesToResolve
    /\ mainPc = "options" => defparam.req = NoParent
    /\ mainPc \notin {"options", "exited"} => defparam.req = ParentOf(srv.host)

\* No host has been given at first.
LEMMA InitParentInv == Init => ParentInv
PROOF
  BY DEF Init, MainInit, ParentInv, NoParent

\* The option that is read stands on the command line.
LEMMA OptionIsGiven ==
  ASSUME OptionsInv, argv # <<>> PROVE Head(argv) \in Range(commandLine)
PROOF
<1>1. OptionsTyped
  BY DEF OptionsInv
<1>2. /\ Len(argv) \in Nat /\ Len(argv) # 0 /\ Len(commandLine) \in Nat
      /\ DOMAIN commandLine = 1 .. Len(commandLine) /\ Head(argv) = argv[1]
  BY <1>1, EmptySeq DEF OptionsTyped
<1>3. AlreadyRead + 1 \in 1 .. Len(commandLine) /\ 1 \in 1 .. Len(argv)
  BY <1>1, <1>2 DEF AlreadyRead, OptionsTyped
<1>4. Head(argv) = commandLine[AlreadyRead + 1]
  BY <1>1, <1>2, <1>3 DEF OptionsTyped
<1> QED
  BY <1>2, <1>3, <1>4 DEF Range

\* main's steps.
LEMMA MainKeepsParentInv ==
  ASSUME OptionsInv, ParentInv, MainNext PROVE ParentInv'
PROOF
<1>1. CASE ReadOption
  <2> DEFINE o == Head(argv)
  <2>1. /\ mainPc = "options" /\ mainPc' = "options" /\ commandLine' = commandLine
        /\ defparam' = defparam /\ argv # <<>> /\ srv' = WithOption(srv, o)
    BY <1>1 DEF ReadOption
  <2>2. o \in Range(commandLine)
    BY <2>1, OptionIsGiven
  <2>3. o.flag = "h" => o.value \in NamesToResolve
    BY <2>2 DEF ParentInv, NamesToResolve
  <2> HIDE DEF o
  <2>4. "host" \in DOMAIN srv'
        /\ srv'.host = IF o.flag = "h" THEN o.value ELSE srv.host
    BY <2>1 DEF WithOption, Quiet, ParentInv
  <2> QED
    BY <2>1, <2>3, <2>4 DEF ParentInv
<1>2. CASE SetDefaults
  <2>1. /\ mainPc = "options" /\ mainPc' = "socket" /\ commandLine' = commandLine
        /\ srv' = [srv EXCEPT !.intport = bound'.port]
        /\ defparam' =
              [hostname |-> HostPart(srv.host),
               req |-> IF srv.host = <<>> THEN defparam.req
                       ELSE [addr |-> Resolve(HostPart(srv.host)),
                             port |-> PortPart(srv.host, 3128)],
               extip |-> srv.extip]
    BY <1>2 DEF SetDefaults, OptionsRead
  <2>2. "host" \in DOMAIN srv' /\ srv'.host = srv.host
    BY <2>1 DEF ParentInv
  <2>3. defparam'.req = ParentOf(srv.host)
    <3>1. defparam'.req = IF srv.host = <<>> THEN defparam.req
                          ELSE [addr |-> Resolve(HostPart(srv.host)),
                                port |-> PortPart(srv.host, 3128)]
      BY <2>1
    <3> QED
      BY <2>1, <3>1 DEF ParentInv, ParentOf
  <2> QED
    BY <2>1, <2>2, <2>3 DEF ParentInv
<1>3. CASE OpenListener \/ BindSucceeds \/ BindFails \/ Sleep \/ Listen \/ Usage
  <2>1. UNCHANGED <<commandLine, srv, defparam>> /\ mainPc' # "options"
        /\ (mainPc = "options" => mainPc' = "exited")
        /\ (mainPc = "exited" => mainPc' = "exited")
    BY <1>3 DEF OpenListener, BindSucceeds, BindFails, Sleep, Listen, Usage, Exit, OptionsRead
  <2> QED
    BY <2>1 DEF ParentInv
<1> QED
  BY <1>1, <1>2, <1>3 DEF MainNext

\* And the others, which leave main's state alone.
LEMMA NextParentInv ==
  ASSUME OptionsInv, ParentInv, [Next]_vars PROVE ParentInv'
PROOF
<1>1. CASE UNCHANGED mainVars
  BY <1>1 DEF mainVars, ParentInv
<1>2. MainNext \/ UNCHANGED mainVars
  BY MainKept DEF Next, Accept, vars
<1> QED
  BY <1>1, <1>2, MainKeepsParentInv

-----------------------------------------------------------------------------
(* The server a worker connects to.                                        *)

AskedOf(n) == [addr |-> Resolve(HostPart(n)), port |-> PortPart(n, 80)]
HostsUpTo(l, d) == {i \in 1 .. d : l.headers[i].key = "Host" /\ l.headers[i].value # <<>>}

\* What the worker knows of it when the line and d headers of a request are read.
ReqUpTo(l, parent, d) ==
    IF ~IsTransparent(Text(l))
    THEN IF ServerName(Text(l)) = <<>> THEN parent ELSE AskedOf(ServerName(Text(l)))
    ELSE IF HostsUpTo(l, d) = {} THEN parent
         ELSE AskedOf(l.headers[Max(HostsUpTo(l, d))].value)

Header == [key : STRING, value : Seq(STRING)]
StillToRead(hs, all) ==
    /\ hs \in Seq(Header) /\ all \in Seq(Header) /\ Len(hs) <= Len(all)
    /\ \A i \in 1 .. Len(hs) : hs[i] = all[Len(all) - Len(hs) + i]

\* The headers are read one after the other, and req follows them.
HeadersInv ==
    /\ pc # "none" => StillToRead(headers, line.headers)
    /\ pc = "line" => headers = line.headers /\ req = defparam.req
    /\ pc \in PastTheLine \ {"headers"} => headers = <<>>
    /\ pc \in PastTheLine /\ ~HasAt(line)
       => req = ReqUpTo(line, defparam.req, Len(line.headers) - Len(headers))

\* The socket is for the server in req.
PeerInv ==
    /\ {"addr", "port"} \subseteq DOMAIN server
    /\ pc \in {"bind", "bind any", "connect"}
       => req.addr # AnyAddress /\ server.addr = req.addr /\ server.port = req.port
    /\ pc \in {"credentials", "serving", "outside"} /\ server.state = "connected"
       => req.addr # AnyAddress /\ server.peer = <<[addr |-> req.addr, port |-> req.port]>>

\* There is no request at first.
LEMMA InitTargetInv == Init => HeadersInv /\ PeerInv
PROOF
  BY DEF Init, HeadersInv, PeerInv, Closed, PastTheLine

\* Without an '@' in the name or before it no user name is read.
LEMMA NoAtNoUserName ==
  ASSUME NEW l, InGrammar(l), ~HasAt(l), ~IsMalformed(Text(l)), ~IsTransparent(Text(l))
  PROVE  ~HasUserName(Text(l))
PROOF
<1> DEFINE a == l.verb
           b == l.scheme
           c == l.name
           d == l.path
           e == l.version
           t == Text(l)
<1>1. /\ Grammar(a, b, c, d, e) /\ t = Line(a, b, c, d, e) /\ ~IsMalformed(t)
      /\ ~IsTransparent(t) /\ \A i \in 1 .. Len(a \o c) : (a \o c)[i] # "@"
  BY GrammarOf DEF Text, Line, HasAt
<1> SUFFICES ~HasUserName(t)
  OBVIOUS
<1> HIDE DEF a, b, c, d, e, t
<1>2. a \in Seq(Token) /\ c \in Seq(Token)
  BY <1>1 DEF Grammar
<1>3. /\ Len(a \o c) = Len(a) + Len(c) /\ Len(a) \in Nat /\ Len(c) \in Nat
      /\ \A i \in 1 .. Len(a) : (a \o c)[i] = a[i]
      /\ \A i \in 1 .. Len(c) : (a \o c)[Len(a) + i] = c[i]
  BY <1>2, Joined
<1>4. ASSUME NEW i \in 1 .. Len(a) PROVE a[i] # "@"
  BY <1>1, <1>3
<1>5. ASSUME NEW i \in 1 .. Len(c) PROVE c[i] # "@"
  <2>1. Len(a) + i \in 1 .. Len(a \o c)
    BY <1>3
  <2> QED
    BY <1>1, <1>3, <2>1
<1> QED
  BY <1>1, <1>4, <1>5, NoUserName

\* The next header.
LEMMA NextHeader ==
  ASSUME NEW l, NEW parent, NEW d \in Nat, l.headers \in Seq(Header), d + 1 <= Len(l.headers)
  PROVE  LET h == l.headers[d + 1]
         IN  ReqUpTo(l, parent, d + 1) =
                 IF IsTransparent(Text(l)) /\ h.key = "Host" /\ h.value # <<>>
                 THEN AskedOf(h.value) ELSE ReqUpTo(l, parent, d)
PROOF
<1> DEFINE h == l.headers[d + 1]
<1>1. CASE h.key = "Host" /\ h.value # <<>>
  <2>1. /\ HostsUpTo(l, d + 1) \in SUBSET Nat
        /\ d + 1 \in HostsUpTo(l, d + 1)
        /\ \A i \in HostsUpTo(l, d + 1) : i <= d + 1
    BY <1>1 DEF HostsUpTo
  <2>2. Max(HostsUpTo(l, d + 1)) = d + 1 /\ HostsUpTo(l, d + 1) # {}
    BY <2>1, MaxIs
  <2> QED
    BY <1>1, <2>2 DEF ReqUpTo
<1>2. CASE ~(h.key = "Host" /\ h.value # <<>>)
  <2>1. HostsUpTo(l, d + 1) = HostsUpTo(l, d)
    BY <1>2 DEF HostsUpTo
  <2> QED
    BY <1>2, <2>1 DEF ReqUpTo
<1> QED
  BY <1>1, <1>2

\* The steps that read the line: the server's name is asked for, or nothing yet.
LEMMA LineKeepsHeadersInv ==
  ASSUME RequestInv, HeadersInv, ReadPath \/ ReadServerName \/ ReadUserName
  PROVE  HeadersInv'
PROOF
<1>1. /\ pc = "line" /\ line' = line /\ defparam' = defparam /\ headers' = headers
      /\ pc' \in {"headers", "delimiters"} /\ ~IsMalformed(request)
  BY DEF ReadPath, ReadServerName, ReadUserName, ReadableLine, given, mainVars
<1>2. /\ line \in Lines /\ request = Text(line) /\ headers = line.headers
      /\ req = defparam.req /\ StillToRead(headers, line.headers)
  BY <1>1 DEF RequestInv, HeadersInv
<1>3. Len(line.headers) - Len(headers) = 0
  BY <1>2 DEF StillToRead
<1>4. ASSUME pc' = "headers", ~HasAt(line)
      PROVE  req' = ReqUpTo(line, defparam.req, 0)
  <2>0. HostsUpTo(line, 0) = {}
    BY DEF HostsUpTo
  <2>1. CASE ReadPath
    <3>1. IsTransparent(Text(line)) /\ req' = req
      BY <1>2, <2>1 DEF ReadPath, parsed
    <3> QED
      BY <1>2, <2>0, <3>1 DEF ReqUpTo
  <2>2. CASE ReadServerName
    <3>1. ~IsTransparent(Text(line)) /\ ParseHostname(ServerName(Text(line)))
      BY <1>2, <2>2 DEF ReadServerName
    <3>2. req' = IF ServerName(Text(line)) = <<>> THEN req
                 ELSE AskedOf(ServerName(Text(line)))
      BY <3>1 DEF ParseHostname, AskedOf
    <3> QED
      BY <1>2, <3>1, <3>2 DEF ReqUpTo
  <2>3. CASE ReadUserName
    <3>1. ~IsTransparent(Text(line)) /\ HasUserName(Text(line)) /\ ~IsMalformed(Text(line))
      BY <1>1, <1>2, <2>3 DEF ReadUserName
    <3> QED
      BY <1>2, <1>4, <3>1, NoAtNoUserName, LinesAssumption
  <2> QED
    BY <2>1, <2>2, <2>3
<1>5. StillToRead(headers', line'.headers)
  BY <1>1, <1>2
<1>6. pc' \in PastTheLine => pc' = "headers"
  BY <1>1 DEF PastTheLine
<1>7. pc' # "line" /\ Len(line'.headers) - Len(headers') = 0
  BY <1>1, <1>3
<1> QED
  BY <1>1, <1>4, <1>5, <1>6, <1>7 DEF HeadersInv

\* A header, which counts in a request that came with a path alone.
LEMMA HeaderKeepsHeadersInv ==
  ASSUME HeadersInv, ReadHeader PROVE HeadersInv'
PROOF
<1> DEFINE d == Len(line.headers) - Len(headers)
           h == Head(headers)
<1>1. /\ pc = "headers" /\ pc' = "headers" /\ line' = line /\ defparam' = defparam
      /\ headers # <<>> /\ headers' = Tail(headers)
      /\ IF IsTransparent(Text(line)) /\ h.key = "Host"
         THEN ParseHostname(h.value) ELSE req' = req
  BY DEF ReadHeader, given, mainVars, HostHeaderCounts
<1>2. StillToRead(headers, line.headers)
  BY <1>1 DEF HeadersInv
<1>3. /\ headers \in Seq(Header) /\ line.headers \in Seq(Header)
      /\ Len(headers) <= Len(line.headers) /\ Len(line.headers) \in Nat
      /\ \A i \in 1 .. Len(headers) : headers[i] = line.headers[d + i]
  BY <1>2, LenProperties DEF StillToRead
<1>4. /\ Len(headers) \in Nat \ {0} /\ Tail(headers) \in Seq(Header)
      /\ Len(Tail(headers)) = Len(headers) - 1 /\ h = headers[1]
      /\ \A i \in 1 .. Len(Tail(headers)) : Tail(headers)[i] = headers[i + 1]
  BY <1>1, <1>3, HeadTailProperties, EmptySeq, LenProperties
<1>5. d \in Nat /\ d + 1 <= Len(line.headers)
  BY <1>3, <1>4
<1>6. h = line.headers[d + 1]
  BY <1>3, <1>4
<1>7. Len(line.headers) - Len(headers') = d + 1
  BY <1>1, <1>3, <1>4
<1>8. StillToRead(headers', line.headers)
  <2> HIDE DEF d
  <2>1. ASSUME NEW i \in 1 .. Len(headers') PROVE headers'[i] = line.headers[d + 1 + i]
    <3>1. i + 1 \in 1 .. Len(headers) /\ d + (i + 1) = d + 1 + i
      BY <1>1, <1>4, <1>5
    <3> QED
      BY <1>1, <1>3, <1>4, <3>1
  <2>2. headers' \in Seq(Header) /\ Len(headers') <= Len(line.headers)
    BY <1>1, <1>3, <1>4
  <2> QED
    BY <1>3, <1>7, <2>1, <2>2 DEF StillToRead
<1>9. ASSUME ~HasAt(line) PROVE req' = ReqUpTo(line, defparam.req, d + 1)
  <2>1. req = ReqUpTo(line, defparam.req, d)
    BY <1>1, <1>9 DEF HeadersInv, PastTheLine
  <2> HIDE DEF d, h
  <2>2. ReqUpTo(line, defparam.req, d + 1) =
            IF IsTransparent(Text(line)) /\ h.key = "Host" /\ h.value # <<>>
            THEN AskedOf(h.value) ELSE ReqUpTo(line, defparam.req, d)
    BY <1>3, <1>5, <1>6, NextHeader
  <2>3. req' = IF IsTransparent(Text(line)) /\ h.key = "Host" /\ h.value # <<>>
               THEN AskedOf(h.value) ELSE req
    BY <1>1 DEF ParseHostname, AskedOf
  <2> QED
    BY <2>1, <2>2, <2>3
<1> HIDE DEF d, h
<1> QED
  BY <1>1, <1>7, <1>8, <1>9 DEF HeadersInv

\* The other steps.
LEMMA NextHeadersInv ==
  ASSUME RecursionInv, RequestInv, HeadersInv, [Next]_vars PROVE HeadersInv'
PROOF
<1> DEFINE Same == UNCHANGED <<line, headers, req, defparam>>
<1>1. ASSUME Same, pc # "none" \/ pc' = "none",
             \/ pc' = pc
             \/ pc' \notin PastTheLine \cup {"none", "line"}
             \/ pc \in PastTheLine \ {"headers"} /\ pc' \in PastTheLine \ {"headers"}
             \/ pc = "headers" /\ headers = <<>> /\ pc' \in PastTheLine \ {"headers"}
      PROVE  HeadersInv'
  <2>1. pc' # "none" => StillToRead(headers', line'.headers)
    BY <1>1 DEF HeadersInv
  <2>2. pc' = "line" => headers' = line'.headers /\ req' = defparam'.req
    BY <1>1 DEF HeadersInv, PastTheLine
  <2>3. pc' \in PastTheLine \ {"headers"} => headers' = <<>>
    BY <1>1 DEF HeadersInv
  <2>4. pc' \in PastTheLine => pc \in PastTheLine
    BY <1>1 DEF PastTheLine
  <2>5. pc' \in PastTheLine /\ ~HasAt(line')
        => req' = ReqUpTo(line', defparam'.req, Len(line'.headers) - Len(headers'))
    BY <1>1, <2>4 DEF HeadersInv
  <2> QED
    BY <2>1, <2>2, <2>3, <2>5 DEF HeadersInv
<1>2. CASE RejectLine \/ HostNotFound \/ SocketFails
  BY <1>1, <1>2 DEF RejectLine, HostNotFound, SocketFails, Fail, given, mainVars, parsed, PastTheLine
<1>3. CASE FindDelimiter \/ NextDelimiter \/ EndHeaders
  BY <1>1, <1>3 DEF FindDelimiter, NextDelimiter, EndHeaders, given, mainVars, parsed, PastTheLine
<1>4. CASE OpenSocket \/ Bind \/ BindAnyPort
  BY <1>1, <1>4 DEF OpenSocket, Bind, BindAnyPort, given, mainVars, parsed, PastTheLine
<1>5. CASE Connect \/ AddCredentials
  BY <1>1, <1>5 DEF Connect, AddCredentials, Fail, given, mainVars, parsed, PastTheLine
<1>6. CASE ReadPath \/ ReadServerName \/ ReadUserName
  BY <1>6, LineKeepsHeadersInv
<1>7. CASE ReadHeader
  BY <1>7, HeaderKeepsHeadersInv
<1>8. CASE Accept
  <2>1. /\ line' \in Lines /\ headers' = line'.headers /\ pc' = "line"
        /\ req' = defparam.req /\ defparam' = defparam
    BY <1>8 DEF Accept, mainVars
  <2>2. line'.headers \in Seq(Header)
    BY <2>1, LinesAssumption DEF InGrammar, Header
  <2>3. StillToRead(headers', line'.headers)
    <3> DEFINE hs == line'.headers
    <3>1. hs \in Seq(Header) /\ Len(hs) \in Nat
      BY <2>2, LenProperties
    <3> HIDE DEF hs
    <3>2. Len(hs) <= Len(hs) /\ \A i \in 1 .. Len(hs) : Len(hs) - Len(hs) + i = i
      BY <3>1
    <3>3. StillToRead(hs, hs)
      BY <3>1, <3>2 DEF StillToRead
    <3> QED
      BY <2>1, <3>3 DEF hs
  <2> QED
    BY <2>1, <2>3 DEF HeadersInv, PastTheLine
<1>9. CASE MainNext /\ UNCHANGED workerVars
  <2>1. mainPc # "accepting"
    BY <1>9, MainIsDone
  <2>2. pc = "none" /\ pc' = "none"
    BY <1>9, <2>1 DEF RecursionInv, WorkerComesLater, workerVars
  <2> QED
    BY <2>2 DEF HeadersInv, PastTheLine
<1>10. CASE UNCHANGED vars
  BY <1>1, <1>10 DEF vars, mainVars, workerVars
<1> QED
  BY <1>2, <1>3, <1>4, <1>5, <1>6, <1>7, <1>8, <1>9, <1>10 DEF Next, WorkerNext

\* The socket follows req.
LEMMA NextPeerInv ==
  ASSUME RecursionInv, PeerInv, [Next]_vars PROVE PeerInv'
PROOF
<1> DEFINE Connected == {"credentials", "serving", "outside"}
           Binding == {"bind", "bind any", "connect"}
<1>0. {"state", "peer", "addr", "port"} \subseteq DOMAIN server
  BY DEF RecursionInv, OnlyPassedConnections, PeerInv
<1>1. CASE RejectLine \/ HostNotFound \/ SocketFails
  BY <1>1 DEF RejectLine, HostNotFound, SocketFails, Fail, PeerInv
<1>2. CASE ReadPath \/ ReadServerName \/ ReadUserName \/ ReadHeader
  <2>1. /\ pc' \in {"headers", "delimiters"}
        /\ \/ server' = server
           \/ server' = [server EXCEPT !.addr = AnyAddress, !.port = 0]
    BY <1>2 DEF ReadPath, ReadServerName, ReadUserName, ReadHeader, ParseHostname
  <2> QED
    BY <1>0, <2>1 DEF PeerInv
<1>3. CASE FindDelimiter \/ NextDelimiter \/ EndHeaders
  BY <1>3 DEF FindDelimiter, NextDelimiter, EndHeaders, PeerInv
<1>4. CASE OpenSocket
  <2>1. /\ pc = "open" /\ req.addr # AnyAddress /\ req' = req /\ pc' \in {"bind", "credentials"}
        /\ server' = [server EXCEPT !.state = "open", !.addr = req.addr, !.port = req.port]
    BY <1>4 DEF OpenSocket, parsed
  <2>2. /\ {"addr", "port"} \subseteq DOMAIN server' /\ server'.state = "open"
        /\ server'.addr = req.addr /\ server'.port = req.port
    BY <1>0, <2>1
  <2> QED
    BY <2>1, <2>2 DEF PeerInv
<1>5. CASE Bind \/ BindAnyPort
  <2>1. /\ pc \in {"bind", "bind any"} /\ pc' \in {"bind any", "connect"} /\ req' = req
        /\ \/ server' = server
           \/ \E p : server' = [server EXCEPT !.state = "bound", !.localport = p]
    BY <1>5 DEF Bind, BindAnyPort, parsed
  <2>2. /\ {"addr", "port"} \subseteq DOMAIN server'
        /\ server'.addr = server.addr /\ server'.port = server.port
    BY <1>0, <2>1
  <2> QED
    BY <2>1, <2>2 DEF PeerInv
<1>6. CASE Connect
  <2>1. /\ pc = "connect" /\ pc' \in {"credentials", "failed"} /\ req' = req
        /\ server' = [server EXCEPT !.state = "connected", !.local = LocalAddress,
                          !.peer = <<[addr |-> server.addr, port |-> server.port]>>]
    BY <1>6 DEF Connect, Fail, parsed
  <2>2. /\ {"addr", "port"} \subseteq DOMAIN server'
        /\ server'.peer = <<[addr |-> server.addr, port |-> server.port]>>
    BY <1>0, <2>1
  <2> QED
    BY <2>1, <2>2 DEF PeerInv
<1>7. CASE AddCredentials
  BY <1>7 DEF AddCredentials, parsed, PeerInv
<1>8. CASE Accept
  BY <1>8 DEF Accept, PeerInv
<1>9. CASE UNCHANGED workerVars
  BY <1>9 DEF workerVars, PeerInv
<1>10. CASE UNCHANGED vars
  BY <1>9, <1>10 DEF vars
<1> QED
  BY <1>1, <1>2, <1>3, <1>4, <1>5, <1>6, <1>7, <1>8, <1>9, <1>10 DEF Next, WorkerNext

-----------------------------------------------------------------------------
(* What the worker knows in the end is what the client means.              *)

\* A bounded set of numbers has a greatest one.
LEMMA MaxIsThere ==
  ASSUME NEW n \in Nat, NEW S \in SUBSET (1 .. n), S # {}
  PROVE  Max(S) \in S
PROOF
<1> DEFINE T == {n - i : i \in S}
<1>1. T \subseteq Nat /\ T # {}
  OBVIOUS
<1>2. PICK x \in T : \A y \in T : x <= y
  <2> HIDE DEF T
  <2> QED
    BY <1>1, Minimum
<1>3. PICK m \in S : x = n - m
  BY <1>2
<1>4. ASSUME NEW i \in S PROVE i <= m
  <2>1. n - i \in T
    OBVIOUS
  <2>2. n - m <= n - i
    BY <1>2, <1>3, <2>1
  <2> QED
    BY <2>2
<1>5. S \in SUBSET Nat
  OBVIOUS
<1> QED
  BY <1>3, <1>4, <1>5, MaxIs

\* The parts of a line, as the code sees them: what tells the three kinds apart.
LEMMA KindOfLine ==
  ASSUME NEW l, InGrammar(l), ~IsMalformed(Text(l))
  PROVE  /\ IsTransparent(Text(l)) <=> l.scheme = <<>> /\ l.verb # <<"CONNECT">>
         /\ ~IsTransparent(Text(l)) =>
              \/ ServerName(Text(l)) = l.name
              \/ /\ l.path # <<>> /\ Head(l.path) = "?" /\ l.path[1] = "?"
                 /\ l.name \in Seq(Token) /\ l.path \in Seq(Token)
                 /\ IsWithQuery(ServerName(Text(l)), l.name, l.path)
PROOF
<1> DEFINE a == l.verb
           b == l.scheme
           c == l.name
           d == l.path
           e == l.version
           t == Text(l)
<1>1. /\ Grammar(a, b, c, d, e) /\ t = Line(a, b, c, d, e) /\ ~IsMalformed(t)
      /\ a # <<>> /\ (Head(a) = "CONNECT" => a = <<"CONNECT">>)
  BY GrammarOf DEF Text, Line, InGrammar
<1> SUFFICES /\ IsTransparent(t) <=> b = <<>> /\ a # <<"CONNECT">>
             /\ ~IsTransparent(t) =>
                  \/ ServerName(t) = c
                  \/ /\ d # <<>> /\ Head(d) = "?" /\ d[1] = "?"
                     /\ c \in Seq(Token) /\ d \in Seq(Token)
                     /\ IsWithQuery(ServerName(t), c, d)
  OBVIOUS
<1> HIDE DEF a, b, c, d, e, t
<1>2. /\ a \in Seq(Token) /\ b \in Seq(Token) /\ c \in Seq(Token) /\ d \in Seq(Token)
      /\ Len(b) \in {0, 3} /\ Len(d) \in Nat
      /\ a[1] = "CONNECT" => Len(b) = 0
  BY <1>1 DEF Grammar
<1>3. (b = <<>> <=> Len(b) = 0) /\ (d = <<>> <=> Len(d) = 0)
  BY <1>2, EmptySeq
<1>4. a[1] = "CONNECT" <=> a = <<"CONNECT">>
  <2>1. Head(a) = a[1] /\ <<"CONNECT">>[1] = "CONNECT"
    BY <1>1, <1>2
  <2> QED
    BY <1>1, <2>1
<1>5. CASE a[1] = "CONNECT"
  <2>1. ~IsTransparent(t) /\ ServerName(t) = c
    BY <1>1, <1>5, ConnectParts
  <2> QED
    BY <1>4, <1>5, <2>1
<1>6. CASE Len(b) = 3
  <2>1. ~IsTransparent(t)
    BY <1>1, <1>6, AbsoluteParts
  <2>2. IsTransparent(t) <=> b = <<>> /\ a # <<"CONNECT">>
    BY <1>3, <1>6, <2>1
  <2>3. CASE Len(d) # 0 /\ d[1] = "?"
    <3>1. Head(d) = "?" /\ d # <<>>
      BY <1>2, <1>3, <2>3
    <3>2. IsWithQuery(ServerName(t), c, d)
      BY <1>1, <1>6, <2>3, AbsoluteName
    <3> QED
      BY <1>2, <2>2, <2>3, <3>1, <3>2
  <2>4. CASE ~(Len(d) # 0 /\ d[1] = "?")
    <3>1. ServerName(t) = c
      BY <1>1, <1>6, <2>4, AbsoluteName
    <3> QED
      BY <2>2, <3>1
  <2> QED
    BY <2>3, <2>4
<1>7. CASE a[1] # "CONNECT" /\ Len(b) = 0
  <2>1. IsTransparent(t)
    BY <1>1, <1>7, TransparentParts
  <2> QED
    BY <1>3, <1>4, <1>7, <2>1
<1> QED
  BY <1>2, <1>5, <1>6, <1>7

\* A server's name with an address is the one in the line.
LEMMA NameInLine ==
  ASSUME NEW l \in Lines, ~IsMalformed(Text(l)), ~IsTransparent(Text(l)),
         ServerName(Text(l)) # <<>>, Resolve(HostPart(ServerName(Text(l)))) # AnyAddress
  PROVE  l.name # <<>> /\ AskedOf(ServerName(Text(l))) = Meant(l.name)
PROOF
<1> DEFINE su == ServerName(Text(l))
<1>1. InGrammar(l)
  BY LinesAssumption
<1>2. /\ HostPart(su) = HostPart(l.name) /\ PortPart(su, 80) = PortPart(l.name, 80)
      /\ l.name # <<>>
  <2>1. CASE su = l.name
    BY <2>1
  <2>2. CASE su # l.name
    <3> DEFINE c == l.name
               d == l.path
    <3>1. /\ d # <<>> /\ Head(d) = "?" /\ d[1] = "?"
          /\ c \in Seq(Token) /\ d \in Seq(Token)
          /\ IsWithQuery(su, c, d)
      BY <1>1, <2>2, KindOfLine
    <3>2. \A j \in 1 .. Len(d) : Resolve(c \o SubSeq(d, 1, j)) = AnyAddress
      BY <3>1, QueryAssumption
    <3> SUFFICES HostPart(su) = HostPart(c) /\ PortPart(su, 80) = PortPart(c, 80) /\ c # <<>>
      OBVIOUS
    <3>3. Resolve(HostPart(su)) # AnyAddress
      OBVIOUS
    <3> HIDE DEF c, d, su
    <3>4. PICK k \in 1 .. Len(d) : su = c \o SubSeq(d, 1, k)
      BY <3>1 DEF IsWithQuery
    <3>5. Resolve(HostPart(c \o SubSeq(d, 1, k))) # AnyAddress
      BY <3>3, <3>4
    <3>6. /\ HostPart(c \o SubSeq(d, 1, k)) = HostPart(c)
          /\ PortPart(c \o SubSeq(d, 1, k), 80) = PortPart(c, 80)
          /\ Len(c) # 0
      BY <3>1, <3>2, <3>5, QueryIsIgnored
    <3>7. c # <<>>
      BY <3>6
    <3> QED
      BY <3>4, <3>6, <3>7
  <2> QED
    BY <2>1, <2>2
<1>3. l.name \in NamesToResolve
  BY DEF NamesToResolve
<1>4. Resolve(HostPart(l.name)) # AnyAddress
  BY <1>2
<1>5. Meant(l.name) = [addr |-> Resolve(HostPart(l.name)), port |-> PortPart(l.name, 80)]
  BY <1>3, <1>4, NameMeans
<1> QED
  BY <1>2, <1>5 DEF AskedOf

\* So is the one of the last Host header.
LEMMA NameInHeader ==
  ASSUME NEW l \in Lines, HostHeaders(l) # {},
         NEW n, n = l.headers[Max(HostHeaders(l))].value,
         Resolve(HostPart(n)) # AnyAddress
  PROVE  AskedOf(n) = Meant(n)
PROOF
<1>1. l.headers \in Seq(Header)
  BY LinesAssumption DEF InGrammar, Header
<1>2. HostHeaders(l) \in SUBSET (1 .. Len(l.headers)) /\ Len(l.headers) \in Nat
  BY <1>1, LenProperties DEF HostHeaders
<1>3. Max(HostHeaders(l)) \in HostHeaders(l)
  BY <1>2, MaxIsThere
<1>4. l.headers[Max(HostHeaders(l))] \in Range(l.headers)
  BY <1>1, <1>2, <1>3 DEF Range, HostHeaders
<1>5. n \in NamesToResolve
  BY <1>4 DEF NamesToResolve
<1> QED
  BY <1>5, NameMeans DEF AskedOf

\* With all headers read, an address is that of the name the client gives, or the
\* parent's.
LEMMA NamedIsMeant ==
  ASSUME NEW l \in Lines, ~IsMalformed(Text(l)), NEW parent,
         ReqUpTo(l, parent, Len(l.headers)).addr # AnyAddress
  PROVE  ReqUpTo(l, parent, Len(l.headers)) =
             IF NamedBy(l) # <<>> THEN Meant(NamedBy(l)) ELSE parent
PROOF
<1> DEFINE r == ReqUpTo(l, parent, Len(l.headers))
<1>1. InGrammar(l)
  BY LinesAssumption
<1>2. /\ IsTransparent(Text(l)) <=> l.scheme = <<>> /\ l.verb # <<"CONNECT">>
      /\ ~IsTransparent(Text(l)) /\ ServerName(Text(l)) = <<>> => l.name = <<>>
  <2>1. \A c, d \in Seq(Token) : \A k \in 1 .. Len(d) : c \o SubSeq(d, 1, k) # <<>>
    <3> SUFFICES ASSUME NEW c \in Seq(Token), NEW d \in Seq(Token), NEW k \in 1 .. Len(d)
                 PROVE  c \o SubSeq(d, 1, k) # <<>>
      OBVIOUS
    <3>1. Len(c \o SubSeq(d, 1, k)) = Len(c) + k /\ Len(c) \in Nat /\ k \in Nat \ {0}
      BY JoinedPart, LenProperties
    <3> QED
      BY <3>1
  <2> QED
    BY <1>1, <2>1, KindOfLine DEF IsWithQuery
<1>3. CASE ~IsTransparent(Text(l))
  <2>1. NamedBy(l) = l.name
    BY <1>2, <1>3 DEF NamedBy
  <2>2. CASE ServerName(Text(l)) = <<>>
    BY <1>2, <1>3, <2>1, <2>2 DEF ReqUpTo
  <2>3. CASE ServerName(Text(l)) # <<>>
    <3>1. r = AskedOf(ServerName(Text(l)))
      BY <1>3, <2>3 DEF ReqUpTo
    <3>2. Resolve(HostPart(ServerName(Text(l)))) # AnyAddress
      BY <3>1 DEF AskedOf
    <3> QED
      BY <1>3, <2>1, <2>3, <3>1, <3>2, NameInLine
  <2> QED
    BY <2>2, <2>3
<1>4. CASE IsTransparent(Text(l))
  <2>1. HostsUpTo(l, Len(l.headers)) = HostHeaders(l)
    <3>1. l.headers \in Seq(Header)
      BY <1>1 DEF InGrammar, Header
    <3>2. DOMAIN l.headers = 1 .. Len(l.headers)
      BY <3>1
    <3> QED
      BY <3>2 DEF HostsUpTo, HostHeaders
  <2>2. NamedBy(l) = IF HostHeaders(l) = {} THEN <<>>
                     ELSE l.headers[Max(HostHeaders(l))].value
    BY <1>2, <1>4 DEF NamedBy
  <2>3. CASE HostHeaders(l) = {}
    BY <1>4, <2>1, <2>2, <2>3 DEF ReqUpTo
  <2>4. CASE HostHeaders(l) # {}
    <3> DEFINE n == l.headers[Max(HostHeaders(l))].value
    <3>1. r = AskedOf(n)
      BY <1>4, <2>1, <2>4 DEF ReqUpTo
    <3>2. Resolve(HostPart(n)) # AnyAddress
      BY <3>1 DEF AskedOf
    <3>3. AskedOf(n) = Meant(n)
      BY <2>4, <3>2, NameInHeader
    <3>4. n # <<>>
      <4>1. l.headers \in Seq(Header)
        BY <1>1 DEF InGrammar, Header
      <4>2. HostHeaders(l) \in SUBSET (1 .. Len(l.headers)) /\ Len(l.headers) \in Nat
        BY <4>1, LenProperties DEF HostHeaders
      <4>3. Max(HostHeaders(l)) \in HostHeaders(l)
        BY <2>4, <4>2, MaxIsThere
      <4> QED
        BY <4>3 DEF HostHeaders
    <3> QED
      BY <2>2, <2>4, <3>1, <3>3, <3>4
  <2> QED
    BY <2>3, <2>4
<1> QED
  BY <1>3, <1>4

\* The parts of the invariant together.
TargetInv ==
    /\ RecursionInv /\ OptionsInv /\ ParentInv /\ RequestInv /\ HeadersInv /\ PeerInv

LEMMA TargetInvHolds == Init => TargetInv
PROOF
  BY InitRecursionInv, InitOptionsInv, InitParentInv, InitRequestInv, InitTargetInv DEF TargetInv

LEMMA NextTargetInv == TargetInv /\ [Next]_vars => TargetInv'
PROOF
  BY NextRecursionInv, NextOptionsInv, NextParentInv, NextRequestInv, NextHeadersInv,
     NextPeerInv DEF TargetInv

\* Past the headers, an address that was found is the intended server's.
LEMMA AddressIsIntended ==
  ASSUME TargetInv, pc \in PastTheLine \ {"headers"}, ~HasAt(line), req.addr # AnyAddress
  PROVE  req = Intended /\ req = [addr |-> req.addr, port |-> req.port]
PROOF
<1> USE DEF TargetInv
<1>1. mainPc = "accepting" /\ defparam.req = ParentOf(srv.host)
  BY DEF RecursionInv, WorkerComesLater, ParentInv, PastTheLine
<1>2. line \in Lines /\ ~IsMalformed(Text(line))
  BY DEF RequestInv, PastTheLine
<1>3. req.addr # AnyAddress
  OBVIOUS
<1>4. req = ReqUpTo(line, ParentOf(srv.host), Len(line.headers))
  <2>1. /\ headers = <<>> /\ StillToRead(headers, line.headers)
        /\ req = ReqUpTo(line, ParentOf(srv.host), Len(line.headers) - Len(headers))
    BY <1>1 DEF HeadersInv, PastTheLine
  <2>2. Len(line.headers) - Len(headers) = Len(line.headers)
    <3>1. Len(headers) = 0 /\ Len(line.headers) \in Nat
      BY <2>1, LenProperties, EmptySeq DEF StillToRead
    <3> QED
      BY <3>1
  <2> QED
    BY <2>1, <2>2
<1>5. req = IF NamedBy(line) # <<>> THEN Meant(NamedBy(line)) ELSE ParentOf(srv.host)
  BY <1>2, <1>3, <1>4, NamedIsMeant
<1>6. ASSUME NamedBy(line) = <<>> PROVE ParentOf(srv.host) = ParentProxy
  <2>1. req = ParentOf(srv.host)
    BY <1>5, <1>6
  <2>2. srv.host # <<>>
    BY <1>3, <2>1 DEF ParentOf, NoParent
  <2>3. srv.host \in NamesToResolve
    BY <2>2 DEF ParentInv
  <2> DEFINE n == srv.host
  <2>4. ParentOf(n) = [addr |-> Resolve(HostPart(n)), port |-> PortPart(n, 3128)]
    BY <2>2 DEF ParentOf
  <2>5. Resolve(HostPart(n)) # AnyAddress
    BY <1>3, <2>1, <2>4
  <2>6. /\ Meant(n) = [addr |-> Resolve(HostPart(n)), port |-> PortPart(n, 80)]
        /\ PortPart(n, 3128) = IF \E i \in DOMAIN n : n[i] = ":" THEN PortPart(n, 80)
                               ELSE 3128
    BY <2>3, <2>5, NameMeans
  <2> QED
    BY <2>4, <2>6 DEF ParentProxy
<1>7. req = Intended
  BY <1>5, <1>6 DEF Intended
<1>8. req = [addr |-> req.addr, port |-> req.port]
  <2> DEFINE IsPair(r) == r = [addr |-> r.addr, port |-> r.port]
  <2>1. \A n : IsPair(AskedOf(n)) /\ IsPair(ParentOf(n))
    BY DEF AskedOf, ParentOf, NoParent
  <2> HIDE DEF IsPair
  <2>2. IsPair(req)
    BY <1>4, <2>1 DEF ReqUpTo
  <2> QED
    BY <2>2 DEF IsPair
<1> QED
  BY <1>7, <1>8

\* A connected socket leads to the server that the request names.
THEOREM ConnectedAsNamed == Spec => []ConnectedToTheNamedServer
PROOF
<1>1. TargetInv => ConnectedToTheNamedServer
  <2> SUFFICES ASSUME TargetInv, Serving, server.state = "connected", ~HasAt(line)
               PROVE  server.peer = <<Intended>>
    BY DEF ConnectedToTheNamedServer
  <2>1. req.addr # AnyAddress /\ server.peer = <<[addr |-> req.addr, port |-> req.port]>>
    BY DEF TargetInv, PeerInv, Serving
  <2>2. pc \in PastTheLine \ {"headers"}
    BY DEF Serving, PastTheLine
  <2> QED
    BY <2>1, <2>2, AddressIsIntended
<1> QED
  BY <1>1, TargetInvHolds, NextTargetInv, PTL DEF Spec

-----------------------------------------------------------------------------
(* The recursion page.                                                     *)

\* The worker has failed by it, and the request names the proxy's own address.
PageInv ==
    /\ outcome = "recursion" =>
         /\ pc = "failed" /\ srv.intip # AnyAddress
         /\ ~HasAt(line) => Intended = Itself
    /\ pc \in {"none", "line", "delimiters", "delimiter"} \cup PastTheLine
       => outcome = "none"

LEMMA InitPageInv == Init => PageInv
PROOF
  BY DEF Init, PageInv

\* It stays who it is.
LEMMA SameIntended ==
  ASSUME UNCHANGED <<mainVars, line>>
  PROVE  Intended' = Intended /\ Itself' = Itself /\ HasAt(line)' = HasAt(line) /\ srv' = srv
BY DEF Intended, ParentProxy, Itself, mainVars

\* Only Connect gives the page, when the address is the proxy's.
LEMMA ConnectKeepsPageInv ==
  ASSUME TargetInv, PageInv, Connect PROVE PageInv'
PROOF
<1>1. /\ pc = "connect" /\ UNCHANGED <<mainVars, line>>
      /\ \/ pc' = "failed" /\ outcome' = "recursion"
            /\ [addr |-> server.addr, port |-> server.port] = Itself
         \/ pc' = "credentials" /\ outcome' = outcome
  BY DEF Connect, Fail, IsRecursion, Itself, given
<1>2. outcome = "none" /\ pc \in PastTheLine \ {"headers"}
  BY <1>1 DEF PageInv, PastTheLine
<1>3. req.addr # AnyAddress /\ server.addr = req.addr /\ server.port = req.port
  BY <1>1 DEF TargetInv, PeerInv
<1>4. ~HasAt(line) => Intended = [addr |-> server.addr, port |-> server.port]
  BY <1>2, <1>3, AddressIsIntended
<1>5. Intended' = Intended /\ Itself' = Itself /\ HasAt(line)' = HasAt(line) /\ srv' = srv
  BY <1>1, SameIntended
<1>6. [addr |-> server.addr, port |-> server.port] = Itself => server.addr = srv.intip
  <2>1. Itself.addr = srv.intip
    BY DEF Itself
  <2> QED
    BY <2>1
<1>7. CASE pc' = "credentials" /\ outcome' = outcome
  BY <1>2, <1>7 DEF PageInv
<1>8. CASE pc' = "failed" /\ [addr |-> server.addr, port |-> server.port] = Itself
  <2>1. srv'.intip # AnyAddress
    BY <1>3, <1>5, <1>6, <1>8
  <2>2. ~HasAt(line)' => Intended' = Itself'
    BY <1>4, <1>5, <1>8
  <2> QED
    BY <1>8, <2>1, <2>2 DEF PageInv, PastTheLine
<1> QED
  BY <1>1, <1>7, <1>8

\* The other steps give another outcome or none.
LEMMA NextPageInv ==
  ASSUME TargetInv, PageInv, [Next]_vars PROVE PageInv'
PROOF
<1>1. ASSUME outcome = "none",
             \/ outcome' = "none"
             \/ pc' = "failed" /\ outcome' # "recursion"
      PROVE  PageInv'
  BY <1>1 DEF PageInv, PastTheLine
<1> USE DEF PageInv, PastTheLine
<1>2. CASE RejectLine \/ HostNotFound \/ SocketFails
  BY <1>1, <1>2 DEF RejectLine, HostNotFound, SocketFails, Fail
<1>3. CASE ReadPath \/ ReadServerName \/ ReadUserName \/ ReadHeader
  BY <1>1, <1>3 DEF ReadPath, ReadServerName, ReadUserName, ReadHeader, ReadableLine
<1>4. CASE FindDelimiter \/ NextDelimiter \/ EndHeaders
  BY <1>1, <1>4 DEF FindDelimiter, NextDelimiter, EndHeaders
<1>5. CASE OpenSocket \/ Bind \/ BindAnyPort \/ AddCredentials
  BY <1>1, <1>5 DEF OpenSocket, Bind, BindAnyPort, AddCredentials
<1>6. CASE Connect
  BY <1>6, ConnectKeepsPageInv
<1>7. CASE Accept
  BY <1>1, <1>7 DEF Accept
<1>8. CASE MainNext /\ UNCHANGED workerVars
  <2>1. mainPc # "accepting"
    BY <1>8, MainIsDone
  <2>2. pc = "none" /\ outcome' = outcome
    BY <1>8, <2>1 DEF TargetInv, RecursionInv, WorkerComesLater, workerVars
  <2> QED
    BY <1>1, <2>2
<1>9. CASE UNCHANGED vars
  <2>1. UNCHANGED <<mainVars, line>> /\ pc' = pc /\ outcome' = outcome
    BY <1>9 DEF vars, mainVars, workerVars
  <2>2. Intended' = Intended /\ Itself' = Itself /\ HasAt(line)' = HasAt(line) /\ srv' = srv
    BY <2>1, SameIntended
  <2> QED
    BY <2>1, <2>2
<1> QED
  BY <1>2, <1>3, <1>4, <1>5, <1>6, <1>7, <1>8, <1>9 DEF Next, WorkerNext

\* A proxy that was given an address with -i does not go on with a connection to it,
\* and only requests that name that address get the page.
THEOREM NoRecursion == Spec => []RecursionIsDetected
PROOF
<1>1. TargetInv /\ PageInv => RecursionIsDetected
  BY DEF TargetInv, RecursionInv, OnlyPassedConnections, PageInv, RecursionIsDetected,
         Serving, Itself
<1>2. TargetInv /\ PageInv /\ [Next]_vars => (TargetInv /\ PageInv)'
  BY NextTargetInv, NextPageInv
<1> QED
  BY <1>1, <1>2, TargetInvHolds, InitPageInv, NextTargetInv, PTL DEF Spec
=============================================================================
