------------------------------- MODULE Startup -------------------------------
(***************************************************************************)
(* main before its accept loop: the options, the addresses and the parent  *)
(* proxy they give, and the socket that is bound, again and again while    *)
(* the port is taken, and listened on.                                     *)
(***************************************************************************)
EXTENDS RequestTarget, Integers

CONSTANTS
    CommandLines,   \* sequences of [flag, value]; flag "" is no option
    Resolve(_),     \* getip: the address of a name, or AnyAddress
    SleepBits       \* the width of sleeptime, an unsigned

ASSUME CommandLinesAssumption ==
    CommandLines \subseteq Seq([flag : STRING, value : Seq(STRING)])
ASSUME SleepBitsAssumption == SleepBits \in Nat \ {0}

AnyAddress == "0"                               \* INADDR_ANY, conf.intip
DefaultPort == 3128
SLEEPTIME == 1

VARIABLES
    argv,           \* what the loop over the options has not read yet
    commandLine,
    srv,            \* [intip, extip, intport], hostname's text, error
    defparam,       \* what every worker starts as: [hostname, req, extip]
    mainPc,         \* "options", "socket", "bind", "sleep", "listen", "accepting" or "exited"
    bound,          \* the address and port of defparam's client SockBuf
    sleeptime,
    result          \* what main returns
mainVars == <<argv, commandLine, srv, defparam, mainPc, bound, sleeptime, result>>

MainInit ==
    /\ commandLine \in CommandLines
    /\ argv = commandLine
    /\ srv = [intip |-> AnyAddress, extip |-> AnyAddress, intport |-> 0,
              host |-> <<>>, error |-> FALSE]
    /\ defparam = [hostname |-> <<>>, req |-> [addr |-> AnyAddress, port |-> 0],
                   extip |-> AnyAddress]
    /\ mainPc = "options"
    /\ bound = [addr |-> AnyAddress, port |-> 0]
    /\ sleeptime = 0
    /\ result = 0

(* The options that change nothing that is looked at here. *)
Quiet == {"l", "b", "n", "t", "u"}

(* Faulty variant of WithOption: what a second -i gives is not taken. *)
WithFirstAddress(s, o) ==
    CASE o.flag = "i" /\ s.intip = AnyAddress -> [s EXCEPT !.intip = Resolve(o.value)]
      [] o.flag = "e" -> [s EXCEPT !.extip = Resolve(o.value)]
      [] o.flag = "p" -> [s EXCEPT !.intport = Port(Atoi(o.value))]
      [] o.flag = "h" -> [s EXCEPT !.host = o.value]
      [] o.flag \in Quiet \cup {"i"} -> s
      [] OTHER -> [s EXCEPT !.error = TRUE]

(* The switch; htons keeps 16 bits of the number. *)
WithOption(s, o) ==
    CASE o.flag = "i" -> [s EXCEPT !.intip = Resolve(o.value)]
      [] o.flag = "e" -> [s EXCEPT !.extip = Resolve(o.value)]
      [] o.flag = "p" -> [s EXCEPT !.intport = Port(Atoi(o.value))]
      [] o.flag = "h" -> [s EXCEPT !.host = o.value]
      [] o.flag \in Quiet -> s
      [] OTHER -> [s EXCEPT !.error = TRUE]

ReadOption ==
    /\ mainPc = "options"
    /\ argv # <<>>
    /\ Head(argv).flag # ""
    /\ srv' = WithOption(srv, Head(argv))
    /\ argv' = Tail(argv)
    /\ UNCHANGED <<commandLine, defparam, mainPc, bound, sleeptime, result>>

(* The loop ends with the options, or at the first thing that is none. *)
OptionsRead == mainPc = "options" /\ (argv # <<>> => Head(argv).flag = "")

Exit(code) == mainPc' = "exited" /\ result' = code

Usage ==
    /\ OptionsRead
    /\ srv.error \/ argv # <<>>
    /\ Exit(1)
    /\ UNCHANGED <<argv, commandLine, srv, defparam, bound, sleeptime>>

(* The addresses that were not given are conf's, which nothing has set; the *)
(* default port; parsehostname(hostname, &defparam, 3128).                  *)
SetDefaults ==
    /\ OptionsRead
    /\ ~srv.error /\ argv = <<>>
    /\ bound' = [addr |-> srv.intip,
                 port |-> IF srv.intport = 0 THEN DefaultPort ELSE srv.intport]
    /\ srv' = [srv EXCEPT !.intport = bound'.port]
    /\ defparam' =
          [hostname |-> HostPart(srv.host),
           req |-> IF srv.host = <<>> THEN defparam.req
                   ELSE [addr |-> Resolve(HostPart(srv.host)),
                         port |-> PortPart(srv.host, 3128)],
           extip |-> srv.extip]
    /\ mainPc' = "socket"
    /\ UNCHANGED <<argv, commandLine, sleeptime, result>>

OpenListener ==
    /\ mainPc = "socket"
    /\ \/ mainPc' = "bind" /\ sleeptime' = SLEEPTIME * 100 /\ UNCHANGED result
       \/ Exit(-2) /\ UNCHANGED sleeptime
    /\ UNCHANGED <<argv, commandLine, srv, defparam, bound>>

(* Nothing reads sleeptime from here on. *)
BindSucceeds ==
    /\ mainPc = "bind"
    /\ mainPc' = "listen"
    /\ sleeptime' = 0
    /\ UNCHANGED <<argv, commandLine, srv, defparam, bound, result>>

(* Faulty variant of Doubled: a sleep that stays at the largest number. *)
DoubledUpTo(t) == IF 2 * t >= 2 ^ SleepBits THEN t ELSE 2 * t

(* sleeptime << 1 of an unsigned. *)
Doubled(t) == (2 * t) % 2 ^ SleepBits

(* The port is taken.  main waits twice as long each time, and gives up    *)
(* when the last bit has left sleeptime.                                   *)
BindFails ==
    /\ mainPc = "bind"
    /\ sleeptime' = Doubled(sleeptime)
    /\ IF sleeptime' = 0 THEN Exit(-3) ELSE mainPc' = "sleep" /\ UNCHANGED result
    /\ UNCHANGED <<argv, commandLine, srv, defparam, bound>>

Sleep ==
    /\ mainPc = "sleep"
    /\ mainPc' = "bind"
    /\ UNCHANGED <<argv, commandLine, srv, defparam, bound, sleeptime, result>>

Listen ==
    /\ mainPc = "listen"
    /\ \/ mainPc' = "accepting" /\ UNCHANGED result
       \/ Exit(-4)
    /\ UNCHANGED <<argv, commandLine, srv, defparam, bound, sleeptime>>

MainNext ==
    \/ ReadOption \/ Usage \/ SetDefaults
    \/ OpenListener \/ BindSucceeds \/ BindFails \/ Sleep \/ Listen
-----------------------------------------------------------------------------
(* The places of an option, and the value that the last of them gives. *)
OptionPlaces(flag) == {i \in DOMAIN commandLine : commandLine[i].flag = flag}
LastValue(flag) == commandLine[Max(OptionPlaces(flag))].value

(* What the command line asks for: the last -i and the last -p count. *)
AskedAddress == IF OptionPlaces("i") = {} THEN AnyAddress ELSE Resolve(LastValue("i"))
AskedPort == IF OptionPlaces("p") = {} \/ Atoi(LastValue("p")) = 0
             THEN DefaultPort ELSE Atoi(LastValue("p"))

IsKnownOption(o) == o.flag \in Quiet \cup {"i", "e", "p", "h"}

(* The proxy accepts connections where the last -i and -p say, which is    *)
(* also the address that connectToServer's recursion check compares with,  *)
(* and it does so only when main knows everything on the command line,     *)
(* wherever it stands.  For port numbers that are port numbers.            *)
ListensWhereAsked ==
    mainPc = "accepting"
    => /\ \A i \in DOMAIN commandLine : IsKnownOption(commandLine[i])
       /\ AskedPort < 65536
          => /\ bound = [addr |-> AskedAddress, port |-> AskedPort]
             /\ bound = [addr |-> srv.intip, port |-> srv.intport]

(* Startup ends, with a proxy that accepts or with main's return, even     *)
(* when the port stays taken for ever: sleeptime leaves its width.         *)
StartupEnds == <>(mainPc \in {"accepting", "exited"})
=============================================================================
