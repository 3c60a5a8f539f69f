----------------------------- MODULE MCOutbound -----------------------------
(***************************************************************************)
(* Instances for TLC: a server, the proxy itself, a name that no resolver  *)
(* knows and a parent proxy; lines of every form with and without a path,  *)
(* a version, user names before and inside the name, and Host headers that *)
(* agree with the line, contradict it, or repeat.                          *)
(***************************************************************************)
EXTENDS Outbound

H == <<"h">>
Me == <<"me", ":", "3128">>
Names == {<<>>, H, <<"h", ":", "81">>, Me, <<"nosuch">>,
          <<"u", ":", "p", "@", "h">>, <<"@", "h">>, <<"u", "%40", ":", "h">>,
          <<"@", "a", ":", "b", ":", "c", ":", "d">>,
          <<"@", "a", ":", "b", ":", "c", "c">>,
          <<"@", "a", ":", "b", ":", "c", "d", ":", "e">>}
HostNames == {<<>>, H, Me, <<"nosuch">>}
Host(n) == [key |-> "Host", value |-> n]
Other == [key |-> "Other", value |-> H]
SomeHeaders == {<<>>, <<Other>>} \cup {<<Host(n)>> : n \in HostNames}
               \cup {<<Host(H), Other, Host(n)>> : n \in HostNames}

Version == <<SP, "HTTP", "/", "1.0">>
Request(verb, scheme, name, path, version, hosts) ==
    [verb |-> verb, scheme |-> scheme, name |-> name, path |-> path,
     version |-> version, headers |-> hosts]

Verbs == {<<"GET">>, <<"G", "@", "T">>}
Paths == {<<>>, <<"/">>, <<"/", "p">>, <<"/", "p", "@", "q">>, <<"?", "q">>}
SomeLines ==
    {Request(v, <<"http:", "/", "/">>, n, p, w, hs) :
        v \in Verbs, n \in Names, p \in Paths, w \in {<<>>, Version},
        hs \in {<<>>, <<Host(Me)>>}}
    \cup {Request(v, <<>>, <<>>, p, Version, hs) :
             v \in Verbs, p \in Paths \ {<<>>, <<"?", "q">>}, hs \in SomeHeaders}
    \cup {Request(<<"CONNECT">>, <<>>, n, <<>>, w, hs) :
             n \in Names, w \in {<<>>, Version}, hs \in {<<>>, <<Host(Me)>>}}
    \cup {Request(<<"GET">>, <<"ftp:", "/", "/">>, H, <<"/">>, Version, <<>>)}

TooShortLine(text) == Len(text) < 3

Option(f, v) == [flag |-> f, value |-> v]
I(n) == Option("i", n)
E(n) == Option("e", n)
Parent == Option("h", <<"parent">>)
ParentPort == Option("h", <<"parent", ":", "81">>)
Port80 == Option("p", <<"80">>)
\* Those that start a proxy: with every option, with one given twice, with an
\* address that does not resolve; and those that do not.
SomeCommandLines ==
    { <<>>, <<I(<<"me">>)>>, <<E(<<"there">>)>>, <<Parent>>, <<ParentPort>>,
      <<I(<<"me">>), Parent>>, <<E(<<"there">>), Parent>>,
      <<I(<<"there">>), I(<<"me">>), Port80>>, <<I(<<"nosuch">>), Option("p", <<"65616">>)>>,
      <<I(<<"me">>), Option("p", <<"0">>), Parent>> }
    \cup { <<I(<<"me">>), Option("x", <<>>)>>, <<Option("x", <<>>), Port80>>,
           <<Port80, Option("", <<"file">>), I(<<"me">>)>> }

AddressOf(name) ==
    CASE name = <<"h">> -> "H"
      [] name = <<"me">> -> "ME"
      [] name = <<"there">> -> "THERE"
      [] name = <<"parent">> -> "PARENT"
      [] OTHER -> AnyAddress

MeantBy(name) ==
    CASE name = H -> [addr |-> "H", port |-> 80]
      [] name = <<"h", ":", "81">> -> [addr |-> "H", port |-> 81]
      [] name = Me -> [addr |-> "ME", port |-> 3128]
      [] name = <<"me">> -> [addr |-> "ME", port |-> 80]
      [] name = <<"there">> -> [addr |-> "THERE", port |-> 80]
      [] name = <<"parent">> -> [addr |-> "PARENT", port |-> 80]
      [] name = <<"parent", ":", "81">> -> [addr |-> "PARENT", port |-> 81]
      [] OTHER -> [addr |-> AnyAddress, port |-> 80]

\* The codes of the characters of a user name and a password.
CodeOf(c) ==
    CASE c = "@" -> 64 [] c = ":" -> 58 [] c = "a" -> 97 [] c = "b" -> 98
      [] c = "c" -> 99 [] c = "d" -> 100 [] c = "e" -> 101 [] c = "u" -> 117
      [] OTHER -> 104
=============================================================================
