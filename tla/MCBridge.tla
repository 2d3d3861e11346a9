------------------------------ MODULE MCBridge ------------------------------
(***************************************************************************)
(* An instance of Bridge for TLC: two clients that compete for a limit of  *)
(* one connection, two hard errors in a row to stop, two transient ones to *)
(* pause, one host on the bypass list and one off it, two routes; and the  *)
(* functions around it over small sets of inputs.                          *)
(***************************************************************************)
EXTENDS Bridge, SequencesExt

CONSTANTS s1, h1

SocksAndHttp == {[via |-> "socks", addr |-> s1], [via |-> "http", addr |-> h1]}

UpTo(S, n) == UNION {[1 .. k -> S] : k \in 0 .. n}

-----------------------------------------------------------------------------
(* Addresses of three bits, lengths that fit and that do not, with a sign  *)
(* or a zero in front; names in two spellings, with and without dots.      *)

Labels == {"", "a", "A", "b"}
MCFolded == [l \in Labels |-> IF l = "A" THEN "a" ELSE l]

L == INSTANCE BypassList WITH Width <- 3, Folded <- MCFolded

Lengths == UpTo({0, 2, 3, 4, L!Plus}, 2)
Networks == {L!Net(a, b) : a \in L!Addresses, b \in Lengths}
Names == UNION {[1 .. n -> Labels] : n \in 1 .. 3} \ {<<"">>}
Elements ==
  {L!Local, L!Ip4(5), L!Ip6(1), L!Net(4, <<1>>)}
  \cup {L!Name(n) : n \in {<<"a">>, <<"b", "A">>, <<"", "a">>, <<"", "B">>, <<"", "b", "a">>, <<"", "">>} \cap Names}

BypassFacts ==
  /\ L!NetworksAreExact(Networks)
  /\ L!ListsAgree(UpTo(Elements, 2),
       {L!Name(n) : n \in Names} \cup {L!Ip4(a) : a \in L!Addresses} \cup {L!Ip6(1), L!Ip6(2)})

-----------------------------------------------------------------------------
(* Texts of brackets, colons, digits and a letter; scripts in which every  *)
(* event may be the one that is late, the last or an error.                *)

B == INSTANCE Bench

Texts == UpTo({B!Colon, B!Open, B!Shut, 8, 0, 99}, 5)
Start(n, t) == [is |-> "head", bytes |-> n, after |-> t]
Data(t) == [is |-> "data", bytes |-> 2, after |-> t]
Ends == {[is |-> k, after |-> t] : k \in {"eof", "error"}, t \in {0, 3}}
Transfers ==
  {<< >>} \cup {<<e>> : e \in Ends} \cup {<<[is |-> "dialed", after |-> 1], Start(n, t)>> : n \in {0, 3}, t \in {0, 3}}
  \cup {<<Start(0, 1), Data(t), e>> : t \in {1, 2}, e \in Ends}
  \cup {<<Start(1, 0), Data(0), Data(t)>> : t \in {0, 4}}

C == INSTANCE CommandLine WITH Ports <- {"3129", "80"}, Addrs <- {"s:1", "h:1"}, Nets <- {}, None <- "none"

ToolFacts ==
  /\ B!HeaderNamesTheHost(Texts)
  /\ B!ComparisonIsHonest(Transfers, 3, 4,
       {[socks |-> s1, http |-> h1], [socks |-> None, http |-> h1], [socks |-> None, http |-> None]})
  /\ C!RunsAsAsked({"80", "s:1", "h:1", "auto", "http", "--mode", "--help"}, {"80"}, 0 .. 3)

-----------------------------------------------------------------------------
\* The list of exceptions means in the bridge what a network is, and what
\* Windows is told of it (BypassList.tla); and the connections are always in a
\* state the bridge knows.
BypassIsHonest == TypeOK /\ BypassFacts

\* The comparison of routes and the bridge on its own do what they say (Bench.tla,
\* CommandLine.tla), with routes of the kind the supervisor publishes.
ToolsAreHonest == router \in Routes /\ ToolFacts
=============================================================================
