---------------------------- MODULE CommandLine -----------------------------
(***************************************************************************)
(* The bridge on its own, started from a command line                      *)
(* (crates/bridge/src/main.rs): the arguments one by one, each flag with   *)
(* the argument after it for its value, then the check of the addresses,   *)
(* the decision and the listener.                                          *)
(***************************************************************************)
EXTENDS Routing, Sequences, SequencesExt

CONSTANT Ports     \* arguments that are port numbers, the default among them

Flags == {"--port", "--socks", "--http", "--no-proxy", "--mode"}
Default == [port |-> "3129", socks |-> None, http |-> None, bypass |-> "DEFAULT_NO_PROXY", mode |-> "auto"]

\* What if a flag that repeats did not replace the value?
With_First(cfg, flag, value) ==
  CASE flag = "--port" -> [cfg EXCEPT !.port = value]
    [] flag = "--socks" -> [cfg EXCEPT !.socks = IF @ = None THEN value ELSE @]
    [] flag = "--http" -> [cfg EXCEPT !.http = IF @ = None THEN value ELSE @]
    [] flag = "--no-proxy" -> [cfg EXCEPT !.bypass = value]
    [] flag = "--mode" -> [cfg EXCEPT !.mode = value]

With(cfg, flag, value) ==
  CASE flag = "--port" -> [cfg EXCEPT !.port = value]
    [] flag = "--socks" -> [cfg EXCEPT !.socks = value]
    [] flag = "--http" -> [cfg EXCEPT !.http = value]
    [] flag = "--no-proxy" -> [cfg EXCEPT !.bypass = value]
    [] flag = "--mode" -> [cfg EXCEPT !.mode = value]

\* A port must be a number and a mode one of four at once; the rest is any text,
\* also one that looks like a flag.
Takes(flag, value) ==
  /\ flag = "--port" => value \in Ports
  /\ flag = "--mode" => value \in Modes

\* The loop over the arguments.
Read(args) ==
  LET Step(s, a) ==
        CASE s.says # "go on" -> s
          [] s.says = "go on" /\ s.flag # "" ->
               IF Takes(s.flag, a) THEN [s EXCEPT !.cfg = With(@, s.flag, a), !.flag = ""]
               ELSE [s EXCEPT !.says = "error"]
          [] s.says = "go on" /\ s.flag = "" /\ a \in {"--help", "-h"} -> [s EXCEPT !.says = "help"]
          [] s.says = "go on" /\ s.flag = "" /\ a \in Flags -> [s EXCEPT !.flag = a]
          [] OTHER -> [s EXCEPT !.says = "error"]
      end == FoldLeft(Step, [says |-> "go on", flag |-> "", cfg |-> Default], args)
  IN IF end.says = "go on" /\ end.flag # "" THEN [end EXCEPT !.says = "error"] ELSE end

\* What if the addresses were taken as they are?
Sound_Unchecked(cfg) == TRUE

Sound(cfg) == {cfg.socks, cfg.http} \subseteq Addrs \cup {None}

\* The office is taken for granted, and a configured upstream for alive.
Started(cfg) ==
  LET Assumed(addr) == IF addr = None THEN "down" ELSE "up"
      up == [socks |-> cfg.socks, http |-> cfg.http]
  IN Decide(cfg.mode, up, TRUE, [socks |-> Assumed(cfg.socks), http |-> Assumed(cfg.http)])

\* run: the decisions it can begin to serve with, if any.
Run(args, busy) ==
  {[port |-> r.cfg.port, bypass |-> r.cfg.bypass, decision |-> Started(r.cfg)] :
     r \in {s \in {Read(args)} : s.says = "go on" /\ Sound(s.cfg) /\ s.cfg.port \notin busy}}

-----------------------------------------------------------------------------
(* A property, over bounded sequences of arguments.                        *)

\* The values flag has in the arguments, which are pairs.
Given(pairs, flag) == LET of == SelectSeq(pairs, LAMBDA p : p[1] = flag)
                      IN IF of = << >> THEN {} ELSE {Last(of)[2]}

\* What runs is what was asked: of every flag the last value, in any order of
\* the flags; traffic goes directly only when asked for, when nothing else is
\* configured, or with a word about it; an argument too few or too many, or a
\* flag in the place of a value, and nothing runs, except behind --no-proxy,
\* which takes any text.
RunsAsAsked(words, busy, lengths) ==
  /\ \A pairs \in UNION {[1 .. n -> Flags \X words] : n \in lengths} :
       LET args == FlattenSeq(pairs)
           Asked(flag, default) == IF Given(pairs, flag) = {} THEN default ELSE CHOOSE v \in Given(pairs, flag) : TRUE
           socks == Asked("--socks", None)
           http == Asked("--http", None)
           mode == Asked("--mode", "auto")
       IN /\ \A r \in Run(args, busy) :
               /\ r.port = Asked("--port", "3129") /\ r.port \notin busy
               /\ r.bypass = Asked("--no-proxy", "DEFAULT_NO_PROXY")
               /\ r.decision.route.via = "socks" => r.decision.route.addr = socks /\ mode \in {"socks", "auto"}
               /\ r.decision.route.via = "http" => r.decision.route.addr = http /\ mode \in {"http", "auto"}
               /\ r.decision.route.via = "direct" =>
                    mode = "direct" \/ r.decision.demoted \/ (mode = "auto" /\ {socks, http} = {None})
          /\ \A i \in DOMAIN pairs :
               pairs[i][2] \in Flags /\ pairs[i][1] # "--no-proxy"
                 => Run(args, busy) = {} \/ \E j \in i + 1 .. Len(pairs) : pairs[j][1] = pairs[i][1]
          /\ \A w \in words : Run(Append(args, w), busy) = {}
=============================================================================
