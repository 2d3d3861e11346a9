------------------------------- MODULE Bench --------------------------------
(***************************************************************************)
(* The comparison of the routes (crates/bridge/src/bench.rs): every        *)
(* configured route fetches the same file, one after the other, and the    *)
(* fastest is named.  What a route does is a sequence of events, each a    *)
(* while after the one before; a sequence that ends early falls silent.    *)
(*                                                                         *)
(* A text is a sequence of characters: a digit is its value, the marks     *)
(* have numbers of their own and any other number is a letter.             *)
(***************************************************************************)
EXTENDS Routing, Integers, FiniteSets, Sequences, SequencesExt

-----------------------------------------------------------------------------
(* The address.                                                            *)

Colon == 10
Open == 11
Shut == 12
Plus == 13

ParsePort(text) ==
  LET bare == IF text # << >> /\ Head(text) = Plus THEN Tail(text) ELSE text
      value == FoldLeft(LAMBDA sum, d : 10 * sum + d, 0, bare)
  IN IF bare # << >> /\ Range(bare) \subseteq 0 .. 9 /\ value \in 1 .. 65535 THEN {value} ELSE {}

Where(host, ports) == {[host |-> host, port |-> p] : p \in ports}

\* split_host_port: in brackets up to the first that closes, otherwise up to
\* the last colon; no colon means the default.
SplitHostPort(text, default) ==
  LET At(mark) == {i \in DOMAIN text : text[i] = mark}
      After(i) == SubSeq(text, i + 1, Len(text))
  IN IF text # << >> /\ Head(text) = Open
     THEN UNION {LET host == SubSeq(text, 2, i - 1)
                 IN CASE After(i) = << >> -> Where(host, {default})
                      [] After(i) # << >> /\ Head(After(i)) = Colon -> Where(host, ParsePort(Tail(After(i))))
                      [] OTHER -> {} :
                   i \in {j \in At(Shut) : \A k \in At(Shut) : j <= k}}
     ELSE IF At(Colon) = {} THEN Where(text, {default})
     ELSE UNION {Where(SubSeq(text, 1, i - 1), ParsePort(After(i))) :
                   i \in {j \in At(Colon) \ {1} : \A k \in At(Colon) : k <= j}}

Decimal[n \in Nat] == IF n < 10 THEN <<n>> ELSE Append(Decimal[n \div 10], n % 10)

HostHeader(host, port) ==
  CASE port = 80 -> host
    [] port # 80 /\ Colon \in Range(host) /\ Head(host) # Open ->
         <<Open>> \o host \o <<Shut, Colon>> \o Decimal[port]
    [] OTHER -> host \o <<Colon>> \o Decimal[port]

-----------------------------------------------------------------------------
(* One route.                                                              *)

\* What if the head counted for a part of the file?
Take_WithHead(m, e, limit) ==
  IF e.is \in {"head", "data"} THEN [m EXCEPT !.at = "body", !.bytes = @ + e.bytes + 1]
  ELSE [m EXCEPT !.at = "over", !.error = e.is = "error"]

\* run: the connection, the head and the body.  The bytes that came with the
\* head belong to the body; the end of the stream before the head is an error,
\* after it the end of the file.
Take(m, e, limit) ==
  CASE e.is = "dialed" -> m
    [] e.is = "head" -> [m EXCEPT !.bytes = e.bytes, !.at = IF e.bytes < limit THEN "body" ELSE "over"]
    [] e.is = "data" -> [m EXCEPT !.bytes = @ + e.bytes, !.at = IF m.bytes + e.bytes < limit THEN "body" ELSE "over"]
    [] e.is = "eof" /\ m.at = "body" -> [m EXCEPT !.at = "over"]
    [] OTHER -> [m EXCEPT !.at = "over", !.error = TRUE, !.bytes = 0]

\* What if every event had the whole time for itself?
BenchOne_PerPhase(script, limit, timeout) ==
  LET Step(m, e) ==
        IF m.at = "over" THEN m
        ELSE IF e.after > timeout THEN [m EXCEPT !.elapsed = @ + timeout, !.at = "over", !.error = TRUE, !.bytes = 0]
        ELSE Take([m EXCEPT !.elapsed = @ + e.after], e, limit)
      last == FoldLeft(Step, [at |-> "start", elapsed |-> 0, bytes |-> 0, error |-> FALSE], script)
  IN IF last.at = "over" THEN last
     ELSE [last EXCEPT !.elapsed = @ + timeout, !.at = "over", !.error = TRUE, !.bytes = 0]

\* bench_one: one timeout around all of it; an event at that very moment is
\* still seen.
BenchOne(script, limit, timeout) ==
  LET Late(m) == [m EXCEPT !.elapsed = timeout, !.at = "over", !.error = TRUE, !.bytes = 0]
      Step(m, e) ==
        CASE m.at = "over" -> m
          [] m.at # "over" /\ m.elapsed + e.after > timeout -> Late(m)
          [] OTHER -> Take([m EXCEPT !.elapsed = @ + e.after], e, limit)
      last == FoldLeft(Step, [at |-> "start", elapsed |-> 0, bytes |-> 0, error |-> FALSE], script)
  IN IF last.at = "over" THEN last ELSE Late(last)

\* bench_all: direct is always measured.
Benched(up) ==
  <<DirectRoute>> \o (IF up.socks # None THEN <<SocksRoute(up)>> ELSE << >>)
                  \o (IF up.http # None THEN <<HttpRoute(up)>> ELSE << >>)
BenchAll(up, does, limit, timeout) ==
  [i \in DOMAIN Benched(up) |-> [route |-> Benched(up)[i], took |-> BenchOne(does[Benched(up)[i].via], limit, timeout)]]

\* speed_bps, with the time in milliseconds.
SpeedBps(m) == IF m.error \/ m.elapsed = 0 THEN {} ELSE {(m.bytes * 1000) \div m.elapsed}

\* fastest: of equals the last.
Fastest(rows) ==
  LET Beats(row, other) == \A s \in SpeedBps(row.took), t \in SpeedBps(other.took) : s >= t
      Better(best, row) ==
        IF SpeedBps(row.took) # {} /\ \A b \in best : Beats(row, b) THEN {row} ELSE best
  IN FoldLeft(Better, {}, rows)

-----------------------------------------------------------------------------
(* Properties, over bounded texts and scripts.                             *)

\* The Host header names the host and the port that were asked for; except that
\* an IPv6 address on the port that is not written loses its brackets.
HeaderNamesTheHost(texts) ==
  \A text \in texts : \A w \in SplitHostPort(text, 80) :
    w.host # << >> /\ {Open, Shut} \cap Range(w.host) = {} /\ ~(w.port = 80 /\ Colon \in Range(w.host)) =>
      SplitHostPort(HostHeader(w.host, w.port), 80) = {w}

\* The bytes of the body that a script brings in time, and whether that is all.
Body(script, timeout) ==
  LET InTime == {i \in DOMAIN script :
        FoldLeft(LAMBDA sum, e : sum + e.after, 0, SubSeq(script, 1, i)) <= timeout}
  IN FoldLeft(LAMBDA sum, e : IF e.is \in {"head", "data"} THEN sum + e.bytes ELSE sum, 0,
              SubSeq(script, 1, Cardinality(InTime)))

\* The comparison is honest: each configured route is measured, none takes
\* longer than the timeout, what counts is the body, as far as the limit or the
\* end; a route that failed or ran out of time is never the fastest, no route
\* that worked is faster, and there is a fastest if any took time and worked.
ComparisonIsHonest(scripts, limit, timeout, ups) ==
  \A up \in ups, does \in [{"direct", "socks", "http"} -> scripts] :
    \A rows \in {BenchAll(up, does, limit, timeout)} :
      LET Works == {i \in DOMAIN rows : ~rows[i].took.error}
      IN /\ {rows[i].route : i \in DOMAIN rows}
              = {r \in {DirectRoute, SocksRoute(up), HttpRoute(up)} : r = DirectRoute \/ r.addr # None}
         /\ \A i \in DOMAIN rows :
              LET m == rows[i].took
                  body == Body(does[rows[i].route.via], timeout)
              IN /\ m.elapsed <= timeout
                 /\ i \in Works => m.bytes = body \/ (m.bytes >= limit /\ m.bytes <= body)
                 /\ i \notin Works => m.bytes = 0
         /\ \A best \in Fastest(rows) : \A i \in Works :
              /\ ~best.took.error
              /\ rows[i].took.elapsed > 0 =>
                   (rows[i].took.bytes * 1000) \div rows[i].took.elapsed
                     <= (best.took.bytes * 1000) \div best.took.elapsed
         /\ Fastest(rows) = {} => \A i \in Works : rows[i].took.elapsed = 0
=============================================================================
