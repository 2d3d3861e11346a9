------------------------------ MODULE Profile ------------------------------
(***************************************************************************)
(* The OpenVPN profile (crates/winnet/src/ovpn_profile.rs): what           *)
(* build_profile makes of the profile the administrator gave out.  It puts *)
(* a block of its own between two markers at the end, after removing the   *)
(* block of an earlier build, every marker without its partner, and the    *)
(* directive that would take name resolution away from everything else.    *)
(*                                                                         *)
(* A text is a sequence of lines, each with the way it ends; a line is     *)
(* what it says and whether a comment follows on it.                       *)
(***************************************************************************)
EXTENDS Integers, Sequences, SequencesExt

Tags == {"ca", "key"}

\* What a line can say, as far as the code tells lines apart.
BEGIN_MARKER == [is |-> "begin", note |-> FALSE]
END_MARKER == [is |-> "end", note |-> FALSE]
Blank == [is |-> "blank", note |-> FALSE]
Says(what) == [is |-> what, note |-> FALSE]
RouteLine(net) == [is |-> "route", note |-> FALSE, net |-> net]

\* Only lines of these kinds are inline tags; the tag they open or close.
Opens(line) == {t \in Tags : line.is = "<" \o t \o ">"}
Closes(line) == {t \in Tags : line.is = "</" \o t \o ">"}

\* detect_line_ending: the majority, a tie is CRLF, no line end at all is LF.
LineEnding(text) ==
  LET crlf == Len(SelectSeq(text, LAMBDA l : l.ends = "crlf"))
      lf == Len(SelectSeq(text, LAMBDA l : l.ends = "lf"))
  IN IF crlf > 0 /\ crlf >= lf THEN "crlf" ELSE "lf"

RawLines(text) == [i \in DOMAIN text |-> text[i].line]

-----------------------------------------------------------------------------
(* classify_lines: one pass that knows which inline block is open.         *)

\* What if a closing tag of any name closed the open block?
KindOf_AnyTag(open, line) ==
  CASE open # {} -> [kind |-> "inline", open |-> IF Closes(line) # {} THEN {} ELSE open]
    [] line = BEGIN_MARKER -> [kind |-> "begin", open |-> {}]
    [] line = END_MARKER -> [kind |-> "end", open |-> {}]
    [] Opens(line) # {} -> [kind |-> "inline", open |-> Opens(line)]
    [] OTHER -> [kind |-> "top", open |-> {}]

\* Inside a block only the tag's own closing line means anything; a marker
\* with a comment behind it is not a marker, a tag with one is still a tag.
KindOf(open, line) ==
  CASE open # {} -> [kind |-> "inline", open |-> open \ Closes(line)]
    [] line = BEGIN_MARKER -> [kind |-> "begin", open |-> {}]
    [] line = END_MARKER -> [kind |-> "end", open |-> {}]
    [] Opens(line) # {} -> [kind |-> "inline", open |-> Opens(line)]
    [] OTHER -> [kind |-> "top", open |-> {}]

\* The kinds, and the tag still open at the end of the text.
Classified(lines) ==
  FoldLeft(LAMBDA acc, line :
             LET k == KindOf(acc.open, line)
             IN [open |-> k.open, kinds |-> Append(acc.kinds, k.kind)],
           [open |-> {}, kinds |-> << >>], lines)

\* normalize_directive: a comment behind a directive and the spacing inside it
\* make no difference.
IsDirective(line, what) == line.is = what

-----------------------------------------------------------------------------
(* drop_mask: what does not survive.                                       *)

\* A begin and an end marker are a pair when no other marker is between them:
\* a later begin marker displaces the one that waits, an end marker uses it up.
Paired(kinds, b, e) ==
  /\ b < e /\ kinds[b] = "begin" /\ kinds[e] = "end"
  /\ \A i \in b + 1 .. e - 1 : kinds[i] \notin {"begin", "end"}

Dropped(lines, kinds, i) ==
  \/ kinds[i] \in {"begin", "end"}
  \/ kinds[i] = "top" /\ IsDirective(lines[i], "block-outside-dns")
  \/ \E b, e \in DOMAIN kinds : Paired(kinds, b, e) /\ b < i /\ i < e

\* The lines that stay, without the blank ones at the end.
TrimEnd(lines) ==
  LET full == {i \in DOMAIN lines : lines[i].is # "blank"}
  IN IF full = {} THEN << >> ELSE SubSeq(lines, 1, CHOOSE i \in full : \A j \in full : j <= i)

Kept(lines, kinds) ==
  LET stays == SelectSeq([i \in DOMAIN lines |-> i], LAMBDA i : ~Dropped(lines, kinds, i))
  IN [n \in DOMAIN stays |-> lines[stays[n]]]

-----------------------------------------------------------------------------
\* What if a filter inside an inline block counted as the profile's own?
FilterStays_Anywhere(lines, kinds) ==
  \E i \in DOMAIN lines : ~Dropped(lines, kinds, i) /\ IsDirective(lines[i], "redirect-filter")

FilterStays(lines, kinds) ==
  \E i \in DOMAIN lines :
    kinds[i] = "top" /\ ~Dropped(lines, kinds, i) /\ IsDirective(lines[i], "redirect-filter")

\* Our block: the filter unless the profile has it, and a route to each office
\* network, the host bits of whose address are masked off.
Block(filtered, routes) ==
  <<BEGIN_MARKER>>
  \o (IF filtered THEN << >> ELSE <<Says("redirect-filter")>>)
  \o [i \in DOMAIN routes |-> RouteLine(routes[i])]
  \o <<END_MARKER>>

\* A profile with a block that is never closed is refused.
Refused == [ok |-> FALSE]

BuildProfile(text, routes) ==
  LET lines == RawLines(text)
      c == Classified(lines)
      rest == TrimEnd(Kept(lines, c.kinds))
      out == (IF rest = << >> THEN << >> ELSE Append(rest, Blank))
             \o Block(FilterStays(lines, c.kinds), routes)
      eol == LineEnding(text)
  IN IF c.open # {} THEN Refused
     ELSE [ok |-> TRUE, text |-> [i \in DOMAIN out |-> [line |-> out[i], ends |-> eol]]]
=============================================================================
