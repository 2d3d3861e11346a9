--------------------------------- MODULE Json ---------------------------------
(***************************************************************************)
(* The reader of GitHub's answer (app/src/update/json.rs) and what is      *)
(* taken from it (parse_release_response, app/src/update/source.rs).       *)
(*                                                                         *)
(* A text is a sequence of tokens: a structural character, a space, a      *)
(* whole string or a whole word.  What happens inside a string and inside  *)
(* a number is modelled apart, on characters.                              *)
(***************************************************************************)
EXTENDS SequencesExt, Integers

CONSTANTS
  Strings,   \* the strings a text may hold, without their quotes
  Words,     \* true, false, null and the numbers
  MaxDepth   \* MAX_DEPTH

Brackets == {"{", "}", "[", "]"}
Tokens == Strings \cup Words \cup Brackets \cup {":", ",", " "}

ASSUME DepthAssumption == MaxDepth \in Nat \ {0}
ASSUME TokensAssumption ==
  /\ Strings \cap Words = {}
  /\ (Strings \cup Words) \cap (Brackets \cup {":", ",", " "}) = {}

-----------------------------------------------------------------------------
(* Json.  A value carries its kind, so that `as_str' and `as_array' can    *)
(* ask.                                                                    *)

Scalar(token) == [kind |-> IF token \in Strings THEN "string" ELSE "word", is |-> token]
Array(items) == [kind |-> "array", is |-> items]
Object(members) == [kind |-> "object", is |-> members]
Nothing == [kind |-> "none"]

Get(json, key) ==
  IF json.kind = "object" /\ key \in DOMAIN json.is THEN json.is[key] ELSE Nothing

-----------------------------------------------------------------------------
(* parse.                                                                  *)

At(text, pos) == IF pos \in DOMAIN text THEN text[pos] ELSE "end"

SkipWs(text, from) ==
  CHOOSE p \in from .. Len(text) + 1 :
    At(text, p) # " " /\ \A q \in from .. p - 1 : text[q] = " "

Read(value, next) == [ok |-> TRUE, value |-> value, next |-> next]
Bad == [ok |-> FALSE]

\* What if a nested value did not add to the depth?
Deeper_Flat(depth) == depth
\* The only place where the depth grows: on the way into an object or an array.
Deeper(depth) == depth + 1

\* reader[<<what, pos, depth>>]: a value at pos, or the items of an array or the
\* members of an object from pos on, up to and including the closing bracket.
Reader(text) ==
  LET N == Len(text) + 1
      reader[q \in {"value", "items", "members"} \X (1 .. N) \X (0 .. MaxDepth + 1)] ==
        LET depth == q[3]
            pos == SkipWs(text, q[2])
            Close(last, close, value) ==
              IF At(text, last) = close THEN Read(value, last + 1) ELSE Bad
            Value ==
              LET c == At(text, pos)
                  first == SkipWs(text, pos + 1)
              IN  CASE c \in {"{", "["} /\ depth >= MaxDepth -> Bad
                    [] c = "{" -> IF At(text, first) = "}" THEN Read(Object(<<>>), first + 1)
                                  ELSE reader[<<"members", first, Deeper(depth)>>]
                    [] c = "[" -> IF At(text, first) = "]" THEN Read(Array(<<>>), first + 1)
                                  ELSE reader[<<"items", first, Deeper(depth)>>]
                    [] c \in Strings \cup Words -> Read(Scalar(c), pos + 1)
                    [] OTHER -> Bad
            Items ==
              LET item == reader[<<"value", pos, depth>>]
                  after == SkipWs(text, item.next)
                  rest == reader[<<"items", after + 1, depth>>]
              IN  CASE ~item.ok -> Bad
                    [] item.ok /\ At(text, after) = "," ->
                         IF rest.ok THEN Read(Array(<<item.value>> \o rest.value.is), rest.next)
                                    ELSE Bad
                    [] OTHER -> Close(after, "]", Array(<<item.value>>))
            Members ==
              LET key == At(text, pos)
                  colon == SkipWs(text, pos + 1)
                  member == reader[<<"value", colon + 1, depth>>]
                  after == SkipWs(text, member.next)
                  rest == reader[<<"members", after + 1, depth>>]
                  Keep(later) == Object(later @@ (key :> member.value))
              IN  CASE key \notin Strings \/ At(text, colon) # ":" -> Bad
                    [] key \in Strings /\ At(text, colon) = ":" /\ ~member.ok -> Bad
                    [] key \in Strings /\ At(text, colon) = ":" /\ member.ok
                       /\ At(text, after) = "," ->
                         IF rest.ok THEN Read(Keep(rest.value.is), rest.next) ELSE Bad
                    [] OTHER -> Close(after, "}", Keep(<<>>))
        IN  CASE q[1] = "value" -> Value
              [] q[1] = "items" -> Items
              [] OTHER -> Members
  IN  reader

\* The whole text, and nothing after the value.
Parse(text) ==
  LET root == Reader(text)[<<"value", SkipWs(text, 1), 0>>]
  IN  IF root.ok /\ SkipWs(text, root.next) = Len(text) + 1 THEN root ELSE Bad

-----------------------------------------------------------------------------
(* parse_string: the characters between the quotes, on classes of them.    *)

\* "a" a plain character, "n" a simple escape, "u" an escape of a character of
\* its own, "H" and "L" the escapes of the two halves of a pair, "x" a wrong one.

\* What if a half were kept on its own?
Unit_Unpaired(r, unit) ==
  [r EXCEPT !.out = Append(@, IF unit \in {"H", "L"} THEN "?" ELSE unit),
            !.ok = @ /\ unit # "x"]

\* `out', and the first half of a pair that waits for the second.  Only another
\* escape of four digits ends the wait; "?" is U+FFFD.  A lone second half is
\* dropped.
Unit(r, unit) ==
  CASE unit = "x" -> [r EXCEPT !.ok = FALSE]
    [] unit \in {"a", "n"} -> [r EXCEPT !.out = Append(@, unit)]
    [] unit \in {"u", "H", "L"} /\ r.high ->
         [r EXCEPT !.high = FALSE,
                   !.out = @ \o (CASE unit = "L" -> <<"pair">>
                                   [] unit = "u" -> <<"?", "u">>
                                   [] OTHER -> <<"?">>)]
    [] OTHER -> [r EXCEPT !.high = (unit = "H"),
                          !.out = @ \o (IF unit = "u" THEN <<"u">> ELSE <<>>)]

Unescape(units) ==
  LET r == FoldLeft(Unit, [ok |-> TRUE, out |-> <<>>, high |-> FALSE], units)
  IN  [ok |-> r.ok, out |-> r.out \o (IF r.high THEN <<"?">> ELSE <<>>)]

-----------------------------------------------------------------------------
(* parse_number: the longest run that looks like a number, and what        *)
(* str::parse makes of it.                                                 *)

\* The first position from `from' on that holds no digit "d".
AfterDigits(s, from) ==
  CHOOSE p \in from .. Len(s) + 1 :
    At(s, p) # "d" /\ \A q \in from .. p - 1 : s[q] = "d"

Skip(s, pos, chars) == IF At(s, pos) \in chars THEN pos + 1 ELSE pos

\* Where the number at pos ends, or 0 when what is there does not parse: it needs
\* a digit on one side of the point, and one in the exponent if there is any.
NumberEnd(s, pos) ==
  LET whole == Skip(s, pos, {"-"})
      point == AfterDigits(s, whole)
      fraction == Skip(s, point, {"."})
      power == AfterDigits(s, fraction)
      sign == Skip(s, power, {"e"})
      digits == Skip(s, sign, {"+", "-"})
      end == IF sign = power THEN power ELSE AfterDigits(s, digits)
  IN  IF /\ (point - whole) + (power - fraction) > 0
         /\ sign = power \/ end > digits
      THEN end ELSE 0

-----------------------------------------------------------------------------
(* parse_release_response.                                                 *)

\* The tag and the address of the first asset called `wanted', or nothing.
ParseReleaseResponse(text, wanted) ==
  LET root == Parse(text)
      tag == Get(root.value, "tag_name")
      assets == Get(root.value, "assets")
      Named == {k \in DOMAIN assets.is : Get(assets.is[k], "name") = Scalar(wanted)}
      url == Get(assets.is[CHOOSE k \in Named : \A l \in Named : k <= l],
                 "browser_download_url")
  IN  IF /\ root.ok
         /\ tag.kind = "string" /\ assets.kind = "array"
         /\ Named # {} /\ url.kind = "string"
      THEN [tag |-> tag.is, url |-> url.is]
      ELSE Nothing

-----------------------------------------------------------------------------
(* What a JSON text is, apart from any parser.                             *)

Join(A, B, C) == {a \o b \o c : a \in A, b \in B, c \in C}

\* texts[<<what, n, d>>]: the values, or the contents of an array or an object,
\* of n tokens with brackets nested d deep at most.
JsonTexts(n) ==
  LET texts[q \in {"value", "items", "members"} \X (0 .. n) \X (0 .. MaxDepth)] ==
        LET k == q[2]
            d == q[3]
            In(open, what, close) ==
              IF k = 2 THEN {<<open, close>>}
              ELSE Join({<<open>>}, texts[<<what, k - 2, d - 1>>], {<<close>>})
            List(what, One(_)) ==
              One(k) \cup UNION {Join(One(j), {<<",">>}, texts[<<what, k - j - 1, d>>])
                                 : j \in 1 .. k - 2}
            Member(j) ==
              IF j < 3 THEN {}
              ELSE Join({<<s>> : s \in Strings}, {<<":">>}, texts[<<"value", j - 2, d>>])
        IN  CASE k = 0 -> {}
              [] k > 0 /\ q[1] = "value" ->
                   (IF k = 1 THEN {<<t>> : t \in Strings \cup Words} ELSE {})
                   \cup (IF k > 1 /\ d > 0
                         THEN In("[", "items", "]") \cup In("{", "members", "}") ELSE {})
              [] k > 0 /\ q[1] = "items" -> List("items", LAMBDA j : texts[<<"value", j, d>>])
              [] OTHER -> List("members", Member)
  IN  UNION {texts[<<"value", k, MaxDepth>>] : k \in 1 .. n}

\* The reader takes exactly the texts of JSON whose brackets nest no deeper than
\* the limit, wherever the spaces are: for all texts of n tokens at most.
ReadsJson(n) ==
  LET texts == JsonTexts(n)
  IN  \A text \in BoundedSeq(Tokens, n) :
        Parse(text).ok <=> SelectSeq(text, LAMBDA c : c # " ") \in texts

\* A string whose characters are escaped as JSON has it is read back as it was,
\* and so is every number, to its last digit.
ReadsScalars(n) ==
  LET Escaped(chars) ==
        FlattenSeq([k \in DOMAIN chars |-> IF chars[k] = "pair" THEN <<"H", "L">>
                                                                ELSE <<chars[k]>>])
      digits == {<<"d">>, <<"d", "d">>}
      numbers == Join(Join({<<>>, <<"-">>}, digits, {<<>>}),
                      {<<>>} \cup Join({<<".">>}, digits, {<<>>}),
                      {<<>>} \cup Join({<<"e">>}, {<<>>, <<"+">>, <<"-">>}, digits))
  IN  /\ \A chars \in BoundedSeq({"a", "n", "u", "pair"}, n) :
           Unescape(Escaped(chars)) = [ok |-> TRUE, out |-> chars]
      /\ \A s \in numbers : NumberEnd(s, 1) = Len(s) + 1
===============================================================================
