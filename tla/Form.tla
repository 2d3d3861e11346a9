-------------------------------- MODULE Form --------------------------------
(***************************************************************************)
(* The form of the settings page (crates/app/src/settings_page.rs): how a  *)
(* configuration becomes the fields of a form, how the body the browser    *)
(* sends is taken apart, and how its fields become a configuration again.  *)
(***************************************************************************)
EXTENDS Integers, Sequences, SequencesExt

-----------------------------------------------------------------------------
(* The body: bytes.                                                        *)

Amp == 38    Percent == 37    Plus == 43    Equals == 61    Space == 32

\* hex: the value of a digit, none for any other byte.
Hex(b) ==
  CASE b \in 48 .. 57 -> {b - 48}
    [] b \in 97 .. 102 -> {b - 87}
    [] b \in 65 .. 70 -> {b - 55}
    [] OTHER -> {}

\* What if a percent sign always took two bytes with it?
Escaped_Always(raw, i) == raw[i] = Percent /\ i + 2 <= Len(raw)

\* Two digits follow: an unfinished sequence stays what it is.
Escaped(raw, i) ==
  raw[i] = Percent /\ i + 2 <= Len(raw) /\ Hex(raw[i + 1]) # {} /\ Hex(raw[i + 2]) # {}

Digit(b) == IF Hex(b) = {} THEN 0 ELSE CHOOSE v \in Hex(b) : TRUE

\* The loop of decode, from left to right: once around it, and once for every byte
\* at most.
Decoded(raw, r) ==
  IF r.at > Len(raw) THEN r
  ELSE IF Escaped(raw, r.at)
  THEN [at |-> r.at + 3, out |-> Append(r.out, Digit(raw[r.at + 1]) * 16 + Digit(raw[r.at + 2]))]
  ELSE [at |-> r.at + 1, out |-> Append(r.out, IF raw[r.at] = Plus THEN Space ELSE raw[r.at])]
Unescaped(raw) ==
  LET rounds[n \in 0 .. Len(raw)] ==
        IF n = 0 THEN [at |-> 1, out |-> << >>] ELSE Decoded(raw, rounds[n - 1])
  IN rounds[Len(raw)].out

\* UTF-8: how many bytes the letter has that begins with this one, and which may
\* come second.
Length(b) ==
  CASE b \in 0 .. 127 -> 1
    [] b \in 194 .. 223 -> 2
    [] b \in 224 .. 239 -> 3
    [] b \in 240 .. 244 -> 4
    [] OTHER -> 0
Second(b) ==
  CASE b = 224 -> 160 .. 191
    [] b = 237 -> 128 .. 159
    [] b = 240 -> 144 .. 191
    [] b = 244 -> 128 .. 143
    [] OTHER -> 128 .. 191

\* The first n bytes of a letter are at i.  None of them but the first can begin
\* one, so nothing more than the bytes around it tells what a byte belongs to.
Begins(raw, i, n) ==
  /\ n <= Length(raw[i]) /\ i + n - 1 <= Len(raw)
  /\ \A k \in 1 .. n - 1 : raw[i + k] \in IF k = 1 THEN Second(raw[i]) ELSE 128 .. 191
InLetter(raw, i) ==
  \E j \in DOMAIN raw : j <= i /\ i < j + Length(raw[j]) /\ Begins(raw, j, Length(raw[j]))
Follows(raw, i) == \E j \in DOMAIN raw : j < i /\ Begins(raw, j, i - j + 1)

\* String::from_utf8_lossy: what is left of a letter that is cut short, and every
\* byte that belongs to none, becomes U+FFFD.
Replacement == <<239, 191, 189>>
Lossy(raw) ==
  FlattenSeq([i \in DOMAIN raw |->
    IF InLetter(raw, i) THEN <<raw[i]>> ELSE IF Follows(raw, i) THEN << >> ELSE Replacement])

\* Nothing in it is cut short.
IsText(raw) == \A i \in DOMAIN raw : InLetter(raw, i)

\* decode: the letters are put together at the very end.
Decode(raw) == Lossy(Unescaped(raw))

\* What the browser makes of bytes: a plus sign of a blank, and of any byte that is
\* not plain its two digits.
HexDigit(v) == IF v < 10 THEN 48 + v ELSE 55 + v
Sent(plain, b) ==
  CASE b = Space -> <<Plus>>
    [] b # Space /\ b \in plain -> <<b>>
    [] OTHER -> <<Percent, HexDigit(b \div 16), HexDigit(b % 16)>>
Encoded(plain, bytes) == FlattenSeq([i \in DOMAIN bytes |-> Sent(plain, bytes[i])])

\* The pieces between the separators.
Split(raw, sep) ==
  LET cuts == <<0>> \o SelectSeq([i \in DOMAIN raw |-> i], LAMBDA i : raw[i] = sep)
              \o <<Len(raw) + 1>>
  IN [n \in 1 .. Len(cuts) - 1 |-> SubSeq(raw, cuts[n] + 1, cuts[n + 1] - 1)]

\* Form::parse: a field without a value is a field.
Parse(body) ==
  LET pair(chunk) ==
        LET eq == {i \in DOMAIN chunk : chunk[i] = Equals}
            at == IF eq = {} THEN Len(chunk) + 1 ELSE CHOOSE i \in eq : \A j \in eq : i <= j
        IN [name |-> Decode(SubSeq(chunk, 1, at - 1)),
            value |-> Decode(SubSeq(chunk, at + 1, Len(chunk)))]
      chunks == SelectSeq(Split(body, Amp), LAMBDA c : c # << >>)
  IN [i \in DOMAIN chunks |-> pair(chunks[i])]

-----------------------------------------------------------------------------
(* The fields: names and texts.  A text is a sequence of words and         *)
(* separators: a comma, a blank (sp) and a new line (nl).                  *)

CONSTANT Numbers   \* the words that read as a port, a number of 16 bits

Separators == {"comma", "sp", "nl"}

Trim(text) ==
  LET words == {i \in DOMAIN text : text[i] # "sp"}
  IN IF words = {} THEN << >>
     ELSE SubSeq(text, CHOOSE i \in words : \A j \in words : i <= j,
                       CHOOSE i \in words : \A j \in words : i >= j)

\* filter: what is marked, in its order.
Marked(s, marks) ==
  LET upTo[n \in 0 .. Len(s)] ==
        IF n = 0 THEN << >>
        ELSE IF marks[n] THEN Append(upTo[n - 1], s[n]) ELSE upTo[n - 1]
  IN upTo[Len(s)]

\* normalise_bypass: one comma between two elements, whatever separated them.
Joined(words) ==
  [i \in 1 .. 2 * Len(words) - 1 |-> IF i % 2 = 1 THEN words[(i + 1) \div 2] ELSE "comma"]
NormaliseBypass(text) ==
  Joined(Marked(text, [i \in DOMAIN text |-> text[i] \notin Separators]))

\* Form::all, Form::checked, Form::get.
All(form, key) ==
  Marked([i \in DOMAIN form |-> form[i].value], [i \in DOMAIN form |-> form[i].name = key])
Checked(form, key) == \E i \in DOMAIN form : form[i].name = key
Get(form, key) ==
  LET of == {i \in DOMAIN form : form[i].name = key}
  IN IF of = {} THEN << >> ELSE form[CHOOSE i \in of : \A j \in of : i <= j].value

\* What if the names were paired with the ids that are left?
Offices_Shifted(form) ==
  LET ids == SelectSeq(All(form, "office_id"), LAMBDA id : Trim(id) # << >>)
      names == All(form, "office_name")
  IN [n \in DOMAIN ids |-> [id |-> Trim(ids[n]), name |-> Trim(names[n])]]

\* The rows of the table: a row whose id is empty is no network, and a name
\* belongs to the id of its own row.
Offices(form) ==
  LET ids == All(form, "office_id")
      names == All(form, "office_name")
      rows == [i \in DOMAIN ids |->
                [id |-> Trim(ids[i]), name |-> IF i \in DOMAIN names THEN Trim(names[i]) ELSE << >>]]
  IN Marked(rows, [i \in DOMAIN rows |-> rows[i].id # << >>])

Toggles == {"manage_system_proxy", "check_for_updates", "automate_tunnel"}

\* config_from_form: what the form owns, over a configuration that owns the
\* rest.  An empty upstream is none.
PortIsRead(form) ==
  LET raw == Trim(Get(form, "bridge_port")) IN Len(raw) = 1 /\ raw[1] \in Numbers

ConfigFromForm(base, form) ==
  [base EXCEPT
    !.bridge_port = Trim(Get(form, "bridge_port")),
    !.socks_upstream = Trim(Get(form, "socks_upstream")),
    !.http_upstream = Trim(Get(form, "http_upstream")),
    !.no_proxy = NormaliseBypass(Get(form, "no_proxy")),
    !.office_networks = Offices(form),
    !.toggles = {t \in Toggles : Checked(form, t)}]

-----------------------------------------------------------------------------
(* render: the fields in the order of the page.                            *)

Field(name, value) == <<[name |-> name, value |-> value]>>
\* The browser sends a box only when it is checked and not disabled.
Box(name, on) == IF on THEN Field(name, <<"on">>) ELSE << >>
OfficeRow(net) == Field("office_id", net.id) \o Field("office_name", net.name)

\* The office networks, and one empty row for another.
OfficeRows(nets) ==
  FlattenSeq([i \in DOMAIN nets |-> OfficeRow(nets[i])])
  \o OfficeRow([id |-> << >>, name |-> << >>])

\* What the browser sends for a page that shows this configuration and this
\* state of the autostart box, when nothing on it was touched.
Fields(cfg, autostart) ==
  Field("socks_upstream", cfg.socks_upstream)
  \o Field("http_upstream", cfg.http_upstream)
  \o Field("bridge_port", cfg.bridge_port)
  \o OfficeRows(cfg.office_networks)
  \o Box("automate_tunnel", "automate_tunnel" \in cfg.toggles)
  \o Field("no_proxy", cfg.no_proxy)
  \o Box("manage_system_proxy", "manage_system_proxy" \in cfg.toggles)
  \o Box("autostart", autostart.on /\ ~autostart.disabled)
  \o Box("check_for_updates", "check_for_updates" \in cfg.toggles)
=============================================================================
