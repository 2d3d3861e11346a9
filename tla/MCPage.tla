------------------------------- MODULE MCPage -------------------------------
(* Small instances of the page, and the functions it rests on.             *)
EXTENDS Page

\* Two spellings of a directory, one of which is a variable's value, a short
\* name and a link with a blank in it; another program, and one that is gone; the
\* last two in names without their .exe.
MCExe == <<"C:\\Program", "Files\\pp.exe">>
Words == {"C:\\Program", "C:\\PROGRAM", "Files\\pp.exe", "C:\\PROGRA~1\\pp.exe",
          "%pf%\\pp.exe", "C:\\other.exe", "C:\\old\\pp.exe", "C:\\my", "--hidden",
          "Files\\pp", "C:\\other"}
\* CreateProcess: where a name has no extension.
MCWithExe ==
  [w \in Words |-> CASE w = "Files\\pp" -> "Files\\pp.exe" [] w = "C:\\other" -> "C:\\other.exe" [] OTHER -> w]
MCFolded == [w \in Words |-> IF w = "C:\\PROGRAM" THEN "C:\\Program" ELSE w]
MCExpanded == [w \in Words |-> IF w = "%pf%\\pp.exe" THEN MCExe ELSE <<w>>]
MCDisk ==
  [path \in {MCExe, <<"C:\\PROGRA~1\\pp.exe">>, <<"C:\\my", "Files\\pp.exe">>, <<"C:\\other.exe">>} |->
     IF path = <<"C:\\other.exe">> THEN "other" ELSE "pp"]

Paths == UNION {[1 .. n -> Words] : n \in 1 .. 3}
CommandLines == {NoEntry} \cup {Bare(p) : p \in Paths}
                \cup {Quoted(p, a) : p \in Paths, a \in {<< >>, <<"--hidden">>}}

MCEntries ==
  {NoEntry, Quote(MCExe), Bare(<<"C:\\PROGRA~1\\pp.exe", "--hidden">>), Bare(<<"C:\\old\\pp.exe">>)}

\* What the toggle shows of every one of these command lines.
BoxFacts == BoxIsHonest(CommandLines)

-----------------------------------------------------------------------------
MCNumbers == {"3129", "0"}
Home == [id |-> <<"home">>, name |-> <<"Home">>]
Office == [id |-> <<"office">>, name |-> << >>]
MCFirst ==
  [bridge_port |-> <<"3129">>, socks_upstream |-> << >>, http_upstream |-> <<"h">>,
   no_proxy |-> <<"a">>, toggles |-> {"manage_system_proxy"},
   office_networks |-> <<Office>>, mode |-> "auto"]
MCNets == {Home, Office}

\* Bytes that mean something in a body, two that do not, and the two halves of a
\* Russian letter.
Bytes == {Amp, Percent, Plus, Equals, Space, 65, 52, 208, 144}
Plain == {65, 52}
UpTo(S, n) == UNION {[1 .. k -> S] : k \in 0 .. n}

Configurations ==
  {[MCFirst EXCEPT !.socks_upstream = s, !.no_proxy = p, !.toggles = t, !.office_networks = o] :
     s \in {<< >>, <<"s">>}, p \in {<< >>, <<"a">>, <<"b", "comma", "a">>}, t \in SUBSET Toggles,
     o \in UpTo(MCNets, 3)}

\* What the form says: what the browser encodes is what the server decodes, but for
\* letters that are cut short, and those harm no other; fields are told apart and
\* keep their order, anything else passes unharmed; and the page of any
\* configuration, sent back untouched, is that configuration, whatever the server's
\* own has become in what the form owns.
FormFacts ==
  /\ \A t, u \in UpTo(Bytes, 2) :
       /\ Decode(Encoded(Plain, t \o u)) = Lossy(t \o u)
       /\ IsText(t) => Decode(Encoded(Plain, t \o u)) = t \o Decode(Encoded(Plain, u))
  /\ \A s \in UpTo({Percent, 65, 52, 90}, 4) :
       (\A i \in DOMAIN s : s[i] = Percent =>
          i + 2 > Len(s) \/ Hex(s[i + 1]) = {} \/ Hex(s[i + 2]) = {}) => Decode(s) = s
  /\ \A a, b, c, d \in UpTo({Amp, Equals, Plus, 65}, 2) :
       Parse(Encoded(Plain, a) \o <<Equals>> \o Encoded(Plain, b) \o <<Amp, Amp>>
             \o Encoded(Plain, c) \o <<Equals>> \o Encoded(Plain, d))
         = <<[name |-> a, value |-> b], [name |-> c, value |-> d]>>
  /\ \A cfg \in Configurations :
       ConfigFromForm(MCFirst, Fields(cfg, [on |-> TRUE, disabled |-> FALSE])) = cfg

-----------------------------------------------------------------------------
P == INSTANCE Profile

Lines == {P!Says("remote"), P!Blank, P!BEGIN_MARKER, P!END_MARKER, [is |-> "begin", note |-> TRUE],
          P!Says("<ca>"), [is |-> "</ca>", note |-> TRUE], P!Says("</key>"),
          [is |-> "block-outside-dns", note |-> TRUE], P!Says("redirect-filter")}
Crlf(lines) == [i \in DOMAIN lines |-> [line |-> lines[i], ends |-> "crlf"]]
Built(text, routes) == {b \in {P!BuildProfile(text, routes)} : b.ok}
LinesOf(built) == P!RawLines(built.text)

\* Neither one of ours nor one the build may take away.
IsUsers(line) ==
  /\ line.is \notin {"block-outside-dns", "redirect-filter", "blank"}
  /\ line \notin {P!BEGIN_MARKER, P!END_MARKER}

\* What the profile says.  A build can be repeated: building from what was built changes nothing, and
\* with other networks it is as if built from the administrator's profile.
\* Without markers in it no line of that profile is lost or moved; what is in
\* an inline block is not read; the result always has the filter, never the
\* directive that takes over name resolution, and the line ends of the source.
ProfileFacts ==
  /\ \A lines \in UpTo(Lines, 4) : \A b \in Built(Crlf(lines), <<"net">>) :
       /\ P!BuildProfile(b.text, <<"net">>) = b
       /\ P!BuildProfile(b.text, <<"else">>) = P!BuildProfile(Crlf(lines), <<"else">>)
       /\ {P!BEGIN_MARKER, P!END_MARKER} \cap Range(lines) = {} =>
            SelectSeq(lines, IsUsers)
              = SelectSeq(LinesOf(b), LAMBDA l : IsUsers(l) /\ l.is # "route")
       /\ \A c \in {P!Classified(LinesOf(b))} :
            LET Top(what) == {i \in DOMAIN c.kinds : c.kinds[i] = "top" /\ LinesOf(b)[i].is = what}
            IN c.open = {} /\ Top("block-outside-dns") = {} /\ Top("redirect-filter") # {}
       /\ lines # << >> => \A i \in DOMAIN b.text : b.text[i].ends = "crlf"
  /\ \A u, v \in Lines : "</ca>" \notin {u.is, v.is} =>
       \A w \in {<<P!Says("<ca>"), u, v, P!Says("</ca>")>>} :
         \A b \in Built(Crlf(w), << >>) : SubSeq(LinesOf(b), 1, 4) = w

\* Addresses of two bits: the office has the upper half; another tunnel carries
\* everything, a part of the office, or something else.
MCSubnets == {[addr |-> 3, prefix |-> 1]}
MCOthers == {[addr |-> 0, prefix |-> 0], [addr |-> 2, prefix |-> 2], [addr |-> 1, prefix |-> 2]}

\* Requests are alike, and so are the tabs.
Alike == Permutations(Handlers) \cup Permutations(Tabs)

-----------------------------------------------------------------------------
\* The page is exact, in both directions: the toggle of autostart shows what
\* Windows would do, and the form is read as it was written; and what the tabs
\* hold is always something a page can show and its form can say.
PageIsExact == TypeOK /\ PagesReadBack /\ BoxFacts /\ FormFacts

\* The profile is safe to build, to build again and to hand to OpenVPN, and the
\* tunnel is always in one of the states the section knows.
ProfileIsSafe == TunnelTypeOK /\ ProfileFacts
=============================================================================
