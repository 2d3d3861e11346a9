----------------------------- MODULE BypassList -----------------------------
(***************************************************************************)
(* What goes past the proxies: the list `no_proxy' as the bridge reads it  *)
(* (crates/core/src/bypass.rs) and as Windows is told of it                *)
(* (to_bypass_string in crates/winnet/src/sysproxy.rs), and the networks   *)
(* of the configuration (crates/core/src/net.rs).                          *)
(*                                                                         *)
(* A name is the sequence of its labels, so a leading or a trailing dot is *)
(* an empty label; an address is a number of Width bits (32 in the code);  *)
(* what stands behind the slash of a network is a sequence of digits, with *)
(* Plus for the sign.                                                      *)
(***************************************************************************)
EXTENDS Integers, Sequences, SequencesExt

CONSTANTS
  Width,       \* the length of an address in bits
  Folded       \* to_ascii_lowercase: label |-> label

-----------------------------------------------------------------------------
(* Networks.                                                               *)

Addresses == 0 .. 2 ^ Width - 1

\* What if all the bits were set when none is asked for?
MaskOf_ZeroIsFull(bits) == 2 ^ Width - 2 ^ ((Width - bits) % Width)

\* mask_of: the upper `bits' of Width; more than there are count as all.
MaskOf(bits) ==
  LET n == IF bits > Width THEN Width ELSE bits
  IN ((2 ^ Width - 1) * 2 ^ (Width - n)) % 2 ^ Width

\* The bits two numbers have in common.
And(a, b) ==
  LET Bit(n, i) == (n \div 2 ^ i) % 2
  IN FoldSet(LAMBDA i, sum : sum + Bit(a, i) * Bit(b, i) * 2 ^ i, 0, 0 .. Width - 1)

Digits == 0 .. 9
Plus == 10
IsNumber(text) == text # << >> /\ Range(text) \subseteq Digits
ValueOf(text) == FoldLeft(LAMBDA sum, d : 10 * sum + d, 0, text)

\* A decimal number as it is printed.
Printed(n) == IF n < 10 THEN <<n>> ELSE <<n \div 10, n % 10>>

\* u32::from_str is lenient: a plus sign and zeros in front do no harm.
ReadsAsNumber(text) ==
  LET bare == IF text # << >> /\ Head(text) = Plus THEN Tail(text) ELSE text
  IN IF IsNumber(bare) THEN {ValueOf(bare)} ELSE {}

\* parse_prefix is strict: only what is printed.
ParsePrefix(text) ==
  IF IsNumber(text) /\ (Len(text) > 1 => Head(text) # 0) THEN {ValueOf(text)} ELSE {}

\* Ipv4Net::from_str: the host bits go.  The text of a network.
Net(addr, bits) == [is |-> "net", addr |-> addr, bits |-> bits]
NetOf(text) ==
  {[addr |-> And(text.addr, MaskOf(p)), prefix |-> p] :
     p \in {q \in ParsePrefix(text.bits) : q <= Width}}
Display(net) == Net(net.addr, Printed(net.prefix))

-----------------------------------------------------------------------------
(* The list of the bridge.                                                 *)

Empty == ""   \* the label in front of a leading dot
Name(labels) == [is |-> "name", labels |-> labels]
Ip4(addr) == [is |-> "ip4", addr |-> addr]
Ip6(addr) == [is |-> "ip6", addr |-> addr]

Lower(labels) == [i \in DOMAIN labels |-> Folded[labels[i]]]

\* BypassList::parse, for one element: a network whose prefix fits, an address,
\* a suffix, and anything else a name, also a network whose prefix does not fit.
Entry(e) ==
  CASE e.is = "net" /\ \E b \in ReadsAsNumber(e.bits) : b <= Width ->
         [is |-> "cidr", net |-> e.addr, bits |-> CHOOSE b \in ReadsAsNumber(e.bits) : TRUE]
    [] e.is \in {"ip4", "ip6"} -> e
    [] e.is = "name" /\ Head(e.labels) = Empty -> [is |-> "suffix", labels |-> Tail(Lower(e.labels))]
    [] e.is = "name" /\ Head(e.labels) # Empty -> [is |-> "exact", labels |-> Lower(e.labels)]
    [] OTHER -> [is |-> "text"]

\* The dot of the suffix must be there: something stands in front of it, if
\* only an empty label.
IsBelow(labels, suffix) ==
  Len(labels) > Len(suffix) /\ SubSeq(labels, Len(labels) - Len(suffix) + 1, Len(labels)) = suffix

\* BypassList::matches, for one entry.  The brackets of an IPv6 host are gone.
EntryMatches(entry, host) ==
  CASE entry.is = "exact" -> host.is = "name" /\ Lower(host.labels) = entry.labels
    [] entry.is = "suffix" -> host.is = "name" /\ IsBelow(Lower(host.labels), entry.labels)
    [] entry.is = "cidr" ->
         host.is = "ip4" /\ And(host.addr, MaskOf(entry.bits)) = And(entry.net, MaskOf(entry.bits))
    [] entry.is = "text" -> FALSE
    [] OTHER -> host = entry

Matches(list, host) == \E i \in DOMAIN list : EntryMatches(Entry(list[i]), host)

-----------------------------------------------------------------------------
(* The list of Windows.                                                    *)

Local == [is |-> "<local>"]

\* What if the dot were left as it is?
Part_Dotted(e) == e

\* to_bypass_string, as a set: a suffix becomes a pattern, a lone dot is left out,
\* and `<local>' is there once.
Part(e) ==
  IF e.is = "name" /\ Head(e.labels) = Empty THEN [is |-> "pattern", labels |-> Tail(e.labels)] ELSE e
ToBypassString(list) ==
  {Part(list[i]) : i \in {j \in DOMAIN list : list[j] # Name(<<Empty, Empty>>)}} \cup {Local}

\* What Windows makes of it: patterns and literal names, case ignored; it knows
\* no networks, and an IPv6 address only in brackets.
PartMatches(part, host) ==
  CASE part.is = "<local>" -> host.is = "name" /\ Len(host.labels) = 1
    [] part.is = "pattern" -> host.is = "name" /\ IsBelow(Lower(host.labels), Lower(part.labels))
    [] part.is = "name" -> host.is = "name" /\ Lower(host.labels) = Lower(part.labels)
    [] part.is = "ip4" -> host = part
    [] OTHER -> FALSE
WindowsMatches(parts, host) == \E part \in parts : PartMatches(part, host)

-----------------------------------------------------------------------------
(* Properties, over a bounded set of texts, lists and hosts.               *)

\* A network means the addresses that share its prefix, at any length from none
\* to all bits; there is one way to write it, which is what is printed; and the
\* bridge's list means the same by it.
NetworksAreExact(texts) ==
  /\ \A t \in texts : \A n \in NetOf(t) :
       /\ NetOf(Display(n)) = {n} /\ Display(n).bits = t.bits
       /\ \A a \in Addresses :
            LET size == 2 ^ (Width - n.prefix)
            IN /\ And(a, MaskOf(n.prefix)) = n.addr <=> a \div size = t.addr \div size
               /\ Matches(<<t>>, Ip4(a)) <=> a \div size = t.addr \div size
  /\ \A t \in texts : ReadsAsNumber(t.bits) \cap 0 .. Width = {} =>
       NetOf(t) = {} /\ \A a \in Addresses : ~Matches(<<t>>, Ip4(a))

\* Programs that read the Windows setting and programs that are pointed at the
\* bridge by hand agree on every name and every IPv4 address of the list; they
\* may differ on plain names, which Windows takes for local, on networks, which
\* only the bridge understands, and on names with a dot at the end.
ListsAgree(lists, hosts) ==
  \A list \in lists, host \in hosts :
    LET direct == WindowsMatches(ToBypassString(list), host)
    IN /\ direct => Matches(list, host) \/ PartMatches(Local, host)
       /\ ~(host.is = "name" /\ Last(host.labels) = Empty) =>
            \A i \in DOMAIN list :
              list[i].is \notin {"net", "ip6"} /\ EntryMatches(Entry(list[i]), host) => direct
=============================================================================
