----------------------------- MODULE NetProfile -----------------------------
(***************************************************************************)
(* What the profile service wants of an adapter: a static address in the   *)
(* office, DHCP outside, and hands off an address it did not put there     *)
(* (core/src/netprofile.rs, and set_by_us of netsvc/src/state.rs).         *)
(***************************************************************************)
CONSTANTS
  Adapters,  \* adapters by GUID
  Statics,   \* static addresses, each with its mask
  DnsLists,  \* lists of static DNS servers
  Dhcp,      \* "source=dhcp", for an address and for DNS; an empty DNS list as well
  Nothing    \* an applied.toml that is missing, unreadable or default, and an incomplete profile

ASSUME DhcpAssumption == Dhcp \notin Statics /\ Dhcp \notin DnsLists
ASSUME NothingAssumption ==
  /\ Nothing \notin [ip : Statics, iface : Adapters]
  /\ Nothing \notin [ip : Statics, dns : DnsLists \cup {Dhcp}, gateway : BOOLEAN]
  /\ Nothing \notin Adapters

NetProfiles == [ip : Statics, dns : DnsLists \cup {Dhcp}, gateway : BOOLEAN]
AppliedStates == [ip : Statics, iface : Adapters]

\* What the service remembers is all that tells its address from a foreign one.
SetByUs(applied, addr) == applied # Nothing /\ applied.ip = addr

\* What if an address that is right were enough, whatever the DNS servers?
DecideProfile_AddressOnly(in_office, profile, addr, dns, ours) ==
  CASE profile = Nothing -> "leave"
    [] profile # Nothing /\ addr # Dhcp /\ ~ours -> "leave"
    [] OTHER -> IF in_office
                THEN IF addr = profile.ip /\ ours THEN "leave" ELSE "static"
                ELSE IF ours /\ addr # Dhcp THEN "return" ELSE "leave"

\* What if the office came before the question whose address it is?
DecideProfile_OfficeFirst(in_office, profile, addr, dns, ours) ==
  IF profile = Nothing THEN "leave"
  ELSE IF in_office
       THEN IF addr = profile.ip /\ dns = profile.dns THEN "leave" ELSE "static"
       ELSE IF ours /\ addr # Dhcp THEN "return" ELSE "leave"

\* LeaveAlone, SetStatic with the profile's values, or SetDhcp.
DecideProfile(in_office, profile, addr, dns, ours) ==
  LET foreign == addr # Dhcp /\ ~ours
      correct == addr = profile.ip /\ ours /\ dns = profile.dns
  IN  IF profile = Nothing \/ foreign THEN "leave"
      ELSE IF in_office
           THEN IF correct THEN "leave" ELSE "static"
           ELSE IF addr # Dhcp THEN "return" ELSE "leave"
=============================================================================
