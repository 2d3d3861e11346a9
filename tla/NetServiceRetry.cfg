SPECIFICATION FairSpec
CONSTANTS
  ip1 = ip1
  ip2 = ip2
  ip3 = ip3
  d1 = d1
  d2 = d2
  Adapters = {eth}
  Statics = {ip1, ip2, ip3}
  DnsLists = {d1, d2}
  Dhcp = dhcp
  Nothing = nothing
  Nets = {office, home}
  Offices = {office}
  Profiles <- OneProfile
  Faults <- ReturnRefused
PROPERTY ReturnIsRetried
