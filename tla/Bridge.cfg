SPECIFICATION FairSpec
CONSTANTS
  s1 = s1
  h1 = h1
  Addrs = {s1, h1}
  Nets = {}
  None = None
  Clients = {c1, c2}
  Hosts = {site, intranet}
  Bypass = {intranet}
  MaxConnections = 1
  MaxAcceptErrors = 2
  PauseAfter = 2
  Published <- SocksAndHttp
  MaxSeen = 2
INVARIANTS PermitsAreReturned RouteIsHonest StopsOnlyWhenBroken BypassIsHonest ToolsAreHonest
PROPERTY NobodyHangs
