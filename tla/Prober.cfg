SPECIFICATION ProberSpec
CONSTANTS
  s1 = s1
  h1 = h1
  Callers = {c1, c2}
  Addrs = {s1, h1}
  Nets = {}
  Asked <- TwoSettings
  None = None
  MaxGeneration = 2
SYMMETRY Symmetry
INVARIANTS FreshAfterInvalidate
