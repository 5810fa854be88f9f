SPECIFICATION Spec
CONSTANTS
  s1 = s1  s2 = s2  h1 = h1  h2 = h2  w1 = w1  w2 = w2
  p1 = p1  p2 = p2  p3 = p3
  Subnets = {s1, s2}
  Hosts = {h1}
  Workers = {w1}
  Configs <- OnlyNarrow
  PortIds = {p1}
  Switches = FALSE
  None = None  Plain = Plain
INVARIANT ContractHasGraph
CHECK_DEADLOCK FALSE
