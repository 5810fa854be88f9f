SPECIFICATION Spec
CONSTANTS
  s1 = s1  s2 = s2  h1 = h1  h2 = h2  w1 = w1  w2 = w2
  p1 = p1  p2 = p2  p3 = p3
  Subnets = {s1}
  Hosts = {h1, h2}
  Workers = {w1, w2}
  Configs <- NarrowAndWide
  PortIds = {p1, p2, p3}
  Switches = FALSE
  None = None  Plain = Plain
SYMMETRY Symmetry
INVARIANTS TypeOK RangesDisjoint NoFalseExhaustion PolicyFollowsSubnets
CHECK_DEADLOCK FALSE
