SPECIFICATION MCSpec
CONSTANTS
  None = None
  x1 = x1
  x2 = x2
  l1 = l1
  l2 = l2
  e1 = e1
  e2 = e2
  n1 = n1
  n2 = n2
  L3s = {x1, x2}
  L2s = {l1, l2}
  Segments = {e1, e2}
  Policies = {p1}
  Groups = {g1, g2}
  Subnets = {s1, s2}
  Contracts = {c1, c2}
  Workers = {w1, w2}
  L3Of <- MCL3Of
  NetOf <- MCNetOf
  Nat <- MCNat
  Patient = TRUE
INVARIANT RoutingFollowsPolicy
PROPERTY Answered
