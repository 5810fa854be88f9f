SPECIFICATION MCSpec
CONSTANTS
  None = None
  x1 = x1  x2 = x2  p1 = p1  p2 = p2  r1 = r1  r2 = r2  c1 = c1  c2 = c2
  g1 = g1  g2 = g2  Applications = {a1, a2}
  Sets = {p1, p2}  Rules = {r1, r2}  Classifiers = {c1, c2}  Groups = {g1, g2}
  Targets = {t1}  L3s = {x1, x2}  Traffic = {ssh, web}
  Blocks <- MCBlocks  Routes <- MCRoutes  PoolOf <- MCPoolOf
  UseSubnetpools = FALSE  Workers = {w1, w2}  Careful = TRUE
  FabricClassifiers = {c1, c2}  FabricGroups = {g1, g2}
  Protocols = {tcp, gre}  Reversible = {tcp}  MaxRuleSets = 1
SYMMETRY Symmetry
INVARIANTS SecurityFollowsPolicy SubjectsFollowRules EpgsFollowGroups
CHECK_DEADLOCK FALSE
