SPECIFICATION Spec
CONSTANTS
  None = None
  Workers = {w1, w2, w3}
  Groups = {g1, g2}
  L2s = {l1, l2}
  L3s = {r1, r2}
  Requests <- Lifecycles
  Flags = {TRUE, FALSE}
  Patient = TRUE
SYMMETRY Identities
INVARIANTS EveryRowHasItsPolicy NoPolicyIsLeaked OneDefaultL3Policy SharedUsesShared
CHECK_DEADLOCK FALSE
