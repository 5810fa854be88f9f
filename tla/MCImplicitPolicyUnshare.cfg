SPECIFICATION Spec
CONSTANTS
  None = None
  Workers = {w1, w2}
  Groups = {g1}
  L2s = {l1, l2}
  L3s = {r1, r2}
  Requests <- WithSharing
  Flags = {TRUE}
  Patient = TRUE
INVARIANT SharedUsesShared
CHECK_DEADLOCK FALSE
