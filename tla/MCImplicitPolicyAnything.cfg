SPECIFICATION Spec
CONSTANTS
  None = None
  Workers = {w1, w2}
  Groups = {g1}
  L2s = {l1, l2}
  L3s = {r1, r2}
  Requests <- Operations
  Flags = {FALSE}
  Patient = FALSE
SYMMETRY Identities
INVARIANT TypeOK
PROPERTY ExplicitPoliciesStay
CHECK_DEADLOCK FALSE
