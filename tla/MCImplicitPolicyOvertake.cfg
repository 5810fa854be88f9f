SPECIFICATION Spec
CONSTANTS
  None = None
  Workers = {w1, w2}
  Groups = {g1}
  L2s = {l1, l2}
  L3s = {r1, r2}
  Requests <- WithGroupUpdates
  Flags = {FALSE}
  Patient = FALSE
PROPERTY GroupKeepsL2Policy
CHECK_DEADLOCK FALSE
