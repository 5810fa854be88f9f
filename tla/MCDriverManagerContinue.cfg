SPECIFICATION Spec
CONSTANTS
  None = None
  DriverCount = 3
  Workers = {w1}
  MaxIds = 2
  Contents = {x}
  MaxRetries = 1
  Faults <- KnownDeletes
  Patient = TRUE
INVARIANT EveryDriverIsNotified
CHECK_DEADLOCK FALSE
