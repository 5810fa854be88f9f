SPECIFICATION Spec
CONSTANTS
  None = None
  DriverCount = 2
  Workers = {w1, w2}
  MaxIds = 3
  Contents = {x, y}
  MaxRetries = 1
  Faults <- CleanDeletes
  Patient = TRUE
INVARIANTS UndoneIsForgotten DriversAreStacked
PROPERTIES AnsweredIsRealised ImplementsObjects
CHECK_DEADLOCK FALSE
SYMMETRY Symmetry
