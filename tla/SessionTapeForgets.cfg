SPECIFICATION Spec
CONSTANTS
  MaxTurns = 2
  MaxOthers = 0
  Threshold = 2
  MaxRetries = 2
  MaxUpsets = 0
  Tasks = {k1, k2}
  None = None
INVARIANTS
  NothingForgotten
CHECK_DEADLOCK FALSE
