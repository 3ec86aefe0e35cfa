SPECIFICATION Spec
CONSTANTS
  MaxTurns = 2
  MaxIterations = 2
  MaxExtra = 1
  None = None
INVARIANTS
  TypeOK
  OneActiveTurn
  OwnAnswer
  TurnEndsOnce
