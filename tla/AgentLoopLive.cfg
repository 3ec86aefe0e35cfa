SPECIFICATION FairSpec
CONSTANTS
  MaxTurns = 2
  MaxIterations = 1
  MaxExtra = 1
  None = None
PROPERTIES
  TurnTerminates
