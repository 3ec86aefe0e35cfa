SPECIFICATION Spec
CONSTANTS
  MaxTurns = 1
  MaxIterations = 1
  MaxExtra = 0
  None = None
PROPERTIES
  ToolErrorResolves
