SPECIFICATION Spec
CONSTANTS
  Pieces = {"open", "close", "word", "less"}
  MaxPieces = 5
  MaxChunk = 4
INVARIANTS
  NeverLeaks
CHECK_DEADLOCK FALSE
