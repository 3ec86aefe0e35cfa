SPECIFICATION GateSpec
CONSTANTS
  MaxTurns = 1
  MaxIterations = 1
  MaxExtra = 0
  None = None
  Calls <- GateCalls
  SessionOf <- GateSessionOf
  KeyOf <- GateKeyOf
  NoCall = NoCall
  ApprovalTimeouts = {2}
  HandlerTimeout = 1
  Pieces = {"word"}
  MaxPieces = 1
  MaxChunk = 1
INVARIANTS
  UnansweredIsHandled
CHECK_DEADLOCK FALSE
