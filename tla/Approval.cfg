SPECIFICATION GateSpec
CONSTANTS
  MaxTurns = 1
  MaxIterations = 1
  MaxExtra = 0
  None = None
  Calls <- GateCalls
  SessionOf <- GateSessionOf
  KeyOf <- GateKeyOf
  NoCall = NoCall
  ApprovalTimeouts = {1, 4}
  HandlerTimeout = 2
  Pieces = {"open", "close", "word"}
  MaxPieces = 5
  MaxChunk = 4
INVARIANTS
  TurnTypes
  PendingIsAwaited
  RunsOnlyApproved
  PromptSettled
  RefusalReported
  NoneWaitsAfterStop
  NeverLeaks
