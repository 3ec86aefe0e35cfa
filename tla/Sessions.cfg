SPECIFICATION Spec
CONSTANTS
  MaxTurns = 2
  MaxOthers = 1
  Threshold = 2
  MaxRetries = 2
  MaxUpsets = 2
  Tasks = {k1, k2}
  Conns = {c1, c2}
  SinceEntries = {None, 0}
  MaxConnections = 2
  MaxEvents = 2
  Sessions = {s1}
  MaxMessages = 2
  MaxCommands = 1
  MaxCalls = 2
  MaxExtras = 1
  Entries = {"e1", "e2"}
  TopK = 1
  MaxJobs = 4
  None = None
SYMMETRY Symmetry
INVARIANTS
  TypeOK
  TapeTellsTheSession
  RepresentedOnce
  OwnMessageOnce
  OneCompaction
  
  InOrder
  NothingLost
  ReadsWhatItWrote
CHECK_DEADLOCK FALSE
