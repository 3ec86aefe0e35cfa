SPECIFICATION Spec
CONSTANTS
  Plugins = {p, q}
  Shipped = {p, q}
  Records = {n1, n2, n3}
  Threshold = 2
  MaxFailures = 3
  Concurrent = FALSE
  Start = Start
  Instances = {"a", "b"}
  Bundled = "a"
  Requests = {r1, r2}
  MaxRequests = 2
  MaxDowns = 1
  Names = {"t"}
  Calls = {"c1", "c2"}
  Spawns = {"p1", "p2"}
  Tools = {"x", "y"}
  Allowed = {"x"}
  MaxToolCalls = 1
  MaxIterations = 6
  MaxTyped = 2
  MaxTools = 2
  Sessions = {r1, r2}
  MaxEvents = 2
  MaxClicks = 2
  MaxSockets = 3
  HandlerTimeout = 2
  None = None
SYMMETRY Symmetry
INVARIANTS
  TypeOK
  Accounted
  StopLeavesNothing
  CacheTellsDb
  ClientsFollow
  BridgeAccounted
  ChildAccounted
  TurnAccounted
  ShowsWhatWasAsked
CHECK_DEADLOCK FALSE
