SPECIFICATION Spec
CONSTANTS
  Plugins = {p}
  Shipped = {}
  Requests = {t1, t2}
  Records = {r1, r2}
  Threshold = 2
  MaxFailures = 0
  Concurrent = TRUE
  Start = Start
  None = None
INVARIANTS
  NoOrphans
CHECK_DEADLOCK FALSE
