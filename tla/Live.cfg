SPECIFICATION PartSpec
CONSTANTS
  kernel = kernel
  s1 = s1
  plugin_error = plugin_error
  k1 = k1
  a = a
  b = b
  o = o
  Sessions <- MCSessions
  KernelSession = kernel
  Kinds <- MCKinds
  ErrorKind = plugin_error
  Subs <- LiveSubs
  SubKind <- LiveSubKind
  KernelSubs = {}
  CancelSubs = {}
  Publishers = {p1}
  Closers = {c1, c2}
  Queues = {q1, q2}
  MaxEvents = 2
  NoQueue = NoQueue
  NoEvent = NoEvent
  CloseToken = CloseToken
  Nothing = Nothing
  Plugins = {p, q}
  Shipped = {p, q}
  Requests = {}
  Records = {r1, r2}
  Threshold = 2
  MaxFailures = 3
  Concurrent = FALSE
  Start = Start
  None = None
INVARIANTS
  NothingStranded
  AwaitedIsHeld
  OrderlyUnload
PROPERTIES
  CallsReturn
  StatusLadder
  Ends
CHECK_DEADLOCK FALSE
