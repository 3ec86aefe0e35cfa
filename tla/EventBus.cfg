SPECIFICATION Spec
CONSTANTS
  kernel = kernel
  s1 = s1
  plugin_error = plugin_error
  k1 = k1
  a = a
  b = b
  o = o
  Sessions <- MCSessions
  KernelSession = kernel
  Kinds <- MCKinds
  ErrorKind = plugin_error
  Subs <- MCSubs
  SubKind <- MCSubKind
  KernelSubs = {b}
  CancelSubs = {a}
  Publishers = {p1, p2}
  Closers = {c1, c2}
  Queues = {q1, q2, q3}
  MaxEvents = 2
  NoQueue = NoQueue
  NoEvent = NoEvent
  CloseToken = CloseToken
  Nothing = Nothing
SYMMETRY Symmetry
INVARIANTS
  TypeOK
  OneWorkerPerSession
PROPERTIES
  PublishOrder
  ImplementsFifo
