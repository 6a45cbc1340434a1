CONSTANTS
  Clients = {c1, c2}
  Keys = {k1, k2}
  NoSnapshot = NoSnapshot
  NoKey = NoKey
  NoClient = NoClient
  MaxCalls = 4
  MaxFailures = 1
  MaxExpiries = 1
SPECIFICATION Spec
SYMMETRY Symmetry
CONSTRAINT LockOrKeys
INVARIANTS TypeOK LockExclusive LeaderKnown
PROPERTIES ImplementsCompareAndSet WatchInOrder
CHECK_DEADLOCK FALSE
