SPECIFICATION Spec
CONSTANTS
  Keys = {k1}
  Values = {v1}
  Empty = Empty
  NoNode = NoNode
  MaxOutages = 1
  MaxCalls = 2
CHECK_DEADLOCK FALSE
INVARIANT UnregisteredStaysAbsent
