SPECIFICATION FairSpec
CONSTANTS
  Keys = {k1, k2}
  Values = {v1}
  Empty = Empty
  NoNode = NoNode
  MaxOutages = 2
  MaxCalls = 3
CHECK_DEADLOCK FALSE
INVARIANTS TypeOK RegisteredStays
PROPERTY RegisteredAgain
