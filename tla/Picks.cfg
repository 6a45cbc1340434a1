CONSTANTS
  Backends = {b1, b2}
  Metas <- ThreeWeights
  MetaDefaultWeight = 2
  MaxPicks = 6
  MaxChanges = 4
SPECIFICATION PicksSpec
SYMMETRY Symmetry
INVARIANTS TakesTurns FairShare DebtsBounded
CHECK_DEADLOCK FALSE
