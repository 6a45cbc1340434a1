SPECIFICATION WFairSpec
CONSTANTS
  Backends = {b1}
  Metas <- OneMeta
  MetaDefaultWeight = 2
  Weight = FALSE
  Getters = {g1, g2}
  Chans = {c1, c2, c3}
  NoChan = NoChan
  MaxListings = 2
CHECK_DEADLOCK FALSE
PROPERTIES GetStuckOnlyInCycle WaiterReleased
