SPECIFICATION WFairSpec
CONSTANTS
  Backends = {b1}
  Metas <- OneMeta
  MetaDefaultWeight = 2
  Weight = FALSE
  Getters = {g1}
  Chans = {c1, c2}
  NoChan = NoChan
  MaxListings = 2
CHECK_DEADLOCK FALSE
PROPERTY ListIsReceived
