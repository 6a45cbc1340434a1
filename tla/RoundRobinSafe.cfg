SPECIFICATION Spec
CONSTANTS
  Backends = {b1, b2}
  Metas <- WeightedMetas
  NoWeight = NoWeight
  MetaDefaultWeight = 2
  Weight = TRUE
  Getters = {g1, g2}
  Chans = {c1, c2, c3}
  NoChan = NoChan
  MaxListings = 2
SYMMETRY Symmetry
INVARIANTS TypeOK NoStrandedWaiter ViewInSync NoSendOnClosedChannel RegisteredBackendsListed OnlyOutdatedRemain
PROPERTY ClosedIsFinal
