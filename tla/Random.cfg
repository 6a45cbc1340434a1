SPECIFICATION Spec
CONSTANTS
  Backends = {b1, b2}
  Metas <- WeightedMetas
  MetaDefaultWeight = 2
  Weight = TRUE
  Getters = {g1, g2}
  Chans = {c1, c2, c3}
  NoChan = NoChan
  MaxListings = 2
SYMMETRY Symmetry
CHECK_DEADLOCK FALSE
INVARIANTS NoStrandedReceiver NoSendOnClosedChannel RegisteredBackendsListed ProportionalDraw
