SPECIFICATION Spec
CONSTANTS
  Backends = {b1}
  Metas <- WeightedMetas
  NoWeight = NoWeight
  MetaDefaultWeight = 2
  Weight = TRUE
  Getters = {g1}
  Chans = {c1, c2}
  NoChan = NoChan
  MaxListings = 3
INVARIANT NoDepartedBackend
