SPECIFICATION ResolverSpec
CONSTANTS
  Backends = {b1, b2}
  Metas <- EmptyAndOne
  MetaDefaultWeight = 2
  Empty = Empty
  Failures = {"list", "watch", "expiry"}
  MaxChanges = 3
  MaxFailures = 2
CHECK_DEADLOCK FALSE
INVARIANT TypeOK
PROPERTIES StayersKept FiredIsSeen ToldTwice
