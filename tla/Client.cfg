CONSTANTS
  s1 = s1
  s2 = s2
  Callers = {g1, g2}
  NoOne = NoOne
  Services <- TwoServices
  NoService = NoService
  Configs <- SomeConfigs
  MaxFailures = 1
  MaxTries = 2
  MaxCalls = 1
SPECIFICATION FairSpec
INVARIANTS TypeOK OwnBuilders RegistryOpenedOnce AnnouncedTogether
PROPERTIES UnaryEnds
CHECK_DEADLOCK FALSE
