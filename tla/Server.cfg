SPECIFICATION FairSpec
CONSTANTS
  Services = {s1, s2}
  MaxSignals = 2
  MaxErrors = 1
  MaxExpiries = 1
  MaxRpcs = 1
CHECK_DEADLOCK FALSE
INVARIANTS TypeOK HiddenBeforeDraining NotAnnouncedAgain OnlyWantedAnnounced
PROPERTY ShutdownEnds
