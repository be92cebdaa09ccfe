SPECIFICATION FairSpec
CONSTANTS
  Steerers = {s1, s2}
  MaxAttach = 3
  MaxControl = 1
  MaxStatus = 1
  MaxStart = 2
INVARIANTS
  ActiveMeansLocked
  ExclusiveSession
  OwnMessages
PROPERTIES
  DetachReleases
CHECK_DEADLOCK FALSE
