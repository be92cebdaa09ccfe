SPECIFICATION FairSpec
CONSTANTS
  NumFiles = 3
  MaxSent = 6
  MaxClock = 2
  Policy = "lagging"
  QuietScan = FALSE
INVARIANTS
  OnceAndWhole
PROPERTIES
  EventuallyDelivered
CHECK_DEADLOCK FALSE
