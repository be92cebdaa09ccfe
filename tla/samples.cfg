SPECIFICATION FairSpec
CONSTANTS
  FirstSeq = 8
  LastSeq = 12
  UseAck = TRUE
  Faults = {"header", "slice", "footer"}
  MaxFaults = 2
INVARIANTS
  InOrder
  Backpressure
  NotReadyHonest
PROPERTIES
  EmitterFreed
CHECK_DEADLOCK FALSE
