SPECIFICATION ServiceSpec
CONSTANTS
  History = 5
  Buffered = 2
  SameSecond = FALSE
  MaxStatus = 3
  MaxControl = 2
  MaxDefs = 2
  MaxFaults = 1
CHECK_DEADLOCK FALSE
INVARIANTS OnceOnly
PROPERTIES ControlActed DefsKnown
