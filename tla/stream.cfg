SPECIFICATION Spec
CONSTANTS
  UseAck = TRUE
  Impatient = TRUE
  PortTaken = FALSE
  Cap = 2
  LastSeq = 3
  MaxSlices = 1
  MaxConns = 4
  MaxFaults = 2
CHECK_DEADLOCK FALSE
INVARIANTS Backpressure EndMeansWhole
PROPERTIES Delivered Reunited
