SPECIFICATION Spec
CONSTANTS
  Clients = {"c1", "c2"}
  Cap = 1
  ResetLoses = FALSE
  MaxSend = 3
  MaxAttach = 3
  MaxKills = 1
  MaxFaults = 1
CHECK_DEADLOCK FALSE
INVARIANTS Welcome
PROPERTIES ControlChannel AttachAnswered
