SPECIFICATION FairSpec
CONSTANTS
  Messages <- Immediate
  AutoTypes <- OneIO
  Internal <- OneInternal
  SteerInterval = 1
  HandlePause = TRUE
  MaxCmds = 5
  MaxParams = 3
  CmdSlots = 12
  Period = 2
  MaxTime = 0
  MaxSent = 3
INVARIANTS
  CommandsInOrder
  DefsBeforeStatus
  PausedHasSteerer
PROPERTIES
  MessagesRead
  DetachHonoured
CHECK_DEADLOCK FALSE
