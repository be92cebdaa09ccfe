SPECIFICATION FairSpec
CONSTANTS
  Messages <- External
  AutoTypes <- OneIO
  Internal <- OneInternal
  SteerInterval = 2
  HandlePause = FALSE
  MaxCmds = 3
  MaxParams = 4
  CmdSlots = 9
  Period = 2
  MaxTime = 5
  MaxSent = 3
INVARIANTS
  ArgsFaithful
PROPERTIES
  DeferredActed
CHECK_DEADLOCK FALSE
