SPECIFICATION Spec
CONSTANTS
  NumFiles = 3
  MaxSent = 7
  MaxClock = 2
  Policy = "drained"
  QuietScan = TRUE
PROPERTIES
  ChannelSpec
CHECK_DEADLOCK FALSE
