SPECIFICATION FairSpec
CONSTANTS
  N = 4
  Steerable = {1, 2, 3}
  MaxPerMsg = 2
  MaxEdits = 3
  MaxChanges = 1
  MaxLost = 1
  MaxCut = 1
  MaxQueue = 4
PROPERTIES NeverBack EditDelivered ViewConverges
