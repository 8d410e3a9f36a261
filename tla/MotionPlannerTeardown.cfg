SPECIFICATION FairSpec
CONSTANTS
  MaxMoves = 1
  MaxCancels = 0
  MaxWaits = 1
  Ticks = 1
PROPERTIES
  JoinReturns
CHECK_DEADLOCK FALSE
