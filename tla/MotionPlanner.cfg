SPECIFICATION FairSpec
CONSTANTS
  MaxMoves = 3
  MaxCancels = 2
  MaxWaits = 2
  Ticks = 2
INVARIANTS
  WaitCoversMove
PROPERTIES
  NoLostWakeup
  ImplementsMoveSlot
CHECK_DEADLOCK FALSE
