SPECIFICATION SessionSpec
CONSTANTS
  MaxMoves = 3
  MaxCancels = 6
  MaxWaits = 0
  Ticks = 1
  Commands = {"angle", "angle_slow", "recall", "recall_slow", "recenter", "velocity", "velocity_zero", "ptz_stop", "zoom_slow", "zoom_final", "zoom_drag", "zoom_smooth", "zoom_drive", "zoom_stop", "ai_mode", "ai_none", "ai_unknown", "ai_enable", "ai_disable", "sequence_start", "sequence_stop"}
  MaxCalls = 2
  WatchdogAge = 2
  CoalesceAge = 1
  MaxSteps = 2
  MaxLag = 1
  Failable = {"speed", "watchdog", "ai"}
INVARIANTS
  TurningIsWatched
  FlagMeansAiOff
  PreemptingCallHolds
PROPERTIES
  TurningEnds
CHECK_DEADLOCK FALSE
