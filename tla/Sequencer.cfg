SPECIFICATION Spec
CONSTANTS
  Edits <- MCEdits
  SaveEdits <- MCSaved
  MaxSteps = 3
  MaxBacklog = 1
INVARIANTS
  SeqTypeOK
  TeardownOwnsThread
  SnapshotTruth
  RunningIsDriven
PROPERTIES
  JoinsReturn
CHECK_DEADLOCK FALSE
