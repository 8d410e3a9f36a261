SPECIFICATION Spec
CONSTANTS
  Edits <- MCClearing
  SaveEdits <- MCNone
  MaxSteps = 1
  MaxBacklog = 0
PROPERTIES
  CommandsReturn
CHECK_DEADLOCK FALSE
