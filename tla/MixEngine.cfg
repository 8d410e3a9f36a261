CONSTANTS
  None = None
  CamOrder <- MCCameras
  PanCost <- MCPanCost
  Clients = {c1, c2}
  Edits <- MCEdits
  MaxCommands = 2
  MaxPlugs = 1
SPECIFICATION Spec
INVARIANTS EngineTypeOK StartTakes StopHolds PlanOfAuthored
PROPERTIES ArrivesWalked
CHECK_DEADLOCK FALSE
