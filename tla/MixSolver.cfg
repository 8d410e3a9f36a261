CONSTANTS
  None = None
  Cameras <- MCCameras
  Lists <- MCLists
  Gone = "G"
  PanCost <- MCPanCost
  MaxFree = 5
  MaxPinned = 4
SPECIFICATION SolverSpec
INVARIANTS LeastVisible PlanHonest
CHECK_DEADLOCK FALSE
