SPECIFICATION Spec
CONSTANTS
  Cams = {c1, c2}
  Webcams = {w1}
  Callers = {client}
  None = None
  MaxObjects = 3
  MaxPlugs = 2
  MaxRestarts = 1
INVARIANTS
  DeviceTypeOK
  RosterMatches
  PreferenceOnAir
  
PROPERTIES
  ProgramMovesForCause
SYMMETRY Symmetry
CHECK_DEADLOCK FALSE
