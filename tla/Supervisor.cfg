SPECIFICATION FairSpec
CONSTANTS
  Calls = {c1}
  MaxBridges = 4
  Buttons = {pairing}
  MaxRestarts = 5
  MaxClicks = 2
  MaxCrashes = 2
  MaxLaunches = 2
CONSTRAINT Followed
INVARIANTS SupervisorTypeOK NoneLost
PROPERTIES StoppedStaysStopped CrashIsRepaired SettlesDown
CHECK_DEADLOCK FALSE
