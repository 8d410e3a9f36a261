SPECIFICATION LibrarySpec
CONSTANTS
  Cams = {c1, c2}
  Callers = {t1, t2}
  Names = {n1, n2}
  None = None
  MaxCommands = 3
  MaxRestarts = 1
INVARIANTS SavedIsKept ListsAreStored
CHECK_DEADLOCK FALSE
