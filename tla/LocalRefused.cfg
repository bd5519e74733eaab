SPECIFICATION Spec
CONSTANTS
  Tabs = {t1, t2}
  None = None
  Duration = 1
  MaxTurns = 4
  MaxSaves = 3
  MaxNow = 0
  MaxConflicts = 1
  MaxFaults = 0
SYMMETRY TabSymmetry
CHECK_DEADLOCK FALSE
INVARIANTS
  RefusedKeepsConfirmed
