SPECIFICATION Spec
CONSTANTS
  Tabs = {t1, t2}
  None = None
  Duration = 1
  MaxTurns = 4
  MaxSaves = 2
  MaxNow = 1
  MaxConflicts = 1
  MaxFaults = 1
SYMMETRY TabSymmetry
VIEW View
CHECK_DEADLOCK FALSE
INVARIANTS
  LocalTypeOK
  AckedSavesSurvive
  PrimaryCarriesLine
PROPERTIES
  ImplementsSaveLine
