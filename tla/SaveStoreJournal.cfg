SPECIFICATION Spec
CONSTANTS
  None = None
  Damaged = Damaged
  Keys = {}
  Values = {}
  TxIds = {t1}
  Commands = {c1, c2}
  MaxRevision = 2
  MaxGeneration = 3
  MaxWalEntries = 2
  MaxDamage = 0
  DamageKinds = {}
  CheckpointAhead = FALSE
  TruncationMayFail = TRUE
SYMMETRY Symmetry
INVARIANTS
  AlwaysRecoverable
  AckedOperationsLinear
PROPERTIES
  ImplementsDurableSlot
