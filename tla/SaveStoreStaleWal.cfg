SPECIFICATION Spec
CONSTANTS
  None = None
  Damaged = Damaged
  Keys = {}
  Values = {}
  TxIds = {t1}
  Commands = {c1, c2}
  MaxRevision = 3
  MaxGeneration = 3
  MaxWalEntries = 2
  MaxDamage = 0
  DamageKinds = {}
  CheckpointAhead = TRUE
  TruncationMayFail = TRUE
SYMMETRY Symmetry
INVARIANTS
  AlwaysRecoverable
