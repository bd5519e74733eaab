SPECIFICATION Spec
CONSTANTS
  None = None
  Damaged = Damaged
  Keys = {k1}
  Values = {v1}
  TxIds = {t1}
  Commands = {c1}
  MaxRevision = 1
  MaxGeneration = 3
  MaxWalEntries = 1
  MaxDamage = 1
  DamageKinds = {"pointer", "manifest", "chunk", "walFrame"}
  CheckpointAhead = FALSE
  TruncationMayFail = TRUE
SYMMETRY Symmetry
INVARIANTS
  NoSilentRollback
  AckedOperationsRecoverable
