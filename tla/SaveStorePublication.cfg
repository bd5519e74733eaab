SPECIFICATION Spec
CONSTANTS
  None = None
  Damaged = Damaged
  Keys = {k1}
  Values = {v1, v2}
  TxIds = {t1, t2}
  Commands = {}
  MaxRevision = 0
  MaxGeneration = 4
  MaxWalEntries = 0
  MaxDamage = 0
  DamageKinds = {}
  CheckpointAhead = FALSE
  TruncationMayFail = TRUE
SYMMETRY Symmetry
INVARIANTS
  TypeOK
  PublishedGenerationsIntact
PROPERTIES
  PublicationLineage
