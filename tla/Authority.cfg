SPECIFICATION FairSpec
CONSTANTS
  c1 = c1
  c2 = c2
  Commands = {c1, c2}
  Refused = {c2}
  MaxBatch = 2
  MaxFaults = 2
  QueueLimit = 1
  MaxRevision = 3
  MaxNow = 2
  MaxClicks = 1
INVARIANTS
  AuthorityTypeOK
  LeaseBracketsPublication
  SessionNeverForks
  RecoveryNeverRefuses
  ToldCommandsSurvive
PROPERTIES
  NoGenericWriteUnderLease
  ImplementsLedger
  PendingSettles
  StoppedRunsAgain
CHECK_DEADLOCK FALSE
