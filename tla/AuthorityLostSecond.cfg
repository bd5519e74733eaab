SPECIFICATION Spec
CONSTANTS
  c1 = c1
  c2 = c2
  Commands = {c1}
  Refused = {}
  MaxBatch = 2
  MaxFaults = 1
  QueueLimit = 1
  MaxRevision = 3
  MaxNow = 3
  MaxClicks = 1
INVARIANT NoSecondLost
CHECK_DEADLOCK FALSE
