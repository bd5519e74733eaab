SPECIFICATION Spec
CONSTANTS
  c1 = c1
  c2 = c2
  Commands = {c1,c2}
  Refused = {}
  MaxBatch = 2
  MaxFaults = 0
  QueueLimit = 1
  MaxRevision = 4
  MaxNow = 2
  MaxClicks = 1
INVARIANT UndoneCanBeRedone
CHECK_DEADLOCK FALSE
