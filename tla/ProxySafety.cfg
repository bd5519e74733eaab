SPECIFICATION FairSpec
CONSTANTS
  w1 = w1  g1 = g1  blue = blue
  Requests = {w1, g1}
  Writers = {w1}
  Ports = {blue}
  QueueLimit = 1
  MaxGeneration = 3
  MaxWrites = 2
  UnseenAborts = {"answer", "retry"}
INVARIANT IdleReportsTrue
PROPERTY HoldDrains
CHECK_DEADLOCK FALSE
