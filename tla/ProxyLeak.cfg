SPECIFICATION FairSpec
CONSTANTS
  w1 = w1  g1 = g1  blue = blue
  Requests = {g1}
  Writers = {}
  Ports = {blue}
  QueueLimit = 1
  MaxGeneration = 3
  MaxWrites = 2
  UnseenAborts = {"answer", "retry"}
PROPERTIES HoldAlwaysDrains
CHECK_DEADLOCK FALSE
