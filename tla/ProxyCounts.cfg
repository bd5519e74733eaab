SPECIFICATION Spec
CONSTANTS
  w1 = w1  g1 = g1  blue = blue
  Requests = {w1, g1}
  Writers = {w1}
  Ports = {blue}
  QueueLimit = 1
  MaxGeneration = 3
  MaxWrites = 3
  UnseenAborts = {}
INVARIANTS TypeOK CountsExact NothingLeftQueued
CHECK_DEADLOCK FALSE
