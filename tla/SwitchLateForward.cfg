SPECIFICATION FairSwitchSpec
CONSTANTS
  w1 = w1  g1 = g1
  Requests = {}
  Writers = {}
  Ports = {"legacy", "blue", "green"}
  QueueLimit = 1
  MaxGeneration = 20
  MaxWrites = 2
  UnseenAborts = {}
  Webs = {"w1", "w2"}
  Apis = {"a1", "a2"}
  Installed <- OnActive
  Targets <- BothTargets
  MaxFaults = 1
PROPERTY Finishable
CHECK_DEADLOCK FALSE
