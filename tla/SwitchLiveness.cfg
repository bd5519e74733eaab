SPECIFICATION FairSwitchSpec
CONSTANTS
  w1 = w1  g1 = g1
  Requests = {g1}
  Writers = {}
  Ports = {"legacy", "blue", "green"}
  QueueLimit = 1
  MaxGeneration = 40
  MaxWrites = 2
  UnseenAborts = {}
  Webs = {"w1", "w2"}
  Apis = {"a1", "a2"}
  Installed <- OnActive
  Targets <- BothTargets
  MaxFaults = 2
PROPERTIES Converges Answered
CHECK_DEADLOCK FALSE
