SPECIFICATION SwitchSpec
CONSTANTS
  w1 = w1  g1 = g1
  Requests = {}
  Writers = {}
  Ports = {"legacy", "blue", "green"}
  QueueLimit = 1
  MaxGeneration = 16
  MaxWrites = 2
  UnseenAborts = {}
  Webs = {"w1", "w2"}
  Apis = {"a1", "a2"}
  Installed <- OnLegacy
  Targets <- BothTargets
  MaxFaults = 1
INVARIANT BootsPublished
CHECK_DEADLOCK FALSE
