SPECIFICATION SwitchSpec
CONSTANTS
  w1 = w1  g1 = g1
  Requests = {}
  Writers = {}
  Ports = {"legacy", "blue", "green"}
  QueueLimit = 1
  MaxGeneration = 40
  MaxWrites = 2
  UnseenAborts = {}
  Webs = {"w1", "w2"}
  Apis = {"a1", "a2"}
  Installed <- OnActive
  Targets <- BothTargets
  MaxFaults = 2
INVARIANT RunsPublished
CHECK_DEADLOCK FALSE
