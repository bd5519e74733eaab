SPECIFICATION SwitchSpec
CONSTANTS
  w1 = w1  g1 = g1
  Requests = {w1, g1}
  Writers = {w1}
  Ports = {"legacy", "blue", "green"}
  QueueLimit = 1
  MaxGeneration = 13
  MaxWrites = 2
  UnseenAborts = {}
  Webs = {"w1", "w2"}
  Apis = {"a1", "a2"}
  Installed <- OnLegacy
  Targets <- AllTargets
  MaxFaults = 1
INVARIANTS SwitchTypeOK ServesPublished RunsPublished
PROPERTY StopsIdle
CHECK_DEADLOCK FALSE
