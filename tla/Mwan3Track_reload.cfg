SPECIFICATION Spec
CONSTANTS
  initial_state = "online"
  MaxFlaps = 3
  MaxReloads = 2
  MaxCrashes = 0
  Configs <- TwoConfigs
  FirstConfig <- FewRounds
  Hosts = 1
  Reliability = 1
INVARIANTS TypeOK PolicyRoutable
CHECK_DEADLOCK FALSE
