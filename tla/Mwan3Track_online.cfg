SPECIFICATION Spec
CONSTANTS
  initial_state = "online"
  MaxFlaps = 2
  MaxReloads = 0
  MaxCrashes = 0
  Configs <- OneConfig
  FirstConfig <- FewRounds
  Hosts = 1
  Reliability = 1
INVARIANTS OnlineInPolicy
CHECK_DEADLOCK FALSE
