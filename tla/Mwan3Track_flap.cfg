SPECIFICATION FairSpec
CONSTANTS
  initial_state = "online"
  MaxFlaps = 4
  MaxReloads = 0
  MaxCrashes = 1
  Configs <- OneConfig
  FirstConfig <- FewRounds
  Hosts = 2
  Reliability = 1
INVARIANTS PinsFollowPolicy ScoreMatchesStatus SettledIsSound
PROPERTIES RoundsFollowHysteresis FailoverEventually
CHECK_DEADLOCK FALSE
