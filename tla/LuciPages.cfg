SPECIFICATION FairSpec
CONSTANTS
  MaxVersion = 2
  MaxLost = 1
  MaxClicks = 3
  MaxFlips = 2
  MaxFaults = 1
  MaxHandled = 2
  MaxTime = 2
  MaxLines = 2
  MaxClears = 1
  MaxLogFaults = 1
INVARIANTS OneDownload TrustedVersion
PROPERTIES StatusRight HandlersEnd PageFollowsLog
CHECK_DEADLOCK FALSE
