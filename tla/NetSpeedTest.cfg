SPECIFICATION FairSpec
CONSTANTS
  MaxChecks = 1
  MaxClicks = 3
  MaxFaults = 1
INVARIANTS ServerAsAsked OneTestAtATime
PROPERTIES PageSettles
