SPECIFICATION Spec
CONSTANTS
  IfaceOrder <- TwoUplinks
  FamilyOf <- UplinkFamily
  Names <- PolicyNames
  Percents = {20, 80}
  Weights = {1, 2}
  FirstConfig <- Lopsided
  LastResorts <- Resorts
  MaxTiers = 2
  MaxEntries = 3
  MaxSteps = 3
  MaxFailures = 1
INVARIANTS WeightsAcceptable
CHECK_DEADLOCK FALSE
