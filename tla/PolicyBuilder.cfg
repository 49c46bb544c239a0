SPECIFICATION Spec
CONSTANTS
  IfaceOrder <- TwoUplinks
  FamilyOf <- UplinkFamily
  Names <- PolicyNames
  Percents = {20, 80}
  Weights = {3}
  FirstConfig <- Balanced
  LastResorts <- Resorts
  MaxTiers = 2
  MaxEntries = 3
  MaxSteps = 4
  MaxFailures = 1
INVARIANTS SavedIsReadable
PROPERTIES SavedAsDrawn DroppedMembersHandled
CHECK_DEADLOCK FALSE
