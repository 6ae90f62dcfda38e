SPECIFICATION FairSpec
CONSTANTS
  a = a
  b = b
  N = 3
  Elements <- ElementSet
  Leaders <- AnyParty
  InputChoices <- Same
  Thresholds <- AnyThreshold
  MaxCoefficients = 18
  MaxCrashes = 0
PROPERTY AnyPartyCanLead
CHECK_DEADLOCK FALSE
