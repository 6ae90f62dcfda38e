SPECIFICATION EitherSpec
CONSTANTS
  a = a
  b = b
  N = 3
  Elements <- ElementSet
  Leaders <- AnyParty
  InputChoices <- Submissions
  Thresholds <- AnyThreshold
  MaxCoefficients = 18
  MaxCrashes = 1
  NumParties = 3
  SetSizes = {1, 2, 5, 6, 7, 8}
  Window = 2
INVARIANTS
  ResultBetweenThresholds
  ZerosSuffice
  NothingLeftOver
  ReadsOnlyWhatFits
PROPERTIES
  LeaderHangsOnlyForStuckMember
  LeaderFinishesInEnvelope
  LeaderReceives
CHECK_DEADLOCK FALSE
