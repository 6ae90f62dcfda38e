SPECIFICATION FairSpec
CONSTANTS
  a = a
  b = b
  N = 3
  Elements <- ElementSet
  Leaders <- AnyParty
  InputChoices <- Inputs
  Thresholds = {2}
  NumHash = 1
  RandomBound = 3
  Window = 1
  Mortal = {0}
INVARIANTS
  ExactUnlessAMemberDrawsOne
  FramesAsExpected
PROPERTY LastLeaderFinishes
CHECK_DEADLOCK FALSE
