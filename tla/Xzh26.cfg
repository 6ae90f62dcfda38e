SPECIFICATION EitherSpec
CONSTANTS
  Leader = 0
  member_ids <- MCOrder
  InputChoices <- Submitted
  FilterSize <- BitsPerElement
  Threshold = 3
  Window = 3
  Mortal = {1}
  Elements <- MCElements
  Hashes <- MCHashes
  Inputs <- MCInputs
  HashBound = 20
  Batch = 4
  MaxTries = 4
  Codeword <- MCCodeword
  Bits <- MCBits
  NumBits = 3
  Empty = empty
INVARIANTS
  ResultIsOverThreshold
  OnlyEqualSetsAreAnswered
  EveryItemOnce
  LeaderGetsMembersValue
  UndefinedOnlyForRepeats
  SpinsOnlyForRepeats
PROPERTIES
  OnlyUnequalSetsAreMistaken
  LeaderEnds
  MembersReturn
CHECK_DEADLOCK FALSE
