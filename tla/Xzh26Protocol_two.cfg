SPECIFICATION Spec
CONSTANTS
  Leader = 0
  member_ids <- MCOrder
  InputChoices <- Submitted
  FilterSize <- BitsPerElement
  Threshold = 2
  Window = 3
  Mortal = {1}
INVARIANT ResultIsOverThreshold
CHECK_DEADLOCK FALSE
