SPECIFICATION FairSpec
CONSTANTS
  N = 4
  Primes <- MCPrimes
  Block <- MCBlock
  x = "x"
  SizeChoices <- MCSizes
  MinSetSize = 2
  SlotChoices <- MCSlots
  MaxBinSize = 2
  Thresholds = {1, 2, 3, 4}
  Leaders <- MCLeaders
  Tapes <- MCTapes
  Junk = junk
INVARIANT FoundIfHeldByEnough
PROPERTY EverybodyFinishes
CHECK_DEADLOCK FALSE
