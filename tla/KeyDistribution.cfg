SPECIFICATION FairKeysSpec
CONSTANTS
  a = a
  b = b
  Procs <- Two
  Id <- Ids
  NumParties <- Counts
  Cn <- Certificates
  Expected = 2
  Plugins = 2
  Faults = {"deadline", "signal", "kill", "restart"}
  MaxDealers = 2
  MaxStarts = 2
INVARIANTS
  OneKeySetPerDealer
  LeavesOnlyServed
  SharesAreTheOwners
PROPERTIES
  StartupEnds
  DealerLeaves
CHECK_DEADLOCK FALSE
