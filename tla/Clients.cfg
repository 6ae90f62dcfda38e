SPECIFICATION EitherSpec
CONSTANTS
  N = 3
  Attempts = 2
  Plans <- MCPlans
  Protocols = {"ks05_t_mpsi"}
  MaxElements = 2
  None = None
  d1 = d1
  d2 = d2
  u1 = u1
  s1 = s1
  e1 = e1
  Threads <- MCThreads
  Kind <- MCKind
  NumParties <- MCNumParties
  Dealerless <- MCDealerless
  Dealer = dealer
  NoRequest = norequest
  Stubborn <- MCStubborn
INVARIANTS
  OkOnlyTogether
  NoStrayProcess
  LeavesNothingBehind
PROPERTIES
  LastLeaderIsAnswered
  EveryRequestEnds
CHECK_DEADLOCK FALSE
