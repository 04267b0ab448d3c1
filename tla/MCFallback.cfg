CONSTANTS
  c1 = c1
  c2 = c2
  Calls <- MCCalls
  DisableCache <- MCDisableCache
SPECIFICATION FairSpec
INVARIANTS
  TypeOK
  DecisionFollowsECS
  FailureIsReal
  LearnedWasDecided
PROPERTIES
  EveryCallReturns
CHECK_DEADLOCK FALSE
