CONSTANTS
  q1 = q1
  q2 = q2
  Queries <- MCQueries
  Names <- MCNames
  Lower <- MCLower
  Parents <- MCParents
  Addrs <- MCAddrs
  Private <- MCPrivate
  MaxASN = 5
  Groups <- MCGroups
  Zone <- MCZone
  Policies <- MCPolicies
  FallbackRules <- MCFallbackRules
  Starts <- MCStarts
  MaxDepth = 2
SPECIFICATION FairSpec
INVARIANTS
  TypeOK
  AnswerIsChain
  CachedAsGiven
  RejectedIsReplaced
  KeptOut
PROPERTIES
  BlockHolds
  DirectOnlyWhenRouted
  EveryQueryEnds
CHECK_DEADLOCK FALSE
