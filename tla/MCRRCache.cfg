CONSTANTS
  p1 = p1
  p2 = p2
  cname = cname
  addr = addr
  r1 = r1
  r2 = r2
  Callers <- MCCallers
  Keys <- MCKeys
  Aliases <- MCAliases
  RRs <- MCRRs
  MaxTTL = 1
  Second = 2
  Replies <- MCReplies
  MaxReplies = 2
  MaxTime = 3
SPECIFICATION Spec
SYMMETRY Symmetry
INVARIANTS
  TypeOK
  OneRRset
  ServedAlive
PROPERTY
  CleanUpDropsOnlyExpired
CHECK_DEADLOCK FALSE
