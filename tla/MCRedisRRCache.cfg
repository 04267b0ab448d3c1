CONSTANTS
  p1 = p1
  p2 = p2
  k1 = k1
  r1 = r1
  r2 = r2
  Callers <- MCCallers
  Keys <- MCKeys
  RRs <- MCRRs
  RRsets <- MCRRsets
  Unreadable <- MCUnreadable
  MaxTTL = 1
  Second = 2
  Margin = 1
  MaxStores = 2
  MaxTime = 4
SPECIFICATION Spec
SYMMETRY Symmetry
INVARIANTS
  TypeOK
  EveryKeyEnds
  ServedNoLonger
PROPERTY
  ZRemSparesFresh
CHECK_DEADLOCK FALSE
