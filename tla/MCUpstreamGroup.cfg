CONSTANTS
  n1 = n1
  n2 = n2
  n3 = n3
  Nameservers <- MCNameservers
SPECIFICATION FairSpec
INVARIANTS
  TypeOK
PROPERTIES
  KeepsPromise
  Returns
  NoLeak
CHECK_DEADLOCK FALSE
