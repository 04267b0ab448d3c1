CONSTANTS
  c1 = c1
  c2 = c2
  Calls <- MCCalls
  DisableCache <- MCDisableCache
SPECIFICATION Spec
INVARIANT
  GatherEndsAtTimeout
CHECK_DEADLOCK FALSE
