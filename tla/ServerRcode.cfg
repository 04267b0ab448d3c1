CONSTANTS
  Header = 1
  DefaultSize = 5
  SafeSize = 8
  EdnsSizes = {0, 4, 8, 20}
  Sections <- MCSections
  Rcodes <- MCRcodes
SPECIFICATION Spec
INVARIANT
  RcodeReachesClient
CHECK_DEADLOCK FALSE
