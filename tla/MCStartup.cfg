CONSTANTS
  server = server
  loader = loader
  Processes <- MCProcesses
  Loaders <- MCLoaders
  Bodies <- MCBodies
  Whole <- MCWhole
  Starts <- MCStarts
  MaxStarts <- MCMaxStarts
SPECIFICATION FairSpec
INVARIANTS
  TypeOK
  NeverPartial
  AskableGroupsExist
  NameserversCarried
PROPERTIES
  InstalledStays
  EveryStartEnds
CHECK_DEADLOCK FALSE
