CONSTANTS
  cron = cron
  loader = loader
  a = a
  b = b
  c = c
  x = x
  g1 = g1
  g2 = g2
  Crons <- MCCrons
  Loaders <- MCLoaders
  Domains <- MCDomains
  Config <- MCConfig
  Lower <- MCLower
  Position <- MCPosition
  Files <- MCFiles
  Learned = {"direct_site"}
  ClearFirst = TRUE
  BatchSize = 2
  MaxRetries = 2
  MaxLearned = 1
SPECIFICATION Spec
INVARIANT
  FirstGroupWins
CHECK_DEADLOCK FALSE
