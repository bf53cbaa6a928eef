SPECIFICATION FairSpec
CONSTANTS
  None = None
  Hash <- MCHash
  Linear = 2
  Routes <- MCRoutes
  Source <- MCSource
  Announced <- MCAnnounced
  InRules <- MCInRules
  Confs <- MCConfs
  Boot <- MCBoot
  LocalAs = 4
  Offers <- FewOffers
  Paths <- MCPaths
  Gens = 256
  MaxUpdates = 0
  MaxReloads = 0
CHECK_DEADLOCK FALSE
PROPERTY LatestUsed
