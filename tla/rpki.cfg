SPECIFICATION Spec
CONSTANTS
  None = None
  Hash <- MCHash
  Linear = 2
  Routes <- MCRoutes
  Source <- MCSource
  Announced <- MCAnnounced
  InRules <- MCInRules
  Confs <- MCConfs
  Boot <- MCBoot
  LocalAs = 4
  Offers <- MCOffers
  Paths <- MCPaths
  Gens = 256
  MaxUpdates = 2
  MaxReloads = 1
CHECK_DEADLOCK FALSE
INVARIANTS
    TableRight ValidationRight StatesRight LocFollows
