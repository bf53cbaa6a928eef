SPECIFICATION FairSpec
CONSTANTS
  N = 3
  Count = 1
  Subtrees <- MCSubtrees
  MaxWalks = 2
  MaxRoutes = 2
  MaxStops = 1
  SharedStart = FALSE
  FreeBusy = FALSE
CHECK_DEADLOCK FALSE
INVARIANTS
    TreeRight EachOnce
PROPERTIES
    DumpEnds
