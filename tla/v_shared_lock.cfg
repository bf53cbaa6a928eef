SPECIFICATION Spec
CONSTANTS
  N = 3
  Count = 1
  Subtrees <- MCSubtrees
  MaxWalks = 2
  MaxRoutes = 2
  MaxStops = 1
  SharedStart = TRUE
  FreeBusy = FALSE
INVARIANT OneLock
CHECK_DEADLOCK FALSE
