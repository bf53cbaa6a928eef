SPECIFICATION Spec
CONSTANTS
  N = 2
  a = a
  b = b
  c = c
  Deny = Deny
  None = None
  Attrs <- MCAttrs
  TooBig <- MCTooBig
  Budgets <- MCBudgets
  Capas <- MCCapas
CHECK_DEADLOCK FALSE
SYMMETRY Symm
INVARIANTS
    AdjOutRight NeighborInSync WaitsEnd
PROPERTIES
    EorAfterTable
