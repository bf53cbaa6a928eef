SPECIFICATION Spec
CONSTANTS
  N = 2
  a = a
  b = b
  c = c
  Deny = Deny
  None = None
  Attrs <- MCAttrs
  TooBig <- MCTooBig
  Budgets <- MCBudgets
  Capas <- MCCapasRefresh
CHECK_DEADLOCK FALSE
SYMMETRY Symm
INVARIANT RefreshAlwaysEnds
