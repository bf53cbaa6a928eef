------------------------------ MODULE MCAdjOut ------------------------------
EXTENDS AdjOut, TLC
CONSTANTS a, b, c

MCAttrs == {a, b, c}
MCTooBig == {c}
B(change, session, refresh, reload, xoff) ==
  [change |-> change, session |-> session, refresh |-> refresh,
   reload |-> reload, xoff |-> xoff]
MCBudgets == {B(2, 2, 1, 0, 0), B(2, 2, 0, 0, 1), B(1, 2, 0, 1, 0),
              B(2, 1, 0, 1, 0), B(1, 1, 2, 0, 0), B(1, 1, 1, 1, 0)}

\* Without graceful restart, with it, and with enhanced route refresh too
MCCapas == {[gr |-> FALSE, err |-> FALSE], [gr |-> TRUE, err |-> TRUE]}
Symm == Permutations({a, b})
MCCapasRefresh == {[gr |-> FALSE, err |-> TRUE]}
=============================================================================
