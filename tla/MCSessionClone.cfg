SPECIFICATION Spec
CONSTANTS
    v4 = v4
    v6 = v6
    g1 = g1
    AIDs <- MCAIDs
    AID_INET = v4
    Groups = {g1}
    NoGroup = NoGroup
    Confs <- ConfsReload
    Opens <- OpensMain
    IsClone = TRUE
    Allocs = {TRUE}
    Accepts = {"ok"}
    Commands = {"up", "down", "clear", "update_err", "reload"}
    INTERVAL_IDLE_HOLD_INITIAL = 1
    MAX_IDLE_HOLD = 2
    INTERVAL_HOLD_INITIAL = 4
INVARIANTS
    Consistent
PROPERTIES
    ImplementsPeerSession
