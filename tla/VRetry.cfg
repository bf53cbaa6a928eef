SPECIFICATION FairSpec
CONSTANTS
    v4 = v4
    v6 = v6
    g1 = g1
    AIDs <- MCAIDs
    AID_INET = v4
    Groups = {g1}
    NoGroup = NoGroup
    Confs <- ConfsPlain
    Opens <- OpensFew
    IsClone = FALSE
    Allocs = {TRUE}
    Accepts = {"ok", "refused"}
    Commands = {}
    INTERVAL_IDLE_HOLD_INITIAL = 1
    MAX_IDLE_HOLD = 2
    INTERVAL_HOLD_INITIAL = 4
PROPERTY RetriesConnect
