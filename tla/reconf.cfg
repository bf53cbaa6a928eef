SPECIFICATION FairSpec
CONSTANTS
    None = None
    p1 = p1
    p2 = p2
    l1 = l1
    l2 = l2
    r1 = r1
    r2 = r2
    Peers <- MCPeers
    Configs <- MovedRib
    MaxReloads = 1
    MaxFlaps = 3
    FailsLate = FALSE
CHECK_DEADLOCK FALSE
INVARIANTS
    ReloadSafe ConfigAgrees
PROPERTIES
    ReloadEnds
