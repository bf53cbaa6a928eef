SPECIFICATION FairSpec
CONSTANTS
    x1 = x1
    Prefixes <- MCPrefixes
    MaxSessions = 3
    MaxQueue <- MCQueues
    RefreshSubtypes = {"BORR", "EORR"}
INVARIANTS
    InAgreement CleanedUpOnce
PROPERTIES
    FlushSparesSession OrphansEnd
CHECK_DEADLOCK FALSE
