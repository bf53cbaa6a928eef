SPECIFICATION Spec
CONSTANTS
    x1 = x1
    Prefixes <- MCPrefixes
    MaxSessions = 3
    MaxQueue <- MCQueues
    RefreshSubtypes = {"BORR", "EORR"}
PROPERTY
    FlushSparesRefreshed
CHECK_DEADLOCK FALSE
