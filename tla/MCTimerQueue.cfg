SPECIFICATION FairSpec
CONSTANTS
    Timers = {Hold, Keepalive, ConnectRetry}
    Offsets = {0, 1, 2}
    MaxTime = 4
INVARIANTS
    ListRight
PROPERTIES
    ImplementsTimerMap DueIsServed
