SPECIFICATION Spec
CONSTANTS
    None = None
    NoRoute = NoRoute
    Connected = Connected
    n1 = n1  n2 = n2  d1 = d1  d2 = d2  r1 = r1  r2 = r2  i1 = i1  i2 = i2
    g1 = g1
    MedAlways = FALSE
    RouteAge = FALSE
    Peers = {1, 2, 3, 4}
    Dests = {d1, d2}
    Nexthops = {n1, n2}
    Rounds = 1
    Announces <- MCAnnounces
    MaxUpdates <- MCUpdates
    Routes = {r1, r2}
    Covers <- MCCovers
    Length <- MCLength
    IfOf <- MCIfOf
    Gateways = {g1, Connected}
    IfTracked = FALSE
    MaxKernel = 3
    KernelOf <- MCKernel
CHECK_DEADLOCK FALSE
INVARIANTS
    MatchesRight PreferenceOrder NexthopsAgree FibAgrees
