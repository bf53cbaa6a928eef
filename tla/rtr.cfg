SPECIFICATION Spec
CONSTANTS
    None = None r1 = r1 r2 = r2 roa1 = roa1 as1 = as1 p1 = p1 p2 = p2
    Ids <- MCIds
    Boot <- MCBoot
    Roas <- MCRoas
    Customers <- MCCustomers
    Providers <- MCProviders
    MaxSpas = 1
    Feeds <- MCFeeds
    SessIds = {1}
    Versions = {2}
    MinVersions = {2}
    StaticConfs <- MCStaticConfs
    MaxConnect = 1
    MaxReloads = 1
    NoDataAnytime = FALSE
    RetryOverlaps = FALSE
CHECK_DEADLOCK FALSE
INVARIANTS
    LockRight TableFresh Reconnects
PROPERTIES
    PartialNotPublished
