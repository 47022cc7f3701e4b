SPECIFICATION FairSpec
CONSTANTS
    r1 = r1
    r2 = r2
    Requests = {r1, r2}
    RequestCap = 1
    AlertCap = 1
    RateWindow = 1
    RateMax = 1
    MaxTime = 1
    MaxAlerts = 1
    ToastsPerSync = 3
    MaxPolls = 2
    MaxDrops = 1
INVARIANT TypeOK
INVARIANT RateBound
INVARIANT LiveViewCurrent
INVARIANT WarningsNoticed
PROPERTY CatchesUp
CHECK_DEADLOCK FALSE
