SPECIFICATION FairSpec
CONSTANTS
    s1 = s1
    s2 = s2
    Scenarios <- TwoScenarios
    N = 1
    Merchants = 1
    Kinds <- RevokedOnly
    Patient = FALSE
    Reliable = FALSE
    MaxPolls = 1
    MaxDials = 0
INVARIANT BaselineHeld
INVARIANT RevocationScoped
PROPERTY BaselineKept
PROPERTY EveryScenarioEnds
CHECK_DEADLOCK FALSE
