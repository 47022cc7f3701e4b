SPECIFICATION Spec
CONSTANTS
    s1 = s1
    s2 = s2
    Scenarios <- TwoScenarios
    N = 2
    Merchants = 1
    Kinds <- AllKinds
    Patient = TRUE
    Reliable = TRUE
    MaxPolls = 1
    MaxDials = 2
INVARIANT HandSettingsSurvive
CHECK_DEADLOCK FALSE
