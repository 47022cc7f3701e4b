SPECIFICATION ReconSpec
CONSTANTS
    r1 = r1
    r2 = r2
    Requests <- TwoRequests
    N = 3
    T = 2
    MaxRuns = 3
    MaxFaults = 0
    Persistent = FALSE
    RequestCap = 1
    MaxChanges = 0
INVARIANT DispensedOnce
INVARIANT MInv
INVARIANT HonestDelta
CHECK_DEADLOCK FALSE
