SPECIFICATION Spec
CONSTANTS
    r1 = r1
    r2 = r2
    Requests <- OneRequest
    N = 3
    T = 2
    MaxRuns = 1
    MaxFaults = 1
    Persistent = FALSE
    RequestCap = 1
    MaxChanges = 0
INVARIANT RejectedMovedNoFunds
CHECK_DEADLOCK FALSE
