SPECIFICATION ReconSpec
CONSTANTS
    r1 = r1
    r2 = r2
    Requests <- TwoRequests
    N = 3
    T = 2
    MaxRuns = 2
    MaxFaults = 2
    Persistent = FALSE
    RequestCap = 2
    MaxChanges = 0
INVARIANT GoodsXorRefund
INVARIANT ZeroDeltaMeansBalanced
INVARIANT PanelCurrent
PROPERTY StuckIsAlerted
CHECK_DEADLOCK FALSE
