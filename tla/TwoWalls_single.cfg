SPECIFICATION FairSpec
CONSTANTS
    r1 = r1
    r2 = r2
    Requests <- OneRequest
    N = 3
    T = 2
    MaxRuns = 1
    MaxFaults = 1
    Persistent = TRUE
    RequestCap = 1
    MaxChanges = 1
INVARIANT TypeOK
INVARIANT PartialNeedsQuorum
INVARIANT TokenNeedsThreshold
INVARIANT LedgerBacksDelivery
INVARIANT RefundIsReal
INVARIANT RejectedHasNoToken
INVARIANT Reconciled
PROPERTY AttestationsFinal
PROPERTY ImplementsVending
PROPERTY EveryRunEnds
CHECK_DEADLOCK FALSE
