SPECIFICATION Spec
CONSTANTS
    N = 3
    Quorum = 2
    MaxAttempts = 4
    MaxRuns = 2
INVARIANT TypeOK
INVARIANT FilesAgree
INVARIANT MasterOutlastsSelfTest
INVARIANT LockedOutOnlyInWindow
CHECK_DEADLOCK FALSE
