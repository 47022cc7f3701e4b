SPECIFICATION Spec
CONSTANTS
    L = 7
    Total = 3
    Thresholds = {2, 3}
    Coefficients = {1, 3}
    Nonces <- MCNonces
    Hashes = {0, 2}
    Liars = 2
INVARIANT BadShareFound
INVARIANT VerifiedSharesSign
INVARIANT BelowThresholdFails
