SPECIFICATION FairSpec
CONSTANTS
    p1 = p1
    p2 = p2
    q1 = q1
    q2 = q2
    m1 = m1
    m2 = m2
    Runs = {p1, p2}
    RequestIds = {q1, q2}
    MeterIds = {m1, m2}
    AmountsKwh = {1, 2}
    Rate = 3
    RequestOf <- TwoRequests
    Me = "utility"
    Others = {"city-a"}
    T = 1
    Window = 1
    Attempts = 1
    TTL = 0
    MaxNonces = 2
    MaxCalls = 2
    MaxValidates = 0
    MaxTx = 1
    MaxFaults = 1
INVARIANT PartialsAreBound
PROPERTY ImplementsNonceUse
PROPERTY NoncesExpire
CHECK_DEADLOCK FALSE
