SPECIFICATION Spec
CONSTANTS
    p1 = p1
    p2 = p2
    q1 = q1
    q2 = q2
    m1 = m1
    m2 = m2
    Runs = {p1, p2}
    RequestIds = {q1}
    MeterIds = {m1, m2}
    AmountsKwh = {1, 2}
    Rate = 3
    RequestOf <- SameRequest
    Me = "utility"
    Others = {"city-a"}
    T = 2
    Window = 2
    Attempts = 2
    TTL = 0
    MaxNonces = 1
    MaxCalls = 1
    MaxValidates = 2
    MaxTx = 1
    MaxFaults = 2
INVARIANT RememberedIsPosted
INVARIANT SubmissionsInSequence
PROPERTY ReleaseNeedsQuorum
CHECK_DEADLOCK FALSE
