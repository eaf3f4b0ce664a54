SPECIFICATION MCSpec
CONSTANTS
    Requests = {r1, r2, r3}
    Payments = {p1, p2, u1, q1}
    Presents <- MCPresents
    Proofs = {q1}
    Sponsored = {p1, p2}
    Optimistic = {p2, u1}
    Expiry <- MCExpiry
    ValidBefore <- MCValidBefore
    Fee <- MCFee
    MaxReservations = 2
    MaxTotalFee = 1
    PreparedLease = 1
    Prompt = TRUE
    MaxCrashes = 1
    MaxTime = 2
    r1 = r1
    r2 = r2
    r3 = r3
    p1 = p1
    p2 = p2
    u1 = u1
    q1 = q1
INVARIANT TypeOK
INVARIANT PaidOnce
INVARIANT FailureFreesCredential
INVARIANT ExposureWithinBudget
PROPERTY EveryRequestEnds
CHECK_DEADLOCK FALSE
