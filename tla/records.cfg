SPECIFICATION RecordSpec
CONSTRAINT ThreeCalls

CONSTANTS
    Challenges = {c1, c2}
    Activations = {a1, a2}
    Renewals = {r1, r2}
    Existing = {s0}
    RequireCredential = TRUE
    LostAnswers = TRUE
    PeriodLength = 1
    ActivationTimeout = 1
    RenewalTimeout = 1
    MaxTime = 2
    c1 = c1
    c2 = c2
    a1 = a1
    a2 = a2
    r1 = r1
    r2 = r2
    s0 = s0

    Deliveries = {d1, d2}
    PrepaidUnits = 1
    Attempts = {k1, k2}
    ChargeKey = charge
    MaxPrepaidRefunds = 2
    Retention = 1
    MaxRefundTime = 1
    d1 = d1
    d2 = d2
    k1 = k1
    k2 = k2

    Presented = {q1, q2, q3}
    MaxDeliveries = 2
    Ttl = 1
    MaxProxyTime = 2
    q1 = q1
    q2 = q2
    q3 = q3

    Managers = {m1, m2}
    TopUps = {t1, t2, t3, t4}
    Manager <- OwnManager
    Challenged = {t3}
    NoTopUp = NoTopUp
    m1 = m1
    m2 = m2
    t1 = t1
    t2 = t2
    t3 = t3
    t4 = t4

INVARIANT RecordTypeOK
INVARIANT ActivatedOncePerChallenge
INVARIANT CommittedOwns
INVARIANT LiveIsCurrent
INVARIANT RenewalExclusive

INVARIANT RefundedOnce
INVARIANT OwedIsKept
INVARIANT TransfersWithinCapture
INVARIANT KeyedChargeOnce

INVARIANT RunsInOrder
PROPERTY CompleteIsKept

PROPERTY NoSecondDeposit

\* Every call runs once and clocks are bounded, so behaviours end.
CHECK_DEADLOCK FALSE
