SPECIFICATION Spec
SYMMETRY Interchangeable
CONSTRAINT SettlingCasts

CONSTANTS
    CreditKeys = {k1}
    MaxRetained = 1
    Validity = 1
    ClockSkew = 1
    MinVoucherDelta = 1
    Opens = {o1, o2}
    TopUps = {}
    Vouchers = {}
    Settlements = {s1}
    Closes = {c1}
    Supervisors = {p1, p2}
    VoucherAmounts = {1, 2}
    Charges = {1}
    Deposits = {2}
    ClockDrift = 0
    GracePeriod = 2
    MaxReadAge = 1
    MaxDeposit = 2
    MaxTime = 4
    c1 = c1
    k1 = k1
    o1 = o1
    o2 = o2
    p1 = p1
    p2 = p2
    s1 = s1

INVARIANT TypeOK
INVARIANT ClosePaysSpent
INVARIANT SupervisedCaptureFixed
PROPERTY NothingTakenBack
PROPERTY CaptureWithinSpent
PROPERTY CreditKeepsSettled
PROPERTY KeepsLedger

\* The payer may stop and the clock is bounded, so behaviours end.
CHECK_DEADLOCK FALSE
