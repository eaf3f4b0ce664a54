SPECIFICATION Spec
SYMMETRY Interchangeable

CONSTANTS
    CreditKeys = {k1}
    MaxRetained = 1
    Validity = 1
    ClockSkew = 1
    MinVoucherDelta = 1
    Opens = {o1}
    TopUps = {u1}
    Vouchers = {}
    Settlements = {}
    Closes = {}
    Supervisors = {p1, p2}
    VoucherAmounts = {1, 2}
    Charges = {1}
    Deposits = {2}
    ClockDrift = 0
    GracePeriod = 5
    MaxReadAge = 1
    MaxDeposit = 4
    MaxTime = 5
    k1 = k1
    o1 = o1
    p1 = p1
    p2 = p2
    u1 = u1

INVARIANT SupervisedCaptureFixed

\* Calls run once and the clock is bounded, so every behaviour ends.
CHECK_DEADLOCK FALSE
