SPECIFICATION Spec
SYMMETRY Interchangeable

CONSTANTS
    CreditKeys = {k1}
    MaxRetained = 1
    Validity = 1
    ClockSkew = 1
    MinVoucherDelta = 1
    Opens = {o1}
    TopUps = {}
    Vouchers = {}
    Settlements = {s1, s2}
    Closes = {}
    Supervisors = {}
    VoucherAmounts = {1, 2}
    Charges = {1}
    Deposits = {2}
    ClockDrift = 0
    GracePeriod = 2
    MaxReadAge = 1
    MaxDeposit = 2
    MaxTime = 3
    k1 = k1
    o1 = o1
    s1 = s1
    s2 = s2

PROPERTY CaptureWithinSpent

\* Calls run once and the clock is bounded, so every behaviour ends.
CHECK_DEADLOCK FALSE
