SPECIFICATION Spec
SYMMETRY Interchangeable
CONSTRAINT ClosingCasts

CONSTANTS
    CreditKeys = {}
    MaxRetained = 1
    Validity = 1
    ClockSkew = 2
    MinVoucherDelta = 1
    Opens = {o1}
    TopUps = {}
    Vouchers = {r1}
    Settlements = {}
    Closes = {c1, c2}
    Supervisors = {}
    VoucherAmounts = {1, 2}
    Charges = {1}
    Deposits = {2}
    ClockDrift = 1
    GracePeriod = 9
    MaxReadAge = 1
    MaxDeposit = 2
    MaxTime = 5
    c1 = c1
    c2 = c2
    o1 = o1
    r1 = r1

INVARIANT CloseKeepsMarker
PROPERTY ReopenedOnlyIfNotClosed

\* The payer may stop and the clock is bounded, so behaviours end.
CHECK_DEADLOCK FALSE
