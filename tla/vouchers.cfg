SPECIFICATION Spec
SYMMETRY Interchangeable
CONSTRAINT VoucherCasts

CONSTANTS
    CreditKeys = {}
    MaxRetained = 1
    Validity = 1
    ClockSkew = 1
    MinVoucherDelta = 1
    Opens = {o1, o2}
    TopUps = {u1}
    Vouchers = {r1, r2}
    Settlements = {}
    Closes = {}
    Supervisors = {}
    VoucherAmounts = {1, 2}
    Charges = {1}
    Deposits = {1, 2}
    ClockDrift = 0
    GracePeriod = 1
    MaxReadAge = 1
    MaxDeposit = 2
    MaxTime = 2
    o1 = o1
    o2 = o2
    r1 = r1
    r2 = r2
    u1 = u1

INVARIANT VouchersAreFunded
INVARIANT OneRequestPerVoucher
PROPERTY KeepsLedger

\* The payer may stop and the clock is bounded, so behaviours end.
CHECK_DEADLOCK FALSE
