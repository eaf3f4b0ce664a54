SPECIFICATION Spec
SYMMETRY Interchangeable
CONSTRAINT OpenChannel

CONSTANTS
    Streams = {m1, m2}
    Manual = {m1, m2}
    Overlapping = {}
    MaxCharges = 1
    Amounts = {1, 2}
    Prepaid = 1
    Lease = 1
    ClockDrift = 1
    MaxSpent = 1
    MaxTime = 2
    m1 = m1
    m2 = m2

PROPERTY SharesVoucher
INVARIANT SpentWithinAccepted

\* Streams end, the client leaves and the clock is bounded, so behaviours end.
CHECK_DEADLOCK FALSE
