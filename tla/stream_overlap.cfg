SPECIFICATION Spec

CONSTANTS
    Streams = {m1}
    Manual = {m1}
    Overlapping = {m1}
    MaxCharges = 2
    Amounts = {1}
    Prepaid = 0
    Lease = 2
    ClockDrift = 0
    MaxSpent = 2
    MaxTime = 1
    m1 = m1

INVARIANT ResolvedIsCharged

\* Streams end, the client leaves and the clock is bounded, so behaviours end.
CHECK_DEADLOCK FALSE
