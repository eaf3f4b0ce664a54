SPECIFICATION ServerSpec

CONSTANTS
    Streams = {m1}
    Manual = {m1}
    Overlapping = {}
    MaxCharges = 2
    Amounts = {1, 2}
    Prepaid = 1
    Lease = 1
    ClockDrift = 0
    MaxSpent = 2
    MaxTime = 1
    m1 = m1

    StoreCalls = {c1, c2, c3}
    Request <- MCRequest
    Values = {v1, v2}
    None = None
    Expiries = {1}
    MaxAttempts = 2
    MaxStoreTime = 1
    c1 = c1
    c2 = c2
    c3 = c3
    v1 = v1
    v2 = v2

    Workers = {w1, w2}
    Threshold = 1
    LeaseTime = 2
    MaxLatency = 1
    MaxCharged = 2
    MaxFaults = 1
    w1 = w1
    w2 = w2

INVARIANT ServerTypeOK
INVARIANT ResolvedIsCharged
INVARIANT ChargedAtMostOnce
INVARIANT NothingReservedWhenOver
PROPERTY WaitingIsServed

INVARIANT ConflictIsProgress
PROPERTY StoreIsAtomic

INVARIANT LeaseHeldWhileSettling
PROPERTY DueIsCollected

\* Streams and requests end and clocks are bounded, so behaviours end.
CHECK_DEADLOCK FALSE
