SPECIFICATION Spec
SYMMETRY Interchangeable

CONSTANTS
    Challenges = {c1}
    Activations = {a1}
    Renewals = {r1, r2}
    Existing = {s0}
    RequireCredential = FALSE
    LostAnswers = FALSE
    PeriodLength = 1
    ActivationTimeout = 1
    RenewalTimeout = 9
    MaxTime = 1
    c1 = c1
    a1 = a1
    r1 = r1
    r2 = r2
    s0 = s0

INVARIANT PeriodChargedOnce

\* Every call runs once and the clock is bounded, so behaviours end.
CHECK_DEADLOCK FALSE
