CONSTANTS
    s1 = s1
    s2 = s2
    d1 = d1
    d2 = d2
    Senders = {s1, s2}
    Deliveries = {d1, d2}
    SenderOf <- BothOthers
    MaxAttempts = 2
    MaxPasses = 2
    MaxReports = 1
    MaxCrashes = 0
SPECIFICATION Spec
SYMMETRY SenderSymmetry
CHECK_DEADLOCK FALSE
INVARIANTS
    SentHasGrounds
PROPERTIES
    SweepWithinLimit
