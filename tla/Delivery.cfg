CONSTANTS
    s1 = s1
    s2 = s2
    d1 = d1
    d2 = d2
    Senders = {s1, s2}
    Deliveries = {d1}
    SenderOf <- OneClassified
    MaxAttempts = 2
    MaxPasses = 3
    MaxReports = 2
    MaxCrashes = 1
SPECIFICATION FairSpec
CHECK_DEADLOCK FALSE
INVARIANTS
    TypeOK
    NoBlindResend
    PermitBalance
PROPERTIES
    KeepsPromise
    AutomaticSendingEnds
