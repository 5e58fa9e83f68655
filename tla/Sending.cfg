SPECIFICATION Spec
CONSTANTS
    q1 = q1
    q2 = q2
    q3 = q3
    q4 = q4
    k1 = k1
    k2 = k2
    Requests = {q1, q2, q3, q4}
    Keys = {k1, k2}
    KeyOf <- TwoPresses
    MaxBatches = 3
    MaxCrashes = 1
    i1 = i1
    i2 = i2
    i3 = i3
    r1 = r1
    r2 = r2
    Items = {i1, i2, i3}
    Runs = {r1, r2}
    RunOf <- TwoRuns
    Contacts <- MCContacts
    SmsBlocked = FALSE
    MaxAttempts = 2
    MaxRequests = 2
    Senders = {s1, s2}
    MaxLinks = 2
    MaxVersion = 2
    MaxKey = 1
    MaxUpsets = 2
    SMS_MAX_SEPTETS = 6
    Names <- MCNames
    Brand <- MCBrand
    Tails <- MCTails
SYMMETRY Symmetry
CHECK_DEADLOCK FALSE
INVARIANTS
    TypeOK
    OneBatchPerNonce
    ClaimsAreResolved
    FinalFailureIsHeard
    LinkInHandOpens
    RetiredNeverOpens
PROPERTIES
    PreviewIsWhatIsSent
    
