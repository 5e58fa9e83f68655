CONSTANTS
    MaxWorkers = 2
    MaxRuns = 2
    MonthOf <- Months
    Sheets <- MCSheets
    Edits <- MCEdits
    Typed <- MCTyped
    Unproven <- NoEvidence
    Evidences <- MCEvidences
    MaxVersions = 2
    Offers <- MCOffers
    PolicyMonth = 9
    MaxRequests = 6
SPECIFICATION Spec
CHECK_DEADLOCK FALSE
INVARIANTS
    PayeIsMarginal
    EnginesAgree
    CapAmongKnown
