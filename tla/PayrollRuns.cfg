CONSTANTS
    q1 = q1
    q2 = q2
    op1 = op1
    cl1 = cl1
    cl2 = cl2
    may = may
    Requests = {q1, q2}
    Imports = {op1, cl1}
    PeriodOf <- DraftPeriods
    PlaneOf <- DraftPlanes
    RawPeriods = {may}
    FirstRunsHeld = 1
    MaxRuns = 2
    MaxRequests = 4
SPECIFICATION Spec
SYMMETRY ThreadSymmetry
CHECK_DEADLOCK FALSE
INVARIANTS
    TypeOK
    NoUnsignedPayslip
PROPERTIES
    SentSurvives
