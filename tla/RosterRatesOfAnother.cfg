SPECIFICATION Spec
CONSTANTS
    Parts = {"roster"}
    Reps = {r1, r2}
    Engines = {"sqlite"}
    TypedIds <- MCTypedIds
    FirstRow <- MCFirstRow
    FirstRates = {"overtime"}
    ReliefForms <- MCReliefForms
    SeedFiles <- MCSeedFiles
    BulkFiles <- MCBulkFiles
    PayrollRows <- MCPayrollRows
    MaxRows = 4
    MaxRequests = 3
    Threads = {t1, t2}
    Companies = {A, B}
    Forms <- MCForms
    Uploads <- MCUploads
    MAX_BYTES = 2
    MaxExpenses = 2
    MaxKeys = 3
    AUDIT_PER_PAGE = 2
    MaxSpend = 3
    MaxTime = 5
SYMMETRY Symmetry
CHECK_DEADLOCK FALSE
INVARIANT OverridesThatWorkerOnly
