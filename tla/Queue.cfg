CONSTANTS
    w1 = w1
    w2 = w2
    q1 = q1
    q2 = q2
    r1 = r1
    r2 = r2
    Workers = {w1}
    Requests = {q1, q2}
    Runs = {r1, r2}
    MaxReclaims = 2
    BusyBatchesGetOld = TRUE
    MaxBatches = 2
    MaxReschedules = 1
SPECIFICATION QueueSpec
SYMMETRY RequestSymmetry
INVARIANTS
    StartsAreAccounted
