CONSTANTS
    w1 = w1
    w2 = w2
    q1 = q1
    q2 = q2
    r1 = r1
    r2 = r2
    Workers = {w1, w2}
    Requests = {q1}
    Runs = {r1}
    MaxReclaims = 1
    BusyBatchesGetOld = FALSE
    MaxBatches = 2
    MaxReschedules = 1
SPECIFICATION QueueFairSpec
PROPERTIES
    AllBatchesSettle
