SPECIFICATION Spec
CONSTANTS
    None = None
    t1 = t1
    t2 = t2
    r1 = r1
    r2 = r2
    Tenants = {t1, t2}
    Requests = {r1, r2}
    Limits = {0, 1, 2}
    Batches = {2}
    BurstSeconds = 2
    IdleTimeout = 3
    GCInterval = 1
    Windows <- SomeWindows
    MaxWait = 1
    Horizon = 4
SYMMETRY RequestSymmetry
INVARIANTS TypeOK SustainedRate
PROPERTY ImplementsTokenBucket
