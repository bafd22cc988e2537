SPECIFICATION Spec
CONSTANTS
    c1 = c1
    k1 = k1
    k2 = k2
    r1 = r1
    r2 = r2
    Invalid = Invalid
    None = None
    Customers = {c1}
    Keys = {k1, k2}
    Limits = {1, 2}
    Requests = {r1, r2}
    Owner <- TwoKeys
    Expiry <- OneExpires
    TTL = 3
    ServerTTL = 2
    NegativeTTL = 1
    StaleIfError = 3
    MaxEntries = 1
    Timeout = 1
    Horizon = 5
    MaxChanges = 2
SYMMETRY RequestSymmetry
INVARIANTS TypeOK CacheConsistent AcceptedWithinTTL StaleWithinLimit RejectedWithinNegativeTTL
