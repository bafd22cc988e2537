SPECIFICATION Spec
CONSTANTS
    A = A  B = B  tA = tA  tB = tB  u1 = u1  p1 = p1  p2 = p2
    Customers = {A, B}
    Tokens = {tA, tB}
    Uids = {u1}
    Procs = {p1, p2}
    Conns = {c1, c2}
    None = None
    CustOf <- TwoCustomers
    MaxUses <- SingleUse
    UidOf <- SameUid
    BootOf <- OwnTokens
    Accepts <- AllAccept
    Forgetful = {p2}
    Suspendable = {A}
    MaxAgents = 2
    MaxMinted = 1
    MaxFaults = 1
SYMMETRY ConnSymmetry
INVARIANTS TypeOK  TenantIsolation OnlineFlagExactInTurn
\* Once every token is revoked and every connection closed, nothing is left to do.
CHECK_DEADLOCK FALSE
