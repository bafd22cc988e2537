SPECIFICATION Spec
CONSTANTS
    A = A  B = B  tA = tA  tB = tB  u1 = u1  p1 = p1  p2 = p2
    Customers = {A, B}
    Tokens = {tA, tB}
    Uids = {u1}
    Procs = {p1}
    Conns = {c1, c2}
    None = None
    CustOf <- TwoCustomers
    MaxUses <- Unlimited
    UidOf <- SameUid
    BootOf <- TokenA
    Accepts <- AllAccept
    Forgetful = {}
    Suspendable = {}
    MaxAgents = 2
    MaxMinted = 1
    MaxFaults = 0
PROPERTY RevocationSparesEnrolled
\* Once every token is revoked and every connection closed, nothing is left to do.
CHECK_DEADLOCK FALSE
