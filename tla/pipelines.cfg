SPECIFICATION Spec
CONSTANTS
    c1 = c1
    c2 = c2
    p1 = p1
    p2 = p2
    n1 = n1
    n2 = n2
    n3 = n3
    x = x
    y = y
    s1 = s1
    s2 = s2
    r1 = r1
    r2 = r2
    Customers = {c1, c2}
    Pids = {p1, p2}
    Names = {n1, n2, n3}
    Nodes = {x, y}
    Secrets = {s1, s2}
    Requests = {r1, r2}
    Owner <- OneOwner
    Slug <- Slugs
    Submitted <- WithDuplicate
    Redacted = Redacted
    None = None
    Gone = Gone
    MaxRequests = 5
    MaxUpdates = 1
    MaxFaults = 1
SYMMETRY RequestSymmetry
INVARIANTS TypeOK    SlugsDistinct
 
\* Once the bounds on requests are used up, nothing is left to do.
CHECK_DEADLOCK FALSE
