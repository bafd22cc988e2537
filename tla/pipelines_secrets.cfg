SPECIFICATION Spec
CONSTANTS
    c1 = c1
    c2 = c2
    p1 = p1
    p2 = p2
    n1 = n1
    n2 = n2
    n3 = n3
    x = x
    y = y
    s1 = s1
    s2 = s2
    r1 = r1
    r2 = r2
    Customers = {c1}
    Pids = {p1, p2}
    Names = {n1, n3}
    Nodes = {x, y}
    Secrets = {s1, s2}
    Requests = {r1}
    Owner <- OneOwner
    Slug <- Slugs
    Submitted <- Redactions
    Redacted = Redacted
    None = None
    Gone = Gone
    MaxRequests = 2
    MaxUpdates = 0
    MaxFaults = 0
INVARIANT SecretsStayWithNodes
\* Once the bounds on requests are used up, nothing is left to do.
CHECK_DEADLOCK FALSE
