SPECIFICATION FairSpec
CONSTANTS
    e1 = e1
    e2 = e2
    e3 = e3
    h1 = h1
    u1 = u1
    u2 = u2
    s1 = s1
    None = None
    Events = {e1, e2, e3}
    Hooks = {h1}
    Type <- MCType
    Rows <- MCRows
    Patches <- MCPatches
    QueueSize = 2
    Backoffs = 1
    MaxEdits = 1
    MaxFailures = 1
INVARIANT SentAsConfigured
PROPERTIES
    
    PublishReturns
    Delivered
CHECK_DEADLOCK FALSE
