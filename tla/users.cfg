SPECIFICATION FairSpec
CONSTANTS
    u1 = u1
    u2 = u2
    e1 = e1
    e2 = e2
    e3 = e3
    c1 = c1
    c2 = c2
    lost = lost
    x1 = x1
    None = None
    Ids = {u1, u2, u3, u4, u5}
    Emails = {e1, e2, e3}
    AdminEmails = {e1}
    CustomerIds = {c1, c2, lost}
    Customers = {c1, c2}
    ExternalIds = {x1}
    DefaultRole = "viewer"
    Slots = {s1, s2}
    MaxCalls = 3
    First <- MCFirst
    Invites <- MCInvites
    Updates <- MCUpdates
    Creates <- MCCreates
    Puts <- MCPuts
    Patches <- MCPatches
INVARIANTS
    TypeOK
    EnabledAdminRemains
    DisabledHasNoSession
    
PROPERTIES
    ChangesAsAsked
    
