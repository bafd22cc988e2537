SPECIFICATION Spec
CONSTANTS
    c1 = c1
    c2 = c2
    p = p
    edge = edge
    gateway = gateway
    None = None
    Customers = {c1, c2}
    Pipelines = {p}
    Agents = {edge, gateway}
    Owner <- MCOwner
    TokenRoles = {"operator"}
    Accounts <- MCAccounts
    Updates <- MCUpdates
    MaxOverlap = 1
INVARIANTS
    TypeOK
    ActsWithinRights
    AnswersListed
PROPERTIES
    LiveAgentKept
