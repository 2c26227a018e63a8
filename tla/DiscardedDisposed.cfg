SPECIFICATION Spec
CONSTANTS
    Clients = {c1}
    UserMethods = {"spawn"}
    MaxProxies = 1
    MaxCalls = 1
    MaxDowns = 1
INVARIANTS
    DiscardedDisposed
CHECK_DEADLOCK FALSE
