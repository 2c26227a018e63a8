SPECIFICATION Spec
CONSTANTS
    Clients = {c1}
    UserMethods = {"spawn"}
    MaxProxies = 1
    MaxCalls = 1
    MaxDowns = 0
INVARIANTS
    AllEventsCaught
CHECK_DEADLOCK FALSE
