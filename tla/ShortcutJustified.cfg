SPECIFICATION Spec
CONSTANTS
    Clients = {c1}
    UserMethods = {"spawn", "kill"}
    MaxProxies = 1
    MaxCalls = 2
    MaxDowns = 0
INVARIANTS
    ShortcutJustified
CHECK_DEADLOCK FALSE
