SPECIFICATION Spec
CONSTANTS
    Clients = {c1, c2}
    UserMethods = {"open"}
    MaxProxies = 1
    MaxCalls = 1
    MaxDowns = 1
INVARIANTS
    CallAccounting
    OwnedByCaller
    ProxyAgreement
    EventsFindProxy
PROPERTIES
    CallsImplemented
SYMMETRY Symmetry
CHECK_DEADLOCK FALSE
