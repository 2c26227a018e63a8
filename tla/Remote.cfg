SPECIFICATION Spec
CONSTANTS
    Clients = {c1}
    UserMethods = {"stat", "open", "write", "pipe", "spawn", "kill"}
    MaxProxies = 1
    MaxCalls = 2
    MaxDowns = 1
INVARIANTS
    TypeOK
    DisconnectSettlesAll
    DisposalCompletes
    DoneHandlerSafe
    FillHearsEnd
    KillSafe
    DoneChain
    Lifecycle
PROPERTIES
    SilentOnceGone
CHECK_DEADLOCK FALSE
