SPECIFICATION FairSpec
CONSTANTS
    Clients = {c1}
    UserMethods = {"spawn"}
    MaxProxies = 1
    MaxCalls = 1
    MaxDowns = 1
PROPERTIES
    DoneRemoved
    DisconnectReaps
    NoZombies
CHECK_DEADLOCK FALSE
