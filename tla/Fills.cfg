SPECIFICATION Spec
CONSTANTS
    Kinds = {"process", "stdout", "reader", "writer", "connection", "socket", "watcher", "server"}
    Conns = {"s1"}
    MaxRepeats = 1
    MaxDowns = 1
INVARIANTS
    TypeOK
    Faithful
    DeadStaysDead
    ConnectionsAgree
    GreetedFirst
    EndHeard
    NoCallStranded
PROPERTIES
    WatchedFromAfar
CHECK_DEADLOCK FALSE
