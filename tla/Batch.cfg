SPECIFICATION Spec
CONSTANTS
    Items = {i1, i2, i3, i4}
    MaxCount = 4
    IdleTime = 2
    MaxTime = 3
INVARIANTS
    TypeOK
    HeldOnce
    TimersCoverQueue
    BoundedWait
PROPERTIES
    Implements
    AllSettle
CHECK_DEADLOCK FALSE
