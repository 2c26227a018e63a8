SPECIFICATION Spec
CONSTANTS
    Listeners = {l1, l2, l3}
    Once = {l1}
    Ids = {"x", "y"}
    MaxArrays = 4
INVARIANTS
    TypeOK
    ArraysAgree
    CalledOnce
    Addressed
    AllReceive
CHECK_DEADLOCK FALSE
