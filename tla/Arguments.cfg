SPECIFICATION Spec
CONSTANTS
    Kinds = {"null", "undefined", "number", "string", "date", "error", "buffer",
             "function", "proxy", "symbol"}
    Keys <- MCKeys
    Texts <- MCTexts
    Depth <- MCDepth
    Values <- MCValues
    Stores <- MCStores
INVARIANTS
    ArrivesIntact
CHECK_DEADLOCK FALSE
