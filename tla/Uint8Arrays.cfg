SPECIFICATION Spec
CONSTANTS
    Kinds = {"null", "undefined", "number", "string", "date", "error", "buffer",
             "function", "proxy", "bytes"}
    Keys <- MCKeys
    Texts <- MCTexts
    Depth <- MCDepth
    Values <- MCValues
    Stores <- MCStores
INVARIANTS
    DecodesItsEncodings
CHECK_DEADLOCK FALSE
