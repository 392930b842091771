CONSTANTS
    LEN = 2
    W = 8
    MaxCnt = 9
    NDEBUG = FALSE
SPECIFICATION Spec
INVARIANTS ScanWithinBounds
