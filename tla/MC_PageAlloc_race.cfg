CONSTANTS
    KThreads = {k1}
    Procs = {p1}
    W = 2
    KLen = 2
    ULen = 2
    UVLen = 2
    PTES = 2
    MaxPages = 2
    NDEBUG = FALSE
    None = None
SPECIFICATION Spec
INVARIANTS FramesExclusive
