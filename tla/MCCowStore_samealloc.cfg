CONSTANTS
    BLOCK = 2
    FRAMES = 2
    L2SIZE = 2
    L1SIZE = 2
    ORIGIN_SIZE = 6
    t1 = t1
    t2 = t2
    Threads = {t1, t2}
    WriteOps <- MCWriteOpsSameBlock
    SizeOps = {}
    ReadOps = {}
    MaxOps = 2
    MaxReads = 2
    InFlight = 2
SPECIFICATION Spec
INVARIANT FileMatchesContent
