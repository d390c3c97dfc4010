CONSTANTS
    BLOCK = 2
    FRAMES = 2
    L2SIZE = 2
    L1SIZE = 2
    ORIGIN_SIZE = 6
    t1 = t1
    t2 = t2
    Threads = {t1, t2}
    WriteOps <- MCWriteOpsSplit
    SizeOps <- MCSizeOpsMixed
    ReadOps <- MCReadOpsSplit
    MaxOps = 3
    MaxReads = 1
    InFlight = 2
SPECIFICATION Spec
INVARIANTS
    TypeOK
    WorkCounterAccounts
    ReadWorkAccounts
PROPERTIES
    WritesComplete
    ReadsComplete
