CONSTANTS
    s1 = s1
    s2 = s2
    r1 = r1
    NoHost = NoHost
    NoReq = NoReq
    Hosts <- MCHosts
    Reliable <- MCReliable
    Reqs <- MCReqs
    RTT_THRESHOLD_FACTOR <- MCThresholdFactor
    NUMBER_SERVERS = 2
    Samples = {1000}
    RTT_UNREACHABLE = 134217727
    STARTUP_MODE_DURATION = 1
    PANIC_COUNT_MAX = 1
    PROBE_SUBSET = 1
    FAIL_SKIP = 0
    BEST_COUNT_CAP = 1
    MaxPanics = 1
    MaxListUpdates = 1
    MaxCycles = 3
    Replies <- MCReplies
    NoName = NoName
    Request <- MCRequest
    MIN_SUPPORTED_SERVER = 2
    DNBD3_BLOCK_SIZE = 4096

SPECIFICATION Spec
INVARIANT BestRttMeasured
