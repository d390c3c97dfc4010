CONSTANTS
    Servers <- MCServers
    Reqs <- MCReqs
    KA = KA
    GS = GS
    NoServer = NoServer
    NoReq = NoReq
    s1 = s1
    s2 = s2
    r1 = r1
    r2 = r2
    PROBE_COUNT_TIMEOUT = 1
    PANIC_COUNT_MAX = 3
    STARTUP_MODE_DURATION = 1
    TIMER_INTERVAL_KEEPALIVE_PACKET = 1
    TIMER_INTERVAL_PROBE_STARTUP = 1
    TIMER_INTERVAL_PROBE_NORMAL = 1
    TIMER_INTERVAL_PROBE_PANIC = 1
    HB_PERIOD = 1
    MaxInFlight = 1
    MaxCrashes = 1
    MaxSpawnFailures = 0
SPECIFICATION TimelySpec
PROPERTY
    ServiceRefinement
