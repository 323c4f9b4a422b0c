SPECIFICATION FairTestSpec
CONSTANTS
    LP_SPEEDTEST_LATENCY_PROBES = 2
    LP_SPEEDTEST_MAX_ATTEMPTS = 2
    PHASE_TICKS = 2
    UPLOAD_CHUNKS = 2
INVARIANTS
    StopsRequesting
PROPERTIES
    
    ImplementsRun
CHECK_DEADLOCK FALSE
