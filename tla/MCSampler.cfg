SPECIFICATION Spec
CONSTANTS
    a = a
    c = c
    Ifaces = {a, c}
    Loopback = {}
    Virtual = {c}
    NoIface = none
    Routes = {a, none}
    Dirs = {rx}
    Configs <- Modes
    NS_PER_SEC = 1
    ZeroSample <- ZeroRates
    LP_SAMPLER_MAX_TRACKED_IFACES = 2
    LP_SAMPLER_HISTORY_CAP = 2
    MAX_BYTES = 1
    MAX_CLOCK = 2
INVARIANTS
    TypeOK
    NoPhantomBytes
    ShortReadIsNewest
PROPERTIES
    RateNeedsTwoSamples
    HistoryIntegrates
    HistoryIsLog
CHECK_DEADLOCK FALSE
