SPECIFICATION FairThreadSpec
CONSTANTS
    own = own
    ip1 = ip1
    ip2 = ip2
    m1 = m1
    Ips = {ip1, ip2}
    Own <- OwnAddresses
    ZeroMac = zero
    Macs = {m1, zero}
    NoMac = nomac
    Subnets <- OneNetwork
    Tables <- ShortTables
    Snapshots <- PromisedSnapshots
    LP_DISCOVERY_MAX_NEIGHBORS = 3
    LP_DISCOVERY_MAX_EVENTS = 1
    LP_DISCOVERY_MISSING_POLLS_BEFORE_LEFT = 2
    LP_ACTIVE_SCAN_MAX_PROBES = 2
    LP_ACTIVE_SCAN_MAX_SUBNETS = 8
INVARIANTS
    SnapshotShown
    SnapshotsAsPromised
PROPERTY
    EveryHostProbed
