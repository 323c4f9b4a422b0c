SPECIFICATION FairListenerSpec
CONSTANTS
    ip1 = ip1
    ip2 = ip2
    ip3 = ip3
    m1 = m1
    m2 = m2
    Ips = {ip1, ip2, ip3}
    Macs = {m1, m2}
    NoMac = nomac
    Snapshots <- StableSnapshots
    LP_DISCOVERY_MAX_NEIGHBORS = 4
    LP_DISCOVERY_MAX_EVENTS = 2
    LP_DISCOVERY_MISSING_POLLS_BEFORE_LEFT = 3
INVARIANTS
    TypeOK
    ListenerSeesTheMap
    ActiveUntilMissedThrice
PROPERTIES
    NoRepeatedJoin
    DeparturesAnnounced
