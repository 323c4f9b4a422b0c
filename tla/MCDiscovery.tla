----------------------------- MODULE MCDiscovery -----------------------------
(***************************************************************************)
(* Discovery, with its listener, on a network where every device keeps one *)
(* address and one MAC of its own.  The third device has no MAC, as some   *)
(* IPv6 neighbours.  Snapshots list the devices in any order.              *)
(***************************************************************************)
EXTENDS DiscoveryListener

CONSTANTS ip1, ip2, ip3, m1, m2

d1 == [ip |-> ip1, mac |-> m1]
d2 == [ip |-> ip2, mac |-> m2]
d3 == [ip |-> ip3, mac |-> NoMac]

StableSnapshots == UNION {SetToSeqs(devices) : devices \in SUBSET {d1, d2, d3}}

ASSUME MCDiscoveryAssumption == StableNetwork
=============================================================================
