---------------------------- MODULE DiscoveryThread ----------------------------
(***************************************************************************)
(* Discovery on top of the platform: the discovery thread of the tray      *)
(* takes a snapshot, sweeping the networks as ProbeSweep does, and polls   *)
(* the core with it.                                                       *)
(***************************************************************************)
EXTENDS Discovery

CONSTANTS Subnets, Own, Tables, ZeroMac, LP_ACTIVE_SCAN_MAX_PROBES, LP_ACTIVE_SCAN_MAX_SUBNETS

VARIABLES at, out, g_active_probe_offset, probes_sent

Platform == INSTANCE ProbeSweep

\* The interface table and the neighbor table hand over addresses.
ASSUME DiscoveryThreadAssumption ==
    /\ Subnets \in Seq(Seq(Ips \cup Own)) /\ Own \cap Ips = {}
    /\ Tables \subseteq Seq(Platform!Row)
    /\ ZeroMac \in Macs /\ NoMac \notin Macs
    /\ LP_ACTIVE_SCAN_MAX_PROBES \in Nat \ {0}
    /\ LP_ACTIVE_SCAN_MAX_SUBNETS \in Nat

sweep == <<at, out, g_active_probe_offset, probes_sent>>
all == <<vars, sweep>>

ThreadInit == Init /\ Platform!Init

Sweeps == Platform!Sweeps /\ UNCHANGED vars

PollsSnapshot ==
    /\ Platform!Returns
    /\ \E snapshot \in {Platform!Snapshot} : PollWith(snapshot)

\* GetIpNetTable2 fails.
SnapshotFails == at = 0 /\ PollFails /\ UNCHANGED sweep

ThreadNext == Sweeps \/ PollsSnapshot \/ SnapshotFails

ThreadSpec == ThreadInit /\ [][ThreadNext]_all

\* The thread runs on, and GetIpNetTable2 works again and again.
FairThreadSpec == ThreadSpec /\ WF_sweep(Platform!Sweeps \/ Platform!Returns)

SnapshotsAsPromised == Platform!SnapshotsAsPromised
EveryHostProbed == Platform!EveryHostProbed
=============================================================================
