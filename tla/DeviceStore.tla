------------------------------ MODULE DeviceStore ------------------------------
(***************************************************************************)
(* The device store in memory (platform/win32/device_store_win32.c): what  *)
(* is remembered of the networks this machine has been on, each known by   *)
(* the MAC of its gateway, and of the devices seen there.  The operators   *)
(* return the store, or the neighbor, that a call leaves behind.           *)
(*                                                                         *)
(* One text stands for each group of texts that the code treats alike:     *)
(* hostname for hostname and vendor, label for what only a user writes     *)
(* (label, icon, trusted), isp for all of a network's ISP fields.          *)
(***************************************************************************)
EXTENDS FiniteSets

CONSTANTS
    Gateways,        \* MACs of gateways
    Macs,            \* MACs of devices
    Hostnames, Types, Labels, Isps,
    None             \* the empty string, and the unknown device type

Keys == Gateways \cup {None}
Text(S) == S \cup {None}

\* A neighbor as the store sees it; its type counts only if confidence >= 80.
Neighbor == [mac : Text(Macs), hostname : Text(Hostnames), type : Text(Types), label : Text(Labels)]

Device == [hostname : Text(Hostnames), type : Text(Types), label : Text(Labels)]

NewDevice == [hostname |-> None, type |-> None, label |-> None]
NoDevices == [mac \in {} |-> NewDevice]
NewNetwork == [isp |-> None, devices |-> NoDevices]
NoNetworks == [key \in {} |-> NewNetwork]

DeviceTables == UNION {[seen -> Device] : seen \in SUBSET Macs}
Networks == [isp : Text(Isps), devices : DeviceTables]
Stores == UNION {[been_on -> Networks] : been_on \in SUBSET Keys}

find_or_create_network(store, key) == IF key \in DOMAIN store THEN store[key] ELSE NewNetwork
find_or_create_device(network, mac) ==
    IF mac \in DOMAIN network.devices THEN network.devices[mac] ELSE NewDevice

\* A text that is empty does not replace one that is not.
Keep(new, old) == IF new # None THEN new ELSE old

\* Mistake: a poll that finds no hostname hides the remembered one.
apply_record_NoFallback(record, neighbor) ==
    [neighbor EXCEPT !.type = Keep(record.type, @), !.label = Keep(record.label, @)]

\* What the user wrote and the type learned before win over what the poll
\* found; a remembered hostname only stands in for a missing one.
apply_record(record, neighbor) ==
    [neighbor EXCEPT !.hostname = Keep(@, record.hostname),
                     !.type = Keep(record.type, @),
                     !.label = Keep(record.label, @)]

device_store_apply(store, key, neighbor) ==
    IF neighbor.mac # None /\ key \in DOMAIN store /\ neighbor.mac \in DOMAIN store[key].devices
    THEN apply_record(store[key].devices[neighbor.mac], neighbor)
    ELSE neighbor

\* Mistake: the latest type wins over the one learned first.
Observed_TypeReplaced(record, neighbor) ==
    [record EXCEPT !.hostname = neighbor.hostname, !.type = Keep(neighbor.type, @)]

\* The record after an observation: the hostname is taken over even if it is
\* empty, the type is learned once.
Observed(record, neighbor) ==
    [record EXCEPT !.hostname = neighbor.hostname, !.type = Keep(@, neighbor.type)]

\* f with one more, or another, value.
With(f, x, value) == [y \in DOMAIN f \cup {x} |-> IF y = x THEN value ELSE f[y]]

device_store_observe(store, key, isp, neighbor) ==
    IF neighbor.mac = None
    THEN store
    ELSE LET network == find_or_create_network(store, key)
             record == Observed(find_or_create_device(network, neighbor.mac), neighbor)
         IN  With(store, key, [isp |-> Keep(isp, network.isp),
                               devices |-> With(network.devices, neighbor.mac, record)])
=============================================================================
