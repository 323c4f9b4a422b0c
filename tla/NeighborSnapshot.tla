--------------------------- MODULE NeighborSnapshot ---------------------------
(***************************************************************************)
(* lp_net_neighbor_snapshot (platform/win32/discovery_win32.c): how one    *)
(* list of neighbors is built from the rows of the operating system's      *)
(* neighbor table and the answers to active ARP probes.  Names, vendors    *)
(* and device types are left out: what counts here is which addresses make *)
(* it into the list, and with which identity (IP and MAC).                 *)
(***************************************************************************)
EXTENDS Naturals, Sequences, SequencesExt

CONSTANTS
    Ips, Macs,                   \* addresses
    NoMac,                       \* the empty MAC string
    LP_DISCOVERY_MAX_NEIGHBORS

Row == [ip : Ips, mac : Macs \cup {NoMac}, live : BOOLEAN]
Reply == [ip : Ips, mac : Macs]
Neighbor == [ip : Ips, mac : Macs \cup {NoMac}]

HasIp(list, ip) == \E k \in 1 .. Len(list) : list[k].ip = ip
HasMac(list, mac) == \E k \in 1 .. Len(list) : list[k].mac = mac

\* A row of the passive table: live unicast rows, one per address, until full.
AddRow(list, row) ==
    IF Len(list) < LP_DISCOVERY_MAX_NEIGHBORS /\ row.live /\ ~HasIp(list, row.ip)
    THEN Append(list, [ip |-> row.ip, mac |-> row.mac])
    ELSE list

\* append_active_neighbor: an answered probe for a device not in the list yet.
append_active_neighbor(list, reply) ==
    IF HasMac(list, reply.mac) \/ HasIp(list, reply.ip)
          \/ Len(list) >= LP_DISCOVERY_MAX_NEIGHBORS
    THEN list
    ELSE Append(list, [ip |-> reply.ip, mac |-> reply.mac])

\* Mistake: the entry itself is not counted, so that it takes three to share.
clear_ambiguous_macs_Three(list) ==
    [k \in DOMAIN list |->
        IF \E j, other \in DOMAIN list \ {k} :
              j # other /\ list[j].mac = list[k].mac /\ list[other].mac = list[k].mac
        THEN [list[k] EXCEPT !.mac = NoMac]
        ELSE list[k]]

\* A MAC that several addresses share identifies none of them.
clear_ambiguous_macs(list) ==
    [k \in DOMAIN list |->
        IF \E other \in DOMAIN list \ {k} : list[other].mac = list[k].mac
        THEN [list[k] EXCEPT !.mac = NoMac]
        ELSE list[k]]

-----------------------------------------------------------------------------
\* What lp_discovery_poll relies on: no two entries share an address or a
\* non-empty MAC, whatever the table and the probe answers were.
IdentitiesDistinct(list) ==
    \A j, k \in DOMAIN list : j # k =>
        /\ list[j].ip # list[k].ip
        /\ list[j].mac = list[k].mac => list[j].mac = NoMac

WellFormed(list) ==
    /\ list \in Seq(Neighbor)
    /\ Len(list) <= LP_DISCOVERY_MAX_NEIGHBORS
    /\ IdentitiesDistinct(list)
=============================================================================
