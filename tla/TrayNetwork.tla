------------------------------ MODULE TrayNetwork ------------------------------
(***************************************************************************)
(* What the tray knows of the network it is on (ui/tray_win32.c): the      *)
(* discovery thread polls the neighbors and the gateway, tells the ISP     *)
(* thread to look again when the gateway changes, and publishes devices,   *)
(* events and device store under the tray's lock; the refresh thread of a  *)
(* selected device publishes too; the UI thread drains the events.         *)
(*                                                                         *)
(* The machine is carried from one network to another at any moment.  The  *)
(* device store is DeviceStore's; of a device only its MAC is looked at    *)
(* here, names and types are StoreFile's matter.  A poll's result is       *)
(* Discovery's: a device stays active until it has been missing from       *)
(* LP_DISCOVERY_MISSING_POLLS_BEFORE_LEFT polls (ActiveUntilMissedThrice). *)
(***************************************************************************)
EXTENDS Naturals, DeviceStore, FiniteSetsExt

CONSTANTS
    Home,            \* the network each device is on, by its gateway
    Provider,        \* the ISP of each network
    LP_DISCOVERY_MISSING_POLLS_BEFORE_LEFT,
    MAX_MOVES        \* bound on changes of network

GONE == LP_DISCOVERY_MISSING_POLLS_BEFORE_LEFT

ASSUME TrayNetworkAssumption ==
    /\ None \notin Gateways \cup Macs \cup Isps
    /\ IsFiniteSet(Macs)
    /\ Home \in [Macs -> Gateways]
    /\ Provider \in [Gateways -> Isps]
    /\ GONE \in Nat \ {0}
    /\ MAX_MOVES \in Nat

VARIABLES
    \* --- the world
    router,             \* gateway of the network the machine is on, None when offline
    moves,
    \* --- the discovery thread
    at,                 \* "poll", "networks", "publish" or "post"
    missing,            \* polls each device has been missing from; GONE: not active
    has_baseline,
    events,             \* joined and left devices of the poll in progress
    networks,           \* gateway MAC of the local networks, None if unresolved
    last_gateway_mac,
    \* --- the ISP thread
    isp_at,             \* "lookup", "answered" or "wait"
    answer,             \* of the lookup in progress
    isp_refresh_signaled,    \* isp_refresh_event is set
    \* --- lp_tray_state_t, under its lock
    isp_info,           \* None until isp_available, or if it names no ISP
    store,
    map_neighbors, map_networks,
    discovery_events,
    \* --- the UI thread's queue and the refresh thread
    posted,             \* WM_LP_DISCOVERY_RESULT is in the queue
    request,            \* what the refresh thread copied, or NoRequest
    \* --- for stating properties
    outdated            \* the gateway has changed since the latest lookup began

world == <<router, moves>>
discovery == <<at, missing, has_baseline, events, networks, last_gateway_mac>>
isp_thread == <<isp_at, answer>>
shared == <<isp_info, store, map_neighbors, map_networks, discovery_events>>
vars == <<world, discovery, isp_thread, isp_refresh_signaled, shared, posted, request, outdated>>

NoRequest == [refreshing |-> FALSE]
NoEvents == [joined |-> {}, left |-> {}]

Found(mac) == [mac |-> mac, hostname |-> None, type |-> None, label |-> None]

Init ==
    /\ router \in Keys
    /\ moves = 0
    /\ at = "poll"
    /\ missing = [mac \in Macs |-> GONE]
    /\ has_baseline = FALSE
    /\ events = NoEvents
    /\ networks = None
    /\ last_gateway_mac = None
    /\ isp_at = "lookup"
    /\ answer = None
    /\ isp_refresh_signaled = FALSE
    /\ isp_info = None
    /\ store = NoNetworks
    /\ map_neighbors = {}
    /\ map_networks = None
    /\ discovery_events = NoEvents
    /\ posted = FALSE
    /\ request = NoRequest
    /\ outdated = FALSE

\* The machine is carried to another network, or loses the one it was on.
Moves ==
    /\ moves < MAX_MOVES
    /\ router' \in Keys \ {router}
    /\ moves' = moves + 1
    /\ UNCHANGED <<discovery, isp_thread, isp_refresh_signaled, shared, posted, request,
                   outdated>>

-----------------------------------------------------------------------------
(* The discovery thread.  A poll that fails changes nothing.               *)

Active == {mac \in Macs : missing[mac] < GONE}

\* Mistake: the polls a device is missing from are counted for ever.
Missed_ForEver(polls) == polls + 1

Missed(polls) == IF polls < GONE THEN polls + 1 ELSE GONE

\* lp_discovery_poll finds some of the devices of the current network.
Polls ==
    /\ at = "poll"
    /\ \E present \in SUBSET {mac \in Macs : Home[mac] = router} :
          /\ missing' = [mac \in Macs |-> IF mac \in present THEN 0 ELSE Missed(missing[mac])]
          /\ events' = IF has_baseline
                       THEN [joined |-> present \ Active, left |-> Active \ Active']
                       ELSE NoEvents
    /\ has_baseline' = TRUE
    /\ at' = "networks"
    /\ UNCHANGED <<world, networks, last_gateway_mac, isp_thread, isp_refresh_signaled, shared,
                   posted, request, outdated>>

\* Mistake: the event wakes a waiting thread and is forgotten otherwise.
AsksForLookup_Pulse(asked) ==
    isp_refresh_signaled' = (isp_refresh_signaled \/ (asked /\ isp_at = "wait"))

AsksForLookup(asked) == isp_refresh_signaled' = (isp_refresh_signaled \/ asked)

\* local_networks_fn: the gateway's MAC, unless it is not resolved just now.
\* A gateway that differs from the last one seen asks for a lookup.
ReadsNetworks ==
    /\ at = "networks"
    /\ networks' \in {router, None}
    /\ LET changed == networks' # None /\ networks' # last_gateway_mac
       IN  /\ last_gateway_mac' = IF changed THEN networks' ELSE last_gateway_mac
           /\ AsksForLookup(changed)
           /\ outdated' = (outdated \/ changed)
    /\ at' = "publish"
    /\ UNCHANGED <<world, missing, has_baseline, events, isp_thread, shared, posted, request>>

\* Mistake: a gap in the resolution of the gateway is not bridged.
GatewayOfPoll_Unbridged == networks

\* The network a poll's devices are attributed to.
GatewayOfPoll == Keep(networks, last_gateway_mac)

ObservedAll(known, key, isp, macs) ==
    FoldSet(LAMBDA mac, remembered : device_store_observe(remembered, key, isp, Found(mac)),
            known, macs)

\* Under the lock: every active device is observed, map and events replaced.
Publishes ==
    /\ at = "publish"
    /\ store' = ObservedAll(store, GatewayOfPoll, isp_info, Active)
    /\ map_neighbors' = Active
    /\ map_networks' = networks
    /\ discovery_events' = events
    /\ at' = "post"
    /\ UNCHANGED <<world, missing, has_baseline, events, networks, last_gateway_mac, isp_thread,
                   isp_refresh_signaled, isp_info, posted, request, outdated>>

\* Mistake: the UI is told only while the map can be seen.
PostsIf_VisibleOnly(visible) == visible

PostsIf(visible) == events # NoEvents \/ visible

\* The poll's own variables end with it.
Posts ==
    /\ at = "post"
    /\ \E visible \in BOOLEAN : posted' = (posted \/ PostsIf(visible))
    /\ events' = NoEvents
    /\ networks' = None
    /\ at' = "poll"
    /\ UNCHANGED <<world, missing, has_baseline, last_gateway_mac, isp_thread,
                   isp_refresh_signaled, shared, request, outdated>>

-----------------------------------------------------------------------------
(* The ISP thread.                                                         *)

\* lp_isp_lookup asks a server on the network the machine is on by then.
LookupAnswers ==
    /\ isp_at = "lookup" /\ router # None
    /\ answer' = Provider[router]
    /\ isp_at' = "answered"
    /\ UNCHANGED <<world, discovery, isp_refresh_signaled, shared, posted, request, outdated>>

\* A field that the answer lacks, here the ISP, is left empty.
LookupAnswersInPart ==
    /\ isp_at = "lookup" /\ router # None
    /\ answer' = None
    /\ isp_at' = "answered"
    /\ UNCHANGED <<world, discovery, isp_refresh_signaled, shared, posted, request, outdated>>

LookupFails ==
    /\ isp_at = "lookup"
    /\ isp_at' = "wait"
    /\ UNCHANGED <<world, discovery, answer, isp_refresh_signaled, shared, posted, request,
                   outdated>>

\* Mistake: the first answer is kept.
IspPublishes_Once ==
    /\ isp_at = "answered"
    /\ isp_info' = Keep(isp_info, answer)
    /\ answer' = None
    /\ isp_at' = "wait"
    /\ UNCHANGED <<world, discovery, isp_refresh_signaled, store, map_neighbors, map_networks,
                   discovery_events, posted, request, outdated>>

IspPublishes ==
    /\ isp_at = "answered"
    /\ isp_info' = answer
    /\ answer' = None
    /\ isp_at' = "wait"
    /\ UNCHANGED <<world, discovery, isp_refresh_signaled, store, map_neighbors, map_networks,
                   discovery_events, posted, request, outdated>>

\* The event, which is reset by the wait, or the hour's timeout.
IspWakes ==
    /\ isp_at = "wait"
    /\ isp_refresh_signaled' = FALSE
    /\ outdated' = FALSE
    /\ isp_at' = "lookup"
    /\ UNCHANGED <<world, discovery, answer, shared, posted, request>>

-----------------------------------------------------------------------------
(* The refresh of a selected device, one at a time, and the UI thread.     *)

RefreshBegins(mac) ==
    /\ request = NoRequest
    /\ mac \in map_neighbors
    /\ request' = [refreshing |-> TRUE, mac |-> mac, key |-> map_networks, isp |-> isp_info]
    /\ UNCHANGED <<world, discovery, isp_thread, isp_refresh_signaled, shared, posted, outdated>>

RefreshFails ==
    /\ request # NoRequest
    /\ request' = NoRequest
    /\ UNCHANGED <<world, discovery, isp_thread, isp_refresh_signaled, shared, posted, outdated>>

\* The device is observed on the network of its copy, whose gateway may have
\* been unresolved.
RefreshPublishes ==
    /\ request # NoRequest
    /\ store' = device_store_observe(store, request.key, request.isp, Found(request.mac))
    /\ posted' = TRUE
    /\ request' = NoRequest
    /\ UNCHANGED <<world, discovery, isp_thread, isp_refresh_signaled, isp_info, map_neighbors,
                   map_networks, discovery_events, outdated>>

\* WM_LP_DISCOVERY_RESULT: one toast for each event there is.
show_discovery_notifications ==
    /\ posted
    /\ posted' = FALSE
    /\ discovery_events' = NoEvents
    /\ UNCHANGED <<world, discovery, isp_thread, isp_refresh_signaled, isp_info, store,
                   map_neighbors, map_networks, request, outdated>>

-----------------------------------------------------------------------------
DiscoveryThread == Polls \/ ReadsNetworks \/ Publishes \/ Posts
IspThread == LookupAnswers \/ LookupAnswersInPart \/ LookupFails \/ IspPublishes \/ IspWakes
RefreshThread == RefreshFails \/ RefreshPublishes

Next ==
    \/ Moves
    \/ DiscoveryThread
    \/ IspThread
    \/ \E mac \in Macs : RefreshBegins(mac)
    \/ RefreshThread
    \/ show_discovery_notifications

Spec == Init /\ [][Next]_vars

\* The threads loop for as long as the tray runs; of the lookups made over and
\* over some are answered in full, and of the readings of the networks some find
\* the gateway resolved.
FairSpec ==
    /\ Spec
    /\ WF_vars(DiscoveryThread) /\ WF_vars(IspThread) /\ WF_vars(RefreshThread)
    /\ SF_vars(LookupAnswers)
    /\ SF_vars(ReadsNetworks /\ networks' # None)

-----------------------------------------------------------------------------
TypeOK ==
    /\ router \in Keys /\ moves \in 0 .. MAX_MOVES
    /\ at \in {"poll", "networks", "publish", "post"}
    /\ missing \in [Macs -> 0 .. GONE]
    /\ has_baseline \in BOOLEAN
    /\ events \in [joined : SUBSET Macs, left : SUBSET Macs]
    /\ networks \in Keys /\ last_gateway_mac \in Keys
    /\ isp_at \in {"lookup", "answered", "wait"}
    /\ answer \in Text(Isps) /\ isp_info \in Text(Isps)
    /\ isp_refresh_signaled \in BOOLEAN
    /\ store \in Stores
    /\ map_neighbors \subseteq Macs /\ map_networks \in Keys
    /\ discovery_events \in [joined : SUBSET Macs, left : SUBSET Macs]
    /\ posted \in BOOLEAN /\ outdated \in BOOLEAN
    /\ request \in {NoRequest}
          \cup [refreshing : {TRUE}, mac : Macs, key : Keys, isp : Text(Isps)]

\* The comment above isp_thread_proc, "or immediately when the discovery thread
\* signals isp_refresh_event": whatever the ISP thread is doing when the gateway
\* changes, it does not go to sleep for an hour with an answer from before.
NoRefreshLost == isp_at = "wait" /\ outdated => isp_refresh_signaled

\* Events that were published are waiting for a message that is on its way.
NoToastForgotten == discovery_events # NoEvents => posted \/ at = "post"

\* tray_win32.c:355-361: once a gateway has been seen, "a momentary gap in
\* gateway resolution" does not put a poll's devices into the unknown network.
GapsAreBridged ==
    [][Publishes /\ last_gateway_mac # None
          => find_or_create_network(store', None) = find_or_create_network(store, None)]_vars

\* Once the machine stays where it is, with a device that answers there and
\* lookups that name the ISP, the store comes to hold that network's ISP and
\* keeps it, however many lookups of the networks before were under way.
IspSettles ==
    <>[](router # None /\ map_neighbors # {} /\ isp_info # None)
        => <>[](router # None =>
                    router \in DOMAIN store /\ store[router].isp = Provider[router])

\* tray_win32.c:341-343: "switching networks (home, work, a relative's house)
\* keeps separate device lists and ISP identity".
NetworksKeptApart ==
    \A gateway \in Gateways \cap DOMAIN store :
        /\ \A mac \in DOMAIN store[gateway].devices : Home[mac] = gateway
        /\ store[gateway].isp \in {None, Provider[gateway]}
=============================================================================
