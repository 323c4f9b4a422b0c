------------------------------- MODULE TrayProofs -------------------------------
(***************************************************************************)
(* The safety of the tray's two models: what its threads know of the       *)
(* network (TrayNetwork.tla), for any networks, devices and ISPs and any   *)
(* number of moves, and how they end (TrayShutdown.tla).  Each rests on    *)
(* one inductive invariant, NetworkInv and ShutdownInv.                    *)
(***************************************************************************)
EXTENDS TrayNetwork, TrayShutdown, FiniteSetTheorems, TLAPS

-----------------------------------------------------------------------------
(* What a poll does to the device store.                                   *)

\* The stores that know of the unknown network what the store knew before the
\* poll, if the poll attributes its devices to another one.
Bridged == {known \in Stores :
               GatewayOfPoll # None =>
                  find_or_create_network(known, None) = find_or_create_network(store, None)}

ObserveActive(known, mac) == device_store_observe(known, GatewayOfPoll, isp_info, Found(mac))

Observing == INSTANCE FoldFacts WITH Items <- Macs, Values <- Bridged, Step <- ObserveActive

\* A store is a function of the networks in it, and so is a network of devices.
LEMMA StoreShape ==
    ASSUME NEW known
    PROVE  known \in Stores <=>
              known \in [DOMAIN known -> Networks] /\ DOMAIN known \subseteq Keys
  BY DEF Stores

\* The same of a table of devices.
LEMMA TableShape ==
    ASSUME NEW table
    PROVE  table \in DeviceTables <=>
              table \in [DOMAIN table -> Device] /\ DOMAIN table \subseteq Macs
  BY DEF DeviceTables

\* An observation leaves a well-formed store, and networks other than its own
\* as they were.
LEMMA ObserveFacts ==
    ASSUME NEW known \in Stores, NEW key \in Keys, NEW isp \in Text(Isps), NEW mac \in Macs
    PROVE  /\ device_store_observe(known, key, isp, Found(mac)) \in Stores
           /\ \A other \in Keys \ {key} :
                 find_or_create_network(device_store_observe(known, key, isp, Found(mac)), other)
                   = find_or_create_network(known, other)
<1> DEFINE network == find_or_create_network(known, key)
           record == Observed(find_or_create_device(network, mac), Found(mac))
           table == With(network.devices, mac, record)
           entry == [isp |-> Keep(isp, network.isp), devices |-> table]
<1>1. mac # None /\ Found(mac).mac = mac
  BY TrayNetworkAssumption DEF Found
<1>2. network \in Networks
  <2>1. NewNetwork \in Networks
    <3>1. NoDevices \in DeviceTables
      <4>1. NoDevices \in [{} -> Device] /\ {} \in SUBSET Macs
        BY DEF NoDevices
      <4> QED
        BY <4>1 DEF DeviceTables
    <3> QED
      BY <3>1 DEF NewNetwork, Networks, Text
  <2> QED
    BY <2>1, StoreShape DEF find_or_create_network
<1> HIDE DEF network
<1>3. network.isp \in Text(Isps) /\ network.devices \in DeviceTables
  BY <1>2 DEF Networks
<1>4. record \in Device
  <2>1. find_or_create_device(network, mac) \in Device
    BY <1>3, TableShape DEF find_or_create_device, NewDevice, Device, Text
  <2> QED
    BY <2>1 DEF Observed, Found, Device, Text, Keep
<1> HIDE DEF record
<1>5. table \in DeviceTables
  <2>1. table \in [DOMAIN network.devices \cup {mac} -> Device]
    BY <1>3, <1>4, TableShape DEF With
  <2>2. DOMAIN network.devices \cup {mac} \in SUBSET Macs
    BY <1>3, TableShape
  <2> QED
    BY <2>1, <2>2 DEF DeviceTables
<1> HIDE DEF table
<1>6. entry \in Networks
  BY <1>3, <1>5 DEF Networks, Keep
<1>7. device_store_observe(known, key, isp, Found(mac)) = With(known, key, entry)
  BY <1>1 DEF device_store_observe, table, record, network
<1> HIDE DEF entry
<1>8. With(known, key, entry) \in Stores
  <2>1. With(known, key, entry) \in [DOMAIN known \cup {key} -> Networks]
    BY <1>6, StoreShape DEF With
  <2>2. DOMAIN known \cup {key} \in SUBSET Keys
    BY StoreShape
  <2> QED
    BY <2>1, <2>2 DEF Stores
<1>9. \A other \in Keys \ {key} :
         find_or_create_network(With(known, key, entry), other)
           = find_or_create_network(known, other)
  BY DEF With, find_or_create_network
<1> QED
  BY <1>7, <1>8, <1>9

\* A poll's observations, all of them, leave a well-formed store, and what it
\* knows of the unknown network unless they were made there.
LEMMA PollObserved ==
    ASSUME TypeOK
    PROVE  ObservedAll(store, GatewayOfPoll, isp_info, Active) \in Bridged
<1>1. GatewayOfPoll \in Keys
  BY DEF TypeOK, GatewayOfPoll, Keep
<1>2. Observing!Closed
  <2> SUFFICES ASSUME NEW known \in Bridged, NEW mac \in Macs
               PROVE  ObserveActive(known, mac) \in Bridged
    BY DEF Observing!Closed
  <2>1. None \in Keys
    BY DEF Keys
  <2> QED
    BY <1>1, <2>1, ObserveFacts DEF Bridged, ObserveActive, TypeOK
<1>3. store \in Bridged
  BY DEF Bridged, TypeOK
<1>4. Active \in SUBSET Macs /\ IsFiniteSet(Active)
  BY TrayNetworkAssumption, FS_Subset DEF Active
<1>5. Observing!Fold(store, Active) \in Bridged
  <2>1. Observing!IsFiniteSet(Active)
    BY <1>4 DEF IsFiniteSet, Observing!IsFiniteSet
  <2> QED
    BY <1>2, <1>3, <1>4, <2>1, Observing!FoldSetType
<1>6. ObservedAll(store, GatewayOfPoll, isp_info, Active) = Observing!Fold(store, Active)
  BY DEF ObservedAll, FoldSet, MapThenFoldSet, Observing!Fold, Observing!FoldSet,
         Observing!MapThenFoldSet, ObserveActive
<1> QED
  BY <1>5, <1>6

-----------------------------------------------------------------------------
(* The state of the tray, and what its threads tell each other.            *)

\* A gateway that changed while the ISP thread was at work or asleep is
\* remembered by the event until that thread looks again.
ChangeIsSignalled == outdated => isp_refresh_signaled

\* Events on the shared list are those of the poll that is about to post them,
\* or a message for them is in the queue.
EventsAreAnnounced ==
    discovery_events # NoEvents => posted \/ (at = "post" /\ events # NoEvents)

NetworkInv == TypeOK /\ ChangeIsSignalled /\ EventsAreAnnounced

Deltas == [joined : SUBSET Macs, left : SUBSET Macs]
Requests == [refreshing : {TRUE}, mac : Macs, key : Keys, isp : Text(Isps)]

\* The tray starts from an empty store, with nothing pending.
LEMMA NetworkInit == Init => NetworkInv
<1> SUFFICES ASSUME Init PROVE NetworkInv
  OBVIOUS
<1>1. NoNetworks \in Stores
  <2>1. NoNetworks \in [{} -> Networks] /\ {} \in SUBSET Keys
    BY DEF NoNetworks
  <2> QED
    BY <2>1 DEF Stores
<1>2. missing \in [Macs -> 0 .. GONE]
  BY TrayNetworkAssumption DEF Init
<1>3. TypeOK
  <2>1. moves \in 0 .. MAX_MOVES
    BY TrayNetworkAssumption DEF Init
  <2>2. None \in Keys /\ None \in Text(Isps)
    BY DEF Keys, Text
  <2> QED
    BY <1>1, <1>2, <2>1, <2>2 DEF Init, TypeOK, NoEvents
<1> QED
  BY <1>3 DEF Init, NetworkInv, ChangeIsSignalled, EventsAreAnnounced

\* What a poll finds moves each device's count by one step at most.
LEMMA PollKeepsTypes ==
    ASSUME TypeOK, Polls
    PROVE  TypeOK'
<1>1. PICK present \in SUBSET {mac \in Macs : Home[mac] = router} :
         /\ missing' = [mac \in Macs |-> IF mac \in present THEN 0 ELSE Missed(missing[mac])]
         /\ events' = IF has_baseline
                      THEN [joined |-> present \ Active, left |-> Active \ Active']
                      ELSE NoEvents
  BY DEF Polls
<1>2. \A polls \in 0 .. GONE : Missed(polls) \in 0 .. GONE
  BY TrayNetworkAssumption DEF Missed
<1>3. missing' \in [Macs -> 0 .. GONE]
  BY <1>1, <1>2, TrayNetworkAssumption DEF TypeOK
<1>4. events' \in Deltas
  BY <1>1 DEF Active, NoEvents, Deltas
<1> QED
  BY <1>3, <1>4 DEF Polls, TypeOK, Deltas, world, isp_thread, shared

\* Every step of the threads keeps what the tray knows well formed.
LEMMA NetworkNext == NetworkInv /\ [Next]_vars => NetworkInv'
<1> SUFFICES ASSUME NetworkInv, [Next]_vars PROVE NetworkInv'
  OBVIOUS
<1> USE DEF NetworkInv
<1>0. None \in Keys /\ None \in Text(Isps)
  BY DEF Keys, Text
<1>1. CASE UNCHANGED vars
  BY <1>1 DEF vars, world, discovery, isp_thread, shared, TypeOK, ChangeIsSignalled,
              EventsAreAnnounced
<1>2. CASE Moves
  <2>1. moves' \in 0 .. MAX_MOVES
    BY <1>2, TrayNetworkAssumption DEF Moves, TypeOK
  <2>2. router' \in Keys
    BY <1>2 DEF Moves
  <2> QED
    BY <1>2, <2>1, <2>2 DEF Moves, discovery, isp_thread, shared, TypeOK, ChangeIsSignalled,
                            EventsAreAnnounced
<1>3. CASE Polls
  <2>1. TypeOK'
    BY <1>3, PollKeepsTypes
  <2> QED
    BY <1>3, <2>1 DEF Polls, shared, ChangeIsSignalled, EventsAreAnnounced
<1>4. CASE ReadsNetworks
  <2>1. networks' \in Keys /\ last_gateway_mac' \in Keys
    BY <1>0, <1>4 DEF ReadsNetworks, TypeOK
  <2>2. isp_refresh_signaled' \in BOOLEAN /\ outdated' \in BOOLEAN /\ ChangeIsSignalled'
    BY <1>4 DEF ReadsNetworks, TypeOK, ChangeIsSignalled, AsksForLookup
  <2>3. TypeOK'
    BY <1>4, <2>1, <2>2 DEF ReadsNetworks, TypeOK, world, isp_thread, shared
  <2> QED
    BY <1>4, <2>2, <2>3 DEF ReadsNetworks, EventsAreAnnounced, shared
<1>5. CASE Publishes
  <2>1. store' \in Stores
    BY <1>5, PollObserved DEF Publishes, Bridged
  <2>2. TypeOK'
    BY <1>5, <2>1 DEF Publishes, TypeOK, Active, world, isp_thread
  <2> QED
    BY <1>5, <2>2 DEF Publishes, ChangeIsSignalled, EventsAreAnnounced
<1>6. CASE Posts
  <2>1. PICK visible \in BOOLEAN : posted' = (posted \/ PostsIf(visible))
    BY <1>6 DEF Posts
  <2>2. TypeOK'
    BY <1>0, <1>6, <2>1 DEF Posts, TypeOK, NoEvents, PostsIf, world, isp_thread, shared
  <2>3. EventsAreAnnounced'
    BY <1>6, <2>1 DEF Posts, EventsAreAnnounced, PostsIf, shared
  <2> QED
    BY <1>6, <2>2, <2>3 DEF Posts, ChangeIsSignalled
<1>7. CASE LookupAnswers
  <2>1. answer' \in Text(Isps)
    BY <1>7, TrayNetworkAssumption DEF LookupAnswers, TypeOK, Keys, Text
  <2> QED
    BY <1>7, <2>1 DEF LookupAnswers, TypeOK, ChangeIsSignalled, EventsAreAnnounced, world,
                      discovery, shared
<1>8. CASE LookupAnswersInPart
  BY <1>0, <1>8 DEF LookupAnswersInPart, TypeOK, ChangeIsSignalled, EventsAreAnnounced, world,
              discovery, shared
<1>9. CASE LookupFails
  BY <1>9 DEF LookupFails, TypeOK, ChangeIsSignalled, EventsAreAnnounced, world, discovery,
              shared
<1>10. CASE IspPublishes
  BY <1>0, <1>10 DEF IspPublishes, TypeOK, ChangeIsSignalled, EventsAreAnnounced, world,
               discovery
<1>11. CASE IspWakes
  BY <1>11 DEF IspWakes, TypeOK, ChangeIsSignalled, EventsAreAnnounced, world, discovery,
               shared
<1>12. ASSUME NEW mac \in Macs, RefreshBegins(mac) PROVE NetworkInv'
  <2>1. request' \in Requests
    BY <1>12 DEF RefreshBegins, TypeOK, Requests
  <2> QED
    BY <1>12, <2>1 DEF RefreshBegins, TypeOK, Requests, ChangeIsSignalled, EventsAreAnnounced,
                       world, discovery, isp_thread, shared
<1>13. CASE RefreshFails
  BY <1>13 DEF RefreshFails, TypeOK, ChangeIsSignalled, EventsAreAnnounced, world, discovery,
               isp_thread, shared
<1>14. CASE RefreshPublishes
  <2>1. request \in Requests
    BY <1>14 DEF RefreshPublishes, TypeOK, Requests
  <2>2. store' \in Stores
    <3>1. /\ request.mac \in Macs /\ request.key \in Keys /\ request.isp \in Text(Isps)
          /\ store \in Stores
      BY <2>1 DEF Requests, TypeOK
    <3>2. store' = device_store_observe(store, request.key, request.isp, Found(request.mac))
      BY <1>14 DEF RefreshPublishes
    <3> QED
      BY <3>1, <3>2, ObserveFacts
  <2> QED
    BY <1>14, <2>2 DEF RefreshPublishes, TypeOK, ChangeIsSignalled, EventsAreAnnounced, world,
                       discovery, isp_thread
<1>15. CASE show_discovery_notifications
  BY <1>15 DEF show_discovery_notifications, TypeOK, NoEvents, ChangeIsSignalled,
               EventsAreAnnounced, world, discovery, isp_thread
<1> QED
  BY <1>1, <1>2, <1>3, <1>4, <1>5, <1>6, <1>7, <1>8, <1>9, <1>10, <1>11, <1>12, <1>13, <1>14,
     <1>15 DEF Next, DiscoveryThread, IspThread, RefreshThread

\* It is well formed in every state.
LEMMA NetworkInvariant == Spec => []NetworkInv
  BY NetworkInit, NetworkNext, PTL DEF Spec

\* For any networks, devices and ISPs, what the tray knows stays well formed:
\* of the device store in particular, however many devices a poll folds into it.
THEOREM NetworkTypeCorrect == Spec => []TypeOK
<1>1. NetworkInv => TypeOK
  BY DEF NetworkInv
<1> QED
  BY <1>1, NetworkInvariant, PTL

\* isp_thread_proc's wait: a change of gateway that comes while a lookup is under
\* way is not slept over, whatever the other threads do.
THEOREM RefreshIsNotLost == Spec => []NoRefreshLost
<1>1. NetworkInv => NoRefreshLost
  BY DEF NetworkInv, ChangeIsSignalled, NoRefreshLost
<1> QED
  BY <1>1, NetworkInvariant, PTL

\* WM_LP_DISCOVERY_RESULT: joined and left devices that were published are drained
\* by a message in the queue, or by the one the poll is about to post.
THEOREM ToastIsNotForgotten == Spec => []NoToastForgotten
<1>1. NetworkInv => NoToastForgotten
  BY DEF NetworkInv, EventsAreAnnounced, NoToastForgotten
<1> QED
  BY <1>1, NetworkInvariant, PTL

\* discovery_thread_proc's last_gateway_mac: once a gateway has been seen no poll
\* changes what the store knows of the unknown network, however many devices it
\* found and whatever networks they are from.
THEOREM GapsBridged == Spec => GapsAreBridged
<1>1. NetworkInv /\ [Next]_vars
        => [Publishes /\ last_gateway_mac # None
               => find_or_create_network(store', None) = find_or_create_network(store, None)]_vars
  <2> SUFFICES ASSUME TypeOK, Publishes, last_gateway_mac # None
               PROVE  find_or_create_network(store', None) = find_or_create_network(store, None)
    BY DEF NetworkInv
  <2>1. GatewayOfPoll # None
    BY DEF GatewayOfPoll, Keep
  <2> QED
    BY <2>1, PollObserved DEF Publishes, Bridged
<1> QED
  BY <1>1, NetworkInvariant, PTL DEF Spec, GapsAreBridged

-----------------------------------------------------------------------------
(* The exit of the tray.                                                   *)

\* Where WM_DESTROY has got to.
Before == {"running", "destroy", "sampler"}
Waiting == {"ask", "wait"}
After == {"close_stop", "close_refresh", "close_store", "delete_lock", "released", "ended"}

PcLabels == {"off", "work", "apply", "lookup", "enter", "critical", "wait", "exited"}

\* The handler's own variables.
HandlerOK ==
    /\ ui \in Before \cup Waiting \cup After
    /\ ui \in Waiting => turn \in 1 .. 5
    /\ ui \notin Waiting => turn = 0
    /\ can_close_update_stop_event \in BOOLEAN
    /\ can_delete_lock \in BOOLEAN

\* A worker that was waited for has ended, or the wait timed out.
Settled(w) == Gone(w) \/ w \in late

\* Who has been waited for so far: the sampler without a timeout, the others up
\* to the one whose turn it is.
WaitedFor ==
    /\ ui \notin Before => Gone("sampler")
    /\ ui \in Waiting => \A i \in 1 .. 5 : i < turn => Settled(WaitOrder[i])
    /\ ui \in After => \A w \in Workers : Settled(w)

\* What the two flags remember of the timeouts, and what they permit.
FlagsRemember ==
    /\ can_delete_lock => late \cap KeepsLock = {}
    /\ can_delete_lock \/ late # {}
    /\ can_close_update_stop_event \/ late # {}

\* What has been released so far.
ReleasedInOrder ==
    /\ ~lock_live => ui \in {"released", "ended"} /\ can_delete_lock
    /\ ui \in {"released", "ended"} => lock_live = ~can_delete_lock
    /\ device_store = "closed" => ui \in {"delete_lock", "released", "ended"}
    /\ ui \in {"delete_lock", "released", "ended"} => device_store # "open"
    /\ ui \in After \ {"close_stop", "close_refresh"} => isp_refresh_event # "open"
    /\ ui \in After \ {"close_stop"}
          => update_stop_event # "open" \/ ~can_close_update_stop_event

\* A download does not touch what the lock protects.
DownloadStaysOut == pc["download"] # "enter"

ShutdownInv ==
    /\ ShutdownTypeOK /\ DownloadStaysOut /\ HandlerOK
    /\ WaitedFor /\ FlagsRemember /\ ReleasedInOrder

-----------------------------------------------------------------------------
\* The threads WinMain waits for, in the order it does.
LEMMA OrderFacts ==
    /\ Len(WaitOrder) = 5
    /\ WaitOrder[1] = "discovery" /\ WaitOrder[2] = "update" /\ WaitOrder[3] = "isp"
    /\ WaitOrder[4] = "download" /\ WaitOrder[5] = "refresh"
  BY DEF WaitOrder

\* Everybody but the sampler has a turn.
LEMMA EverybodyHasATurn ==
    /\ \A i \in 1 .. 5 : WaitOrder[i] \in Workers \ {"sampler"}
    /\ \A w \in Workers \ {"sampler"} : \E i \in 1 .. 5 : WaitOrder[i] = w
<1>1. \A i \in 1 .. 5 : i = 1 \/ i = 2 \/ i = 3 \/ i = 4 \/ i = 5
  OBVIOUS
<1>2. 1 \in 1 .. 5 /\ 2 \in 1 .. 5 /\ 3 \in 1 .. 5 /\ 4 \in 1 .. 5 /\ 5 \in 1 .. 5
  OBVIOUS
<1> QED
  BY <1>1, <1>2, OrderFacts DEF Workers, Looping, OnDemand

\* However many threads could be created, the exit starts in order.
LEMMA ShutdownInitInv == ShutdownInit => ShutdownInv
<1> SUFFICES ASSUME ShutdownInit PROVE ShutdownInv
  OBVIOUS
<1>1. PICK created \in SUBSET ({"sampler"} \cup Looping) :
         /\ pc = [w \in Workers |-> IF w \in created THEN "work" ELSE "off"]
         /\ ui = IF "sampler" \in created THEN "running" ELSE "destroy"
  BY DEF ShutdownInit
<1>2. ShutdownTypeOK
  <2>1. pc \in [Workers -> {"off", "work"}]
    BY <1>1
  <2>2. turn \in 0 .. Len(WaitOrder)
    BY OrderFacts DEF ShutdownInit
  <2> QED
    BY <2>1, <2>2 DEF ShutdownInit, ShutdownTypeOK
<1>3. HandlerOK /\ WaitedFor /\ DownloadStaysOut
  BY <1>1 DEF DownloadStaysOut, Workers, OnDemand, ShutdownInit, HandlerOK, WaitedFor, Before,
              Waiting, After
<1>4. FlagsRemember /\ ReleasedInOrder
  BY <1>1 DEF ShutdownInit, FlagsRemember, ReleasedInOrder, After
<1> QED
  BY <1>2, <1>3, <1>4 DEF ShutdownInv

-----------------------------------------------------------------------------
(* The workers.                                                            *)

\* A step of one worker, as the handler sees it: nothing the handler owns
\* changes, and a worker that is gone stays gone once WM_DESTROY has begun.
LEMMA WorkerStepIsHarmless ==
    ASSUME ShutdownInv, ShutdownTypeOK', DownloadStaysOut', NEW w \in Workers,
           NEW label \in PcLabels,
           pc' = [pc EXCEPT ![w] = label],
           Gone(w) => ui = "running",
           UNCHANGED <<handler, lock_live, update_stop_event, isp_refresh_event, device_store,
                       flags>>
    PROVE  ShutdownInv'
<1>0. HandlerOK /\ FlagsRemember /\ ReleasedInOrder
  BY DEF ShutdownInv
<1>1. HandlerOK' /\ FlagsRemember' /\ ReleasedInOrder'
  BY DEF ShutdownInv, HandlerOK, FlagsRemember, ReleasedInOrder, handler, flags
<1>2. ui # "running" => \A v \in Workers : Settled(v) => Settled(v)'
  BY DEF ShutdownInv, ShutdownTypeOK, Settled, Gone, flags
<1>3. "sampler" \in Workers /\ (ui # "running" => (Gone("sampler") => Gone("sampler")'))
  BY DEF ShutdownInv, ShutdownTypeOK, Gone, Workers
<1>4. WaitedFor'
  BY <1>2, <1>3, EverybodyHasATurn DEF ShutdownInv, WaitedFor, Before, Waiting, After, handler
<1> QED
  BY <1>1, <1>4 DEF ShutdownInv

\* A worker may do one step of its work.
LEMMA WorkPreserves ==
    ASSUME ShutdownInv, NEW w \in Workers, Work(w)
    PROVE  ShutdownInv'
<1> USE DEF Goto
<1>1. CASE WorkReturns(w)
  <2>1. PICK label \in Returned(w) : pc' = [pc EXCEPT ![w] = label]
    BY <1>1 DEF WorkReturns
  <2>2. label \in PcLabels \ {"critical"}
    BY <2>1 DEF Returned, PcLabels, Workers, Looping, OnDemand
  <2>3. ShutdownTypeOK' /\ DownloadStaysOut'
    BY <1>1, <2>1, <2>2 DEF ShutdownInv, ShutdownTypeOK, DownloadStaysOut, Returned, WorkReturns,
                            handler, resources, flags, PcLabels, LockUsers,
                            Free
  <2> QED
    BY <1>1, <2>1, <2>2, <2>3, WorkerStepIsHarmless
    DEF WorkReturns, Gone, handler, resources, flags
<1>2. CASE WaitReturns(w)
  <2>1. PICK label \in {"exited", "work"} : pc' = [pc EXCEPT ![w] = label]
    BY <1>2 DEF WaitReturns
  <2>2. ShutdownTypeOK' /\ DownloadStaysOut'
    BY <1>2, <2>1 DEF ShutdownInv, ShutdownTypeOK, DownloadStaysOut, WaitReturns, handler,
                      resources, flags, LockUsers, Free
  <2> QED
    BY <1>2, <2>1, <2>2, WorkerStepIsHarmless
    DEF WaitReturns, Gone, handler, resources, flags, PcLabels
<1>3. CASE EntersLock(w)
  <2>1. w \in LockUsers
    BY <1>3 DEF ShutdownInv, DownloadStaysOut, EntersLock, LockUsers
  <2>2. \A v \in Workers : pc[v] # "critical"
    BY <1>3 DEF ShutdownInv, ShutdownTypeOK, EntersLock, Free, Workers, Looping, OnDemand
  <2>3. ShutdownTypeOK' /\ DownloadStaysOut'
    BY <1>3, <2>1, <2>2 DEF ShutdownInv, ShutdownTypeOK, DownloadStaysOut, EntersLock, handler,
                            flags
  <2> QED
    BY <1>3, <2>3, WorkerStepIsHarmless DEF EntersLock, Gone, handler, flags, PcLabels
<1>4. CASE LeavesLock(w)
  <2>1. PICK label \in {"exited", "wait"} : pc' = [pc EXCEPT ![w] = label]
    BY <1>4 DEF LeavesLock
  <2>2. ShutdownTypeOK' /\ DownloadStaysOut'
    BY <1>4, <2>1 DEF ShutdownInv, ShutdownTypeOK, DownloadStaysOut, LeavesLock, handler, flags,
                      LockUsers, Free
  <2> QED
    BY <1>4, <2>1, <2>2, WorkerStepIsHarmless DEF LeavesLock, Gone, handler, flags, PcLabels
<1> QED
  BY <1>1, <1>2, <1>3, <1>4 DEF Work

\* The poll applies its events, the lookup runs, a thread is started on demand.
LEMMA OtherStepsPreserve ==
    ASSUME ShutdownInv, AppliesUnlocked \/ LooksUp \/ \E w \in OnDemand : StartsOnDemand(w)
    PROVE  ShutdownInv'
<1> USE DEF Goto
<1>1. CASE AppliesUnlocked
  <2>1. ShutdownTypeOK' /\ DownloadStaysOut'
    BY <1>1 DEF ShutdownInv, ShutdownTypeOK, DownloadStaysOut, AppliesUnlocked, handler,
                resources, flags,
                Workers, Looping, OnDemand
  <2> QED
    BY <1>1, <2>1, WorkerStepIsHarmless
    DEF AppliesUnlocked, Gone, handler, resources, flags, PcLabels, Workers, Looping
<1>2. CASE LooksUp
  <2>1. PICK label \in {"work", "exited"} : pc' = [pc EXCEPT !["refresh"] = label]
    BY <1>2 DEF LooksUp
  <2>2. ShutdownTypeOK' /\ DownloadStaysOut'
    BY <1>2, <2>1 DEF ShutdownInv, ShutdownTypeOK, DownloadStaysOut, LooksUp, handler, resources,
                      flags,
                      Workers, Looping, OnDemand
  <2> QED
    BY <1>2, <2>1, <2>2, WorkerStepIsHarmless
    DEF LooksUp, Gone, handler, resources, flags, PcLabels, Workers, OnDemand
<1>3. ASSUME NEW w \in OnDemand, StartsOnDemand(w)
      PROVE  ShutdownInv'
  <2>1. PICK label \in {"lookup", "work"} : pc' = [pc EXCEPT ![w] = label]
    BY <1>3 DEF StartsOnDemand
  <2>2. ShutdownTypeOK' /\ DownloadStaysOut'
    BY <1>3, <2>1 DEF ShutdownInv, ShutdownTypeOK, DownloadStaysOut, StartsOnDemand, handler,
                      resources, flags,
                      OnDemand, Workers
  <2> QED
    BY <1>3, <2>1, <2>2, WorkerStepIsHarmless
    DEF StartsOnDemand, handler, resources, flags, PcLabels, Workers, OnDemand
<1> QED
  BY <1>1, <1>2, <1>3

-----------------------------------------------------------------------------
(* WM_DESTROY.                                                             *)

\* Settling the worker whose turn it is, and going on to the next one.
LEMMA PassingOn ==
    ASSUME ShutdownInv, ui \in Waiting \/ (ui = "sampler" /\ Gone("sampler")),
           ui \in Waiting => Gone(Awaited) \/ Awaited \in late', PassesOn,
           pc' = pc, late \subseteq late'
    PROVE  /\ WaitedFor'
           /\ ui' \in Waiting \cup After
           /\ ui' \in Waiting => turn' \in 1 .. 5
           /\ ui' \notin Waiting => turn' = 0
           /\ ui' \in {"ask", "close_stop"}
<1>1. turn \in 0 .. 5 /\ (ui = "sampler" => turn = 0)
  BY DEF ShutdownInv, HandlerOK, Waiting
<1>2. /\ turn < 5 => ui' = "ask" /\ turn' = turn + 1
      /\ turn = 5 => ui' = "close_stop" /\ turn' = 0
  BY <1>1, OrderFacts DEF PassesOn
<1>3. Gone("sampler")'
  BY DEF ShutdownInv, WaitedFor, Gone, Before, Waiting
<1>4. \A w \in Workers : Settled(w) => Settled(w)'
  BY DEF Settled, Gone
<1>5. \A i \in 1 .. 5 : i <= turn => Settled(WaitOrder[i])'
  <2> SUFFICES ASSUME NEW i \in 1 .. 5, i <= turn PROVE Settled(WaitOrder[i])'
    OBVIOUS
  <2>1. ui \in Waiting
    BY <1>1
  <2>2. CASE i = turn
    BY <2>1, <2>2 DEF Awaited, Settled, Gone
  <2>3. CASE i < turn
    BY <2>1, <2>3, <1>4, EverybodyHasATurn DEF ShutdownInv, WaitedFor
  <2> QED
    BY <1>1, <2>2, <2>3
<1>6. CASE turn < 5
  <2>1. ui' = "ask" /\ turn' = turn + 1 /\ turn' \in 1 .. 5
    BY <1>1, <1>2, <1>6
  <2>2. \A i \in 1 .. 5 : i < turn' => Settled(WaitOrder[i])'
    BY <1>1, <1>5, <2>1
  <2> QED
    BY <1>3, <2>1, <2>2 DEF WaitedFor, Before, Waiting, After
<1>7. CASE turn = 5
  <2>1. ui' = "close_stop" /\ turn' = 0
    BY <1>2, <1>7
  <2>2. \A w \in Workers : Settled(w)'
    BY <1>3, <1>5, <1>7, EverybodyHasATurn DEF Settled
  <2> QED
    BY <1>3, <2>1, <2>2 DEF WaitedFor, Before, Waiting, After
<1> QED
  BY <1>1, <1>6, <1>7

\* The handler's first steps, and those that wait.
LEMMA WaitsPreserve ==
    ASSUME ShutdownInv, RequestsStop \/ JoinsSampler \/ AsksToStop \/ WaitSucceeds \/ WaitTimesOut
    PROVE  ShutdownInv'
<1>0. /\ ShutdownTypeOK /\ DownloadStaysOut /\ HandlerOK
      /\ WaitedFor /\ FlagsRemember /\ ReleasedInOrder
  BY DEF ShutdownInv
<1>1. CASE RequestsStop
  BY <1>0, <1>1
  DEF RequestsStop, ShutdownInv, ShutdownTypeOK, DownloadStaysOut, HandlerOK, WaitedFor,
      FlagsRemember,
      ReleasedInOrder, Settled, Gone, flags, Before, Waiting, After
<1>2. ASSUME ui \in Waiting \/ (ui = "sampler" /\ Gone("sampler")),
             ui \in Waiting => Gone(Awaited) \/ Awaited \in late', PassesOn,
             UNCHANGED <<pc, lock, lock_live, update_stop_event, isp_refresh_event, device_store,
                         stop_requested>>,
             late \subseteq late', ShutdownTypeOK', FlagsRemember',
             can_close_update_stop_event' \in BOOLEAN, can_delete_lock' \in BOOLEAN
      PROVE  ShutdownInv'
  <2>1. /\ WaitedFor'
        /\ ui' \in {"ask", "close_stop"}
        /\ ui' \in Waiting => turn' \in 1 .. 5
        /\ ui' \notin Waiting => turn' = 0
    BY <1>2, PassingOn
  <2>2. HandlerOK'
    BY <1>2, <2>1 DEF HandlerOK, Before, Waiting, After
  <2>3. ReleasedInOrder'
    BY <1>0, <1>2, <2>1 DEF ReleasedInOrder, Waiting, After
  <2> QED
    BY <1>0, <1>2, <2>1, <2>2, <2>3 DEF ShutdownInv, DownloadStaysOut
<1>3. ASSUME PassesOn, ui \in {"sampler", "ask", "wait"} PROVE turn' \in 0 .. 5 /\ ui' # "ended"
  <2>1. turn \in 0 .. 5
    BY <1>0, <1>3 DEF HandlerOK, Waiting
  <2> QED
    BY <1>3, <2>1, OrderFacts DEF PassesOn
<1>4. CASE JoinsSampler
  <2>1. ShutdownTypeOK' /\ FlagsRemember'
    BY <1>0, <1>3, <1>4, OrderFacts DEF ShutdownTypeOK, FlagsRemember, JoinsSampler, resources,
                                        flags
  <2> QED
    BY <1>0, <1>2, <1>4, <2>1 DEF JoinsSampler, Gone, HandlerOK, resources, flags, Waiting
<1>5. CASE AsksToStop
  <2>1. CASE pc[Awaited] = "off"
    <3>1. ShutdownTypeOK' /\ FlagsRemember'
      BY <1>0, <1>3, <1>5, <2>1, OrderFacts DEF ShutdownTypeOK, FlagsRemember, AsksToStop, flags
    <3> QED
      BY <1>0, <1>2, <1>5, <2>1, <3>1 DEF AsksToStop, Gone, HandlerOK, flags, Waiting
  <2>2. CASE pc[Awaited] # "off"
    <3>1. ui = "ask" /\ ui' = "wait" /\ turn' = turn
      BY <1>5, <2>2 DEF AsksToStop
    <3>2. ShutdownTypeOK'
      BY <1>0, <1>5, <2>2, <3>1 DEF ShutdownTypeOK, AsksToStop, flags
    <3>3. HandlerOK' /\ WaitedFor' /\ FlagsRemember' /\ ReleasedInOrder' /\ DownloadStaysOut'
      BY <1>0, <1>5, <3>1
      DEF AsksToStop, DownloadStaysOut, HandlerOK, WaitedFor, FlagsRemember, ReleasedInOrder,
          Settled, Gone, flags, Before, Waiting, After
    <3> QED
      BY <3>2, <3>3 DEF ShutdownInv
  <2> QED
    BY <2>1, <2>2
<1>6. CASE WaitSucceeds
  <2>1. ShutdownTypeOK' /\ FlagsRemember'
    BY <1>0, <1>3, <1>6, OrderFacts DEF ShutdownTypeOK, FlagsRemember, WaitSucceeds, resources,
                                        flags
  <2> QED
    BY <1>0, <1>2, <1>6, <2>1 DEF WaitSucceeds, Gone, HandlerOK, resources, flags, Waiting
<1>7. CASE WaitTimesOut
  <2>1. turn \in 1 .. 5 /\ Awaited \in Workers
    BY <1>0, <1>7, EverybodyHasATurn DEF HandlerOK, WaitTimesOut, Waiting, Awaited
  <2>2. ShutdownTypeOK'
    BY <1>0, <1>3, <1>7, <2>1, OrderFacts DEF ShutdownTypeOK, WaitTimesOut, resources
  <2>3. late' = late \cup {Awaited} /\ can_delete_lock' \in BOOLEAN
        /\ can_close_update_stop_event' \in BOOLEAN
    BY <1>7 DEF WaitTimesOut
  <2>4. can_delete_lock' => can_delete_lock /\ Awaited \notin KeepsLock
    BY <1>7 DEF WaitTimesOut
  <2>5. FlagsRemember'
    BY <1>0, <2>3, <2>4 DEF FlagsRemember
  <2> QED
    BY <1>0, <1>2, <1>7, <2>2, <2>3, <2>5 DEF WaitTimesOut, resources, Waiting
<1> QED
  BY <1>1, <1>4, <1>5, <1>6, <1>7

\* Releasing what the workers shared, one thing after the other.
LEMMA ReleasesPreserve ==
    ASSUME ShutdownInv,
           ClosesStopEvent \/ ClosesRefreshEvent \/ ClosesStore \/ DeletesLock \/ ProcessEnds
    PROVE  ShutdownInv'
<1>0. /\ ShutdownTypeOK /\ DownloadStaysOut /\ HandlerOK
      /\ WaitedFor /\ FlagsRemember /\ ReleasedInOrder
  BY DEF ShutdownInv
<1>1. ui \in After /\ ui' \in After \ {"close_stop"} /\ turn' = turn
  BY DEF ClosesStopEvent, ClosesRefreshEvent, ClosesStore, DeletesLock, ProcessEnds, After
<1>2. /\ flags' = flags /\ late' = late
      /\ can_delete_lock' = can_delete_lock
      /\ can_close_update_stop_event' = can_close_update_stop_event
  BY DEF ClosesStopEvent, ClosesRefreshEvent, ClosesStore, DeletesLock, ProcessEnds, flags
<1>3. HandlerOK' /\ FlagsRemember'
  BY <1>0, <1>1, <1>2 DEF HandlerOK, FlagsRemember, Waiting, After
<1>4. pc' = pc \/ pc' = [w \in Workers |-> IF pc[w] = "off" THEN "off" ELSE "exited"]
  BY DEF ClosesStopEvent, ClosesRefreshEvent, ClosesStore, DeletesLock, ProcessEnds
<1>5. \A w \in Workers : Settled(w)'
  BY <1>0, <1>1, <1>2, <1>4 DEF WaitedFor, Settled, Gone
<1>6. Gone("sampler")'
  BY <1>0, <1>1, <1>4 DEF WaitedFor, Gone, Before, After, Workers
<1>7. WaitedFor'
  BY <1>1, <1>5, <1>6 DEF WaitedFor, Before, Waiting, After
<1>8. ShutdownTypeOK' /\ DownloadStaysOut' /\ ReleasedInOrder'
  <2>1. CASE ClosesStopEvent
    BY <1>0, <1>2, <2>1
    DEF ClosesStopEvent, ShutdownTypeOK, DownloadStaysOut, ReleasedInOrder, HandlerOK, After
  <2>2. CASE ClosesRefreshEvent
    BY <1>0, <1>2, <2>2
    DEF ClosesRefreshEvent, ShutdownTypeOK, DownloadStaysOut, ReleasedInOrder, HandlerOK, After
  <2>3. CASE ClosesStore
    BY <1>0, <1>2, <2>3
    DEF ClosesStore, ShutdownTypeOK, DownloadStaysOut, ReleasedInOrder, HandlerOK, After
  <2>4. CASE DeletesLock
    BY <1>0, <1>2, <2>4
    DEF DeletesLock, ShutdownTypeOK, DownloadStaysOut, ReleasedInOrder, HandlerOK, After
  <2>5. CASE ProcessEnds
    BY <1>0, <1>2, <2>5
    DEF ProcessEnds, ShutdownTypeOK, DownloadStaysOut, ReleasedInOrder, HandlerOK, After,
        resources,
        Workers, OnDemand
  <2> QED
    BY <2>1, <2>2, <2>3, <2>4, <2>5
<1> QED
  BY <1>3, <1>7, <1>8 DEF ShutdownInv

\* Exit only begins the destruction of the window.
LEMMA ExitPreserves ==
    ASSUME ShutdownInv, Exit
    PROVE  ShutdownInv'
  BY DEF ShutdownInv, ShutdownTypeOK, DownloadStaysOut, HandlerOK, WaitedFor, FlagsRemember,
         ReleasedInOrder,
         Settled, Gone, Exit, resources, flags, Before, Waiting, After

\* Every step keeps the invariant.
LEMMA ShutdownNextInv == ShutdownInv /\ [ShutdownNext]_shutdown_vars => ShutdownInv'
<1>1. ASSUME ShutdownInv, UNCHANGED shutdown_vars PROVE ShutdownInv'
  BY <1>1
  DEF ShutdownInv, ShutdownTypeOK, DownloadStaysOut, HandlerOK, WaitedFor, FlagsRemember,
      ReleasedInOrder,
      Settled, Gone, shutdown_vars, handler, resources, flags, Awaited
<1>2. ASSUME ShutdownInv, Destroy PROVE ShutdownInv'
  BY <1>2, WaitsPreserve, ReleasesPreserve DEF Destroy
<1> QED
  BY <1>1, <1>2, WorkPreserves, OtherStepsPreserve, ExitPreserves DEF ShutdownNext

\* It holds of every state of the exit.
LEMMA ShutdownInvHolds == ShutdownSpec => []ShutdownInv
  BY ShutdownInitInv, ShutdownNextInv, PTL DEF ShutdownSpec

-----------------------------------------------------------------------------
\* Control states, handles and the lock fit together at every moment.
THEOREM ShutdownTypeCorrect == ShutdownSpec => []ShutdownTypeOK
<1>1. ShutdownInv => ShutdownTypeOK
  BY DEF ShutdownInv
<1> QED
  BY <1>1, ShutdownInvHolds, PTL

\* The lock is deleted only when nobody is left to enter it (tray_win32.c:1046-1133).
THEOREM LockIsSafe == ShutdownSpec => []LockOutlivesItsUsers
<1>1. ASSUME ShutdownInv, ~lock_live, NEW w \in LockUsers PROVE Gone(w)
  <2>1. ui \in After /\ late \cap KeepsLock = {} /\ w \in Workers
    BY <1>1 DEF ShutdownInv, ReleasedInOrder, FlagsRemember, After, LockUsers
  <2>2. CASE w = "sampler"
    BY <1>1, <2>1, <2>2 DEF ShutdownInv, WaitedFor, Before, After
  <2>3. CASE w # "sampler"
    BY <1>1, <2>1, <2>3
    DEF ShutdownInv, WaitedFor, Settled, KeepsLock, LockUsers, Workers, Looping, OnDemand
  <2> QED
    BY <2>2, <2>3
<1>2. ShutdownInv => LockOutlivesItsUsers
  BY <1>1 DEF LockOutlivesItsUsers
<1> QED
  BY <1>2, ShutdownInvHolds, PTL

\* An exit in which every thread ended in time leaves nothing behind.
THEOREM NothingLeftBehind == ShutdownSpec => []CleanShutdownReleasesAll
<1>1. ASSUME ShutdownInv, ui = "released", late = {}
      PROVE  /\ update_stop_event # "open" /\ isp_refresh_event # "open"
             /\ device_store # "open" /\ ~lock_live
             /\ \A w \in Workers : Gone(w)
  BY <1>1 DEF ShutdownInv, WaitedFor, Settled, FlagsRemember, ReleasedInOrder, After
<1>2. ShutdownInv => CleanShutdownReleasesAll
  BY <1>1 DEF CleanShutdownReleasesAll
<1> QED
  BY <1>2, ShutdownInvHolds, PTL

\* Only a thread that is late can meet a store that is gone (tray_win32.c:1127).
THEOREM StoreIsSafeInTime == ShutdownSpec => []StoreOutlivesUsers
<1>1. ShutdownInv => StoreOutlivesUsers
  BY DEF ShutdownInv, ReleasedInOrder, WaitedFor, Settled, After, StoreOutlivesUsers, StoreUsers,
         Workers,
         Looping, OnDemand
<1> QED
  BY <1>1, ShutdownInvHolds, PTL
=============================================================================
