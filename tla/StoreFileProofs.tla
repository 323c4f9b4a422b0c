---------------------------- MODULE StoreFileProofs ----------------------------
(***************************************************************************)
(* The safety of StoreFile.tla for any sets of gateways, devices and texts *)
(* and any whole file to begin with.                                       *)
(***************************************************************************)
EXTENDS StoreFile, TLAPS

-----------------------------------------------------------------------------
(* The operators of the store.                                             *)

\* A device table is a function from some of the MACs.
LEMMA TableFacts ==
    ASSUME NEW t
    PROVE  t \in DeviceTables <=> DOMAIN t \in SUBSET Macs /\ t \in [DOMAIN t -> Device]
  BY DEF DeviceTables

\* A store is a function from some of the network keys.
LEMMA StoreFacts ==
    ASSUME NEW s
    PROVE  s \in Stores <=> DOMAIN s \in SUBSET Keys /\ s \in [DOMAIN s -> Networks]
  BY DEF Stores

\* What calloc and a first sighting leave are such things, and empty.
LEMMA EmptyOnes ==
    /\ NewDevice \in Device
    /\ NoDevices \in DeviceTables /\ DOMAIN NoDevices = {}
    /\ NewNetwork \in Networks
    /\ NoNetworks \in Stores /\ DOMAIN NoNetworks = {}
<1>1. NewDevice \in Device
  BY DEF NewDevice, Device, Text
<1>2. NoDevices \in DeviceTables /\ DOMAIN NoDevices = {}
  BY TableFacts DEF NoDevices
<1>3. NewNetwork \in Networks
  BY <1>2 DEF NewNetwork, Networks, Text
<1>4. NoNetworks \in Stores /\ DOMAIN NoNetworks = {}
  BY StoreFacts DEF NoNetworks
<1> QED
  BY <1>1, <1>2, <1>3, <1>4

\* A table with one device more, or one device changed, is a table.
LEMMA TableWith ==
    ASSUME NEW t \in DeviceTables, NEW mac \in Macs, NEW device \in Device
    PROVE  With(t, mac, device) \in DeviceTables
  BY TableFacts DEF With

\* The same of a store and its networks.
LEMMA StoreWith ==
    ASSUME NEW s \in Stores, NEW key \in Keys, NEW network \in Networks
    PROVE  With(s, key, network) \in Stores
  BY StoreFacts DEF With

\* Looking a network and a device up gives one, or a new one.
LEMMA LookedUp ==
    ASSUME NEW s \in Stores, NEW key \in Keys, NEW mac
    PROVE  /\ find_or_create_network(s, key) \in Networks
           /\ find_or_create_device(find_or_create_network(s, key), mac) \in Device
<1>1. find_or_create_network(s, key) \in Networks
  BY StoreFacts, EmptyOnes DEF find_or_create_network
<1>2. find_or_create_network(s, key).devices \in DeviceTables
  BY <1>1 DEF Networks
<1> QED
  BY <1>1, <1>2, TableFacts, EmptyOnes DEF find_or_create_device

\* A text copied unless the new one is empty is one of the two.
LEMMA KeepText ==
    ASSUME NEW S, NEW new \in Text(S), NEW old \in Text(S)
    PROVE  Keep(new, old) \in Text(S)
  BY DEF Keep

\* What is found in the store completes a neighbor, and leaves its address.
LEMMA ApplyType ==
    ASSUME NEW s \in Stores, NEW key \in Keys, NEW neighbor \in Neighbor
    PROVE  /\ device_store_apply(s, key, neighbor) \in Neighbor
           /\ device_store_apply(s, key, neighbor).mac = neighbor.mac
<1>1. CASE neighbor.mac # None /\ key \in DOMAIN s /\ neighbor.mac \in DOMAIN s[key].devices
  <2> DEFINE record == s[key].devices[neighbor.mac]
             h == Keep(neighbor.hostname, record.hostname)
             t == Keep(record.type, neighbor.type)
             l == Keep(record.label, neighbor.label)
  <2>1. record \in Device
    BY <1>1, StoreFacts, TableFacts DEF Networks
  <2>2. h \in Text(Hostnames) /\ t \in Text(Types) /\ l \in Text(Labels)
    BY <2>1, KeepText DEF Neighbor, Device
  <2>3. device_store_apply(s, key, neighbor)
          = [neighbor EXCEPT !.hostname = h, !.type = t, !.label = l]
    BY <1>1 DEF device_store_apply, apply_record
  <2> HIDE DEF h, t, l
  <2> QED
    BY <2>2, <2>3 DEF Neighbor
<1>2. CASE ~(neighbor.mac # None /\ key \in DOMAIN s /\ neighbor.mac \in DOMAIN s[key].devices)
  BY <1>2 DEF device_store_apply
<1> QED
  BY <1>1, <1>2

\* The record of a device after an observation.
LEMMA ObservedRecord ==
    ASSUME NEW record \in Device, NEW neighbor \in Neighbor
    PROVE  /\ Observed(record, neighbor) \in Device
           /\ Observed(record, neighbor).hostname = neighbor.hostname
           /\ Observed(record, neighbor).type = Keep(record.type, neighbor.type)
           /\ Observed(record, neighbor).label = record.label
<1> DEFINE t == Keep(record.type, neighbor.type)
<1>1. t \in Text(Types) /\ neighbor.hostname \in Text(Hostnames)
  BY KeepText DEF Device, Neighbor
<1>2. Observed(record, neighbor) = [record EXCEPT !.hostname = neighbor.hostname, !.type = t]
  BY DEF Observed
<1> HIDE DEF t
<1>3. /\ Observed(record, neighbor) \in Device
      /\ Observed(record, neighbor).hostname = neighbor.hostname
      /\ Observed(record, neighbor).type = t
      /\ Observed(record, neighbor).label = record.label
  BY <1>1, <1>2 DEF Device
<1> QED
  BY <1>3 DEF t

\* What an observation does to the store: one device of one network.
LEMMA ObserveType ==
    ASSUME NEW s \in Stores, NEW key \in Keys, NEW isp \in Text(Isps), NEW neighbor \in Neighbor
    PROVE  device_store_observe(s, key, isp, neighbor) \in Stores
<1>1. CASE neighbor.mac = None
  BY <1>1 DEF device_store_observe
<1>2. CASE neighbor.mac # None
  <2> DEFINE network == find_or_create_network(s, key)
             record == Observed(find_or_create_device(network, neighbor.mac), neighbor)
             new == [isp |-> Keep(isp, network.isp),
                     devices |-> With(network.devices, neighbor.mac, record)]
  <2>1. network \in Networks /\ record \in Device /\ neighbor.mac \in Macs
    BY <1>2, LookedUp, ObservedRecord DEF Neighbor, Text
  <2> HIDE DEF network, record
  <2>2. new.devices \in DeviceTables /\ new.isp \in Text(Isps)
    BY <2>1, TableWith, KeepText DEF Networks
  <2>3. new \in Networks
    BY <2>2 DEF Networks
  <2> QED
    BY <1>2, <2>3, StoreWith DEF device_store_observe, network, record
<1> QED
  BY <1>1, <1>2

\* A store holds everything it holds.
LEMMA RemembersItself ==
    ASSUME NEW s
    PROVE  Remembers(s, s)
  BY DEF Remembers

\* What is kept from one store to the next is kept throughout.
LEMMA RemembersOn ==
    ASSUME NEW r, NEW s, NEW t, Remembers(r, s), Remembers(s, t)
    PROVE  Remembers(r, t)
<1> SUFFICES ASSUME NEW key \in DOMAIN r
             PROVE  /\ key \in DOMAIN t
                    /\ \A mac \in DOMAIN r[key].devices :
                          /\ mac \in DOMAIN t[key].devices
                          /\ \A field \in {"type", "label"} :
                                r[key].devices[mac][field] # None
                                  => t[key].devices[mac][field] = r[key].devices[mac][field]
  BY DEF Remembers
<1>1. key \in DOMAIN s /\ key \in DOMAIN t
  BY DEF Remembers
<1>2. ASSUME NEW mac \in DOMAIN r[key].devices
      PROVE  /\ mac \in DOMAIN t[key].devices
             /\ \A field \in {"type", "label"} :
                   r[key].devices[mac][field] # None
                     => t[key].devices[mac][field] = r[key].devices[mac][field]
  <2>1. mac \in DOMAIN s[key].devices /\ mac \in DOMAIN t[key].devices
    BY <1>1 DEF Remembers
  <2>2. ASSUME NEW field \in {"type", "label"}, r[key].devices[mac][field] # None
        PROVE  t[key].devices[mac][field] = r[key].devices[mac][field]
    <3>1. s[key].devices[mac][field] = r[key].devices[mac][field]
      BY <2>2 DEF Remembers
    <3>2. t[key].devices[mac][field] = s[key].devices[mac][field]
      BY <1>1, <2>1, <2>2, <3>1 DEF Remembers
    <3> QED
      BY <3>1, <3>2
  <2> QED
    BY <2>1, <2>2
<1> QED
  BY <1>1, <1>2

\* An observation forgets nothing that was learned, and changes the name of
\* the observed device only.
LEMMA ObserveRemembers ==
    ASSUME NEW s \in Stores, NEW key \in Keys, NEW isp, NEW neighbor \in Neighbor
    PROVE  /\ Remembers(s, device_store_observe(s, key, isp, neighbor))
           /\ key \in DOMAIN s => \A mac \in DOMAIN s[key].devices :
                 device_store_observe(s, key, isp, neighbor)[key].devices[mac].hostname
                   \in {s[key].devices[mac].hostname}
                        \cup (IF mac = neighbor.mac THEN {neighbor.hostname} ELSE {})
<1>1. CASE neighbor.mac = None
  BY <1>1, RemembersItself DEF device_store_observe
<1>2. CASE neighbor.mac # None
  <2>1. PICK network : network = find_or_create_network(s, key)
    OBVIOUS
  <2>2. PICK device : device = find_or_create_device(network, neighbor.mac)
    OBVIOUS
  <2>3. PICK new : new = device_store_observe(s, key, isp, neighbor)
    OBVIOUS
  <2> DEFINE record == Observed(device, neighbor)
  <2>5. /\ DOMAIN new = DOMAIN s \cup {key}
        /\ \A k \in DOMAIN s : k # key => new[k] = s[k]
        /\ DOMAIN new[key].devices = DOMAIN network.devices \cup {neighbor.mac}
        /\ \A mac \in DOMAIN network.devices :
              mac # neighbor.mac => new[key].devices[mac] = network.devices[mac]
        /\ new[key].devices[neighbor.mac] = record
    <3> DEFINE table == With(network.devices, neighbor.mac, record)
               entry == [isp |-> Keep(isp, network.isp), devices |-> table]
    <3>1. new = With(s, key, entry)
      BY <1>2, <2>1, <2>2, <2>3 DEF device_store_observe
    <3>2. entry.devices = table
      OBVIOUS
    <3> HIDE DEF record
    <3>3. /\ DOMAIN table = DOMAIN network.devices \cup {neighbor.mac}
          /\ \A mac \in DOMAIN network.devices :
                mac # neighbor.mac => table[mac] = network.devices[mac]
          /\ table[neighbor.mac] = record
      BY DEF With
    <3> HIDE DEF entry, table
    <3>4. /\ DOMAIN new = DOMAIN s \cup {key}
          /\ new[key] = entry
          /\ \A k \in DOMAIN s : k # key => new[k] = s[k]
      BY <3>1 DEF With
    <3> QED
      BY <3>2, <3>3, <3>4
  <2>6. device \in Device
    BY <2>1, <2>2, LookedUp
  <2>7. /\ device.type # None => record.type = device.type
        /\ record.label = device.label
        /\ record.hostname = neighbor.hostname
    BY <2>6, ObservedRecord DEF Keep
  <2> HIDE DEF record
  <2>8. key \in DOMAIN s => network = s[key]
    BY <2>1 DEF find_or_create_network
  <2>9. neighbor.mac \in DOMAIN network.devices => device = network.devices[neighbor.mac]
    BY <2>2 DEF find_or_create_device
  <2>10. ASSUME NEW k \in DOMAIN s, NEW mac \in DOMAIN s[k].devices
         PROVE  /\ mac \in DOMAIN new[k].devices
                /\ s[k].devices[mac].type # None
                      => new[k].devices[mac].type = s[k].devices[mac].type
                /\ new[k].devices[mac].label = s[k].devices[mac].label
                /\ new[k].devices[mac].hostname
                     \in {s[k].devices[mac].hostname}
                          \cup (IF mac = neighbor.mac THEN {neighbor.hostname} ELSE {})
    <3>1. CASE k # key
      BY <2>5, <2>10, <3>1
    <3>2. CASE k = key /\ mac # neighbor.mac
      BY <2>5, <2>8, <2>10, <3>2
    <3>3. CASE k = key /\ mac = neighbor.mac
      BY <2>5, <2>7, <2>8, <2>9, <2>10, <3>3
    <3> QED
      BY <3>1, <3>2, <3>3
  <2>11. \A k \in DOMAIN s : k \in DOMAIN new
    BY <2>5
  <2>12. Remembers(s, new)
    BY <2>10, <2>11 DEF Remembers
  <2> QED
    BY <2>3, <2>10, <2>12
<1> QED
  BY <1>1, <1>2

-----------------------------------------------------------------------------
(* The images of the file.                                                 *)

\* A store written to a file comes back as it was.
LEMMA ImageType ==
    ASSUME NEW s \in Stores, NEW whole \in BOOLEAN
    PROVE  /\ Image(s, whole) \in Files
           /\ Image(s, whole).whole = whole
           /\ Loaded(Image(s, whole)) = s
<1>1. Image(s, whole) \in File /\ Image(s, whole).whole = whole
  BY EmptyOnes DEF Image, File
<1>2. Image(s, whole) # NoFile
  <2>1. "version" \in DOMAIN Image(s, whole) /\ "version" \notin DOMAIN NoFile
    BY DEF Image, NoFile
  <2> QED
    BY <2>1
<1>3. Image(s, whole).networks = s /\ DOMAIN Image(s, whole).flat = {}
  BY EmptyOnes DEF Image
<1> QED
  BY <1>1, <1>2, <1>3 DEF Loaded, Files

\* An empty file and no file are read as an empty store.
LEMMA BlankType ==
    /\ Blank \in Files /\ Loaded(Blank) = NoNetworks
    /\ NoFile \in Files /\ Loaded(NoFile) = NoNetworks
<1>1. Blank \in File /\ Blank.networks = NoNetworks /\ DOMAIN Blank.flat = {}
  BY EmptyOnes DEF Blank, File
<1> QED
  BY <1>1 DEF Loaded, Files

\* Whatever the file, what is read from it is a store.
LEMMA LoadedType ==
    ASSUME NEW image \in Files
    PROVE  Loaded(image) \in Stores
<1>1. CASE image = NoFile
  BY <1>1, BlankType, EmptyOnes
<1>2. CASE image \in File /\ image # NoFile
  <2>1. image.networks \in Stores /\ image.flat \in DeviceTables
    BY <1>2 DEF File
  <2> DEFINE network == [NewNetwork EXCEPT !.devices = image.flat]
  <2>2. network \in Networks
    BY <2>1 DEF NewNetwork, Networks, Text
  <2>3. With(image.networks, None, network) \in Stores
    BY <2>1, <2>2, StoreWith DEF Keys
  <2> QED
    BY <1>2, <2>1, <2>3 DEF Loaded
<1> QED
  BY <1>1, <1>2 DEF Files

\* The networks that made it to a full disk.
LEMMA KeptNetworks ==
    ASSUME NEW s \in Stores, NEW kept \in SUBSET DOMAIN s
    PROVE  /\ [key \in kept |-> s[key]] \in Stores
           /\ Remembers([key \in kept |-> s[key]], s)
<1>1. [key \in kept |-> s[key]] \in Stores
  BY StoreFacts
<1> QED
  BY <1>1 DEF Remembers

-----------------------------------------------------------------------------
(* The inductive invariant.                                                *)

\* While a run lasts, the store knows what the file knows.
StoreKnowsFile == pc # "closed" => Remembers(Loaded(file), store)

\* What is about to replace the file is the store, whole unless the disk is full.
TempHoldsStore ==
    pc = "move" => /\ Remembers(Loaded(temp), store)
                   /\ ~disk_full => temp = Image(store, TRUE)

BlankWhileWritten == pc = "write" => temp = Blank

IInv == TypeOK /\ StoreKnowsFile /\ TempHoldsStore /\ BlankWhileWritten

\* Nothing of an empty store can be lost.
LEMMA ForgetNothingOfNone ==
    ASSUME NEW s
    PROVE  Remembers(NoNetworks, s)
  BY EmptyOnes DEF Remembers

\* The first start finds the store and the file in agreement.
LEMMA InitIInv == Init => IInv
<1> SUFFICES ASSUME Init
             PROVE  IInv
  OBVIOUS
<1>1. file \in Files
  BY StoreFileAssumption DEF Init
<1>2. TypeOK
  BY <1>1, EmptyOnes, BlankType DEF Init, TypeOK
<1> QED
  BY <1>2 DEF Init, IInv, StoreKnowsFile, TempHoldsStore, BlankWhileWritten

\* One step per action; an observation is only asked to be a larger store.
LEMMA NextIInv == IInv /\ [Next]_vars => IInv'
<1> SUFFICES ASSUME IInv, [Next]_vars
             PROVE  IInv'
  OBVIOUS
<1> USE DEF IInv, TypeOK, StoreKnowsFile, TempHoldsStore, BlankWhileWritten
<1>1. CASE device_store_open
  <2>1. store' \in Stores
    BY <1>1, LoadedType DEF device_store_open
  <2>2. Remembers(Loaded(file'), store')
    BY <1>1, RemembersItself DEF device_store_open
  <2> QED
    BY <1>1, <2>1, <2>2 DEF device_store_open
<1>2. ASSUME NEW key \in Keys, NEW isp \in Text(Isps), NEW neighbor \in Neighbor,
             Observe(key, isp, neighbor)
      PROVE  IInv'
  <2>1. store' \in Stores /\ Remembers(store, store')
    BY <1>2, ObserveType, ObserveRemembers DEF Observe
  <2>2. Remembers(Loaded(file'), store')
    BY <1>2, <2>1, RemembersOn DEF Observe
  <2> QED
    BY <1>2, <2>1, <2>2 DEF Observe
<1>3. CASE Observes
  <2>1. PICK key \in Keys, isp \in Text(Isps), neighbor \in Seen :
          PollObserves(key, isp, neighbor) \/ RefreshObserves(key, isp, neighbor)
    BY <1>3 DEF Observes
  <2>2. neighbor \in Neighbor /\ device_store_apply(store, key, neighbor) \in Neighbor
    BY StoreFileAssumption, ApplyType
  <2> HIDE DEF IInv
  <2> QED
    BY <1>2, <2>1, <2>2 DEF PollObserves, RefreshObserves
<1>4. CASE CreatesTemp
  BY <1>4, BlankType DEF CreatesTemp
<1>5. CASE CreateFails
  BY <1>5 DEF CreateFails
<1>6. CASE WritesTemp
  <2>1. temp' \in Files /\ Loaded(temp') = store
    BY <1>6, ImageType DEF WritesTemp
  <2> QED
    BY <1>6, <2>1, RemembersItself DEF WritesTemp
<1>7. CASE WriteBreaksOff
  <2>1. temp' \in Files /\ Remembers(Loaded(temp'), store)
    <3>1. CASE UNCHANGED temp
      BY <1>7, <3>1, BlankType, ForgetNothingOfNone DEF WriteBreaksOff
    <3>2. CASE \E kept \in SUBSET DOMAIN store : temp' = Image([key \in kept |-> store[key]], FALSE)
      BY <3>2, KeptNetworks, ImageType
    <3> QED
      BY <1>7, <3>1, <3>2 DEF WriteBreaksOff
  <2> QED
    BY <1>7, <2>1 DEF WriteBreaksOff
<1>8. CASE MovesTemp
  BY <1>8, BlankType DEF MovesTemp
<1>9. CASE MoveFails
  BY <1>9, BlankType DEF MoveFails
<1>10. CASE Ends
  BY <1>10, EmptyOnes DEF Ends
<1>11. CASE UNCHANGED vars
  BY <1>11 DEF vars
<1> QED
  BY <1>1, <1>3, <1>4, <1>5, <1>6, <1>7, <1>8, <1>9, <1>10, <1>11 DEF Next, Saves

-----------------------------------------------------------------------------
\* Every variable of the saved store stays in its type, whatever step of a save
\* fails and whenever the process is killed.
THEOREM TypeCorrect == Spec => []TypeOK
<1>1. IInv => TypeOK
  BY DEF IInv
<1> QED
  BY <1>1, InitIInv, NextIInv, PTL DEF Spec

\* devices.xml stays whole in every step, kills and failed saves included; only
\* a disk that ran full during the write can tear it.
THEOREM FileStaysWhole == Spec => FileIsWhole
<1>1. IInv /\ [Next]_vars => [file.whole /\ ~file'.whole => pc = "move" /\ disk_full]_vars
  <2> SUFFICES ASSUME IInv, Next, file' # file
               PROVE  file.whole /\ ~file'.whole => pc = "move" /\ disk_full
    BY DEF vars
  <2>1. MovesTemp
    BY DEF Next, device_store_open, Observes, PollObserves, RefreshObserves, Observe, Saves,
           CreatesTemp, CreateFails, WritesTemp, WriteBreaksOff, MoveFails, Ends
  <2>2. ~disk_full => file'.whole
    BY <2>1, ImageType DEF MovesTemp, IInv, TypeOK, TempHoldsStore
  <2> QED
    BY <2>1, <2>2 DEF MovesTemp
<1> QED
  BY <1>1, InitIInv, NextIInv, PTL DEF Spec, FileIsWhole

\* What the file knows of networks, devices, types and labels it knows for ever,
\* over any number of runs, unless a save met a full disk.
THEOREM NothingLost == Spec => NothingLearnedIsLost
<1>1. IInv /\ [Next]_vars => [~disk_full => Remembers(Loaded(file), Loaded(file'))]_vars
  <2> SUFFICES ASSUME IInv, Next, ~disk_full
               PROVE  Remembers(Loaded(file), Loaded(file'))
    BY DEF vars
  <2>1. CASE file' = file
    BY <2>1, RemembersItself
  <2>2. CASE file' # file
    <3>1. MovesTemp
      BY <2>2 DEF Next, device_store_open, Observes, PollObserves, RefreshObserves, Observe,
             Saves, CreatesTemp, CreateFails, WritesTemp, WriteBreaksOff, MoveFails, Ends
    <3>2. Loaded(file') = store /\ pc = "move"
      BY <3>1, ImageType DEF MovesTemp, IInv, TypeOK, TempHoldsStore
    <3> QED
      BY <3>2 DEF IInv, StoreKnowsFile
  <2> QED
    BY <2>1, <2>2
<1> QED
  BY <1>1, InitIInv, NextIInv, PTL DEF Spec, NothingLearnedIsLost

\* A poll never takes the name of a known device away from the store.
THEOREM NamesStay == Spec => PollsKeepNames
<1> DEFINE Keeps(key, isp, neighbor) ==
             PollObserves(key, isp, neighbor) /\ key \in DOMAIN store =>
                 \A mac \in DOMAIN store[key].devices :
                     store[key].devices[mac].hostname # None
                         => store'[key].devices[mac].hostname # None
<1>1. ASSUME TypeOK, NEW key \in Keys, NEW isp \in Text(Isps), NEW neighbor \in Seen
      PROVE  Keeps(key, isp, neighbor)
  <2> SUFFICES ASSUME PollObserves(key, isp, neighbor), key \in DOMAIN store,
                      NEW mac \in DOMAIN store[key].devices,
                      store[key].devices[mac].hostname # None
               PROVE  store'[key].devices[mac].hostname # None
    OBVIOUS
  <2> DEFINE applied == device_store_apply(store, key, neighbor)
  <2>1. store \in Stores /\ neighbor \in Neighbor
    BY <1>1, StoreFileAssumption DEF TypeOK
  <2>2. applied \in Neighbor /\ applied.mac = neighbor.mac
    BY <2>1, ApplyType
  <2>3. mac \in Macs /\ mac # None
    BY <2>1, StoreFacts, TableFacts, StoreFileAssumption DEF Networks
  <2>4. mac = neighbor.mac => applied.hostname # None
    <3> SUFFICES ASSUME mac = neighbor.mac
                 PROVE  applied.hostname # None
      OBVIOUS
    <3> DEFINE record == store[key].devices[mac]
               h == Keep(neighbor.hostname, record.hostname)
               t == Keep(record.type, neighbor.type)
               l == Keep(record.label, neighbor.label)
    <3>1. applied = [neighbor EXCEPT !.hostname = h, !.type = t, !.label = l]
      BY <2>3 DEF device_store_apply, apply_record
    <3>2. h # None
      BY DEF Keep
    <3> HIDE DEF h, t, l
    <3> QED
      BY <2>1, <3>1, <3>2 DEF Neighbor
  <2>5. store' = device_store_observe(store, key, isp, applied)
    BY DEF PollObserves, Observe
  <2> HIDE DEF applied
  <2> QED
    BY <2>1, <2>2, <2>4, <2>5, ObserveRemembers
<1>2. IInv => TypeOK
  BY DEF IInv
<1>3. IInv => [\A key \in Keys, isp \in Text(Isps), neighbor \in Seen :
                 Keeps(key, isp, neighbor)]_vars
  BY <1>1, <1>2
<1> QED
  BY <1>3, InitIInv, NextIInv, PTL DEF Spec, PollsKeepNames
=============================================================================
