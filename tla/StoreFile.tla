------------------------------- MODULE StoreFile -------------------------------
(***************************************************************************)
(* How the device store gets into devices.xml and back                     *)
(* (platform/win32/device_store_win32.c): opened once per run of the tray, *)
(* saved after every observation through a temporary file that replaces    *)
(* the old one, while the process may be killed between any two steps and  *)
(* each step of a save may fail.                                           *)
(***************************************************************************)
EXTENDS DeviceStore

CONSTANTS
    FirstFiles,     \* what the file may hold before the first run, see File
    Seen            \* the neighbors polls and refreshes may report

\* A file of version 1 has no networks, only a flat list of devices; `whole`
\* is whether it was written to its end.
File == [version : {1, 2}, networks : Stores, flat : DeviceTables, whole : BOOLEAN]
NoFile == [whole |-> TRUE]
Files == File \cup {NoFile}

ASSUME StoreFileAssumption ==
    /\ None \notin Gateways \cup Macs \cup Hostnames \cup Types \cup Labels \cup Isps
    /\ FirstFiles \subseteq {file \in Files : file.whole}
    /\ Seen \subseteq Neighbor

VARIABLES
    store,     \* lp_device_store_t
    pc,        \* where the process is
    file,      \* devices.xml
    temp,      \* devices.xml.tmp
    disk_full  \* whether the last write broke off, for stating properties

vars == <<store, pc, file, temp, disk_full>>

Init ==
    /\ store = NoNetworks
    /\ pc = "closed"
    /\ file \in FirstFiles
    /\ temp = NoFile
    /\ disk_full = FALSE

-----------------------------------------------------------------------------
\* load_store: the networks as they are, a flat list as the devices of the
\* unknown network; a file that breaks off is read as far as it goes.
Loaded(image) ==
    IF image = NoFile THEN NoNetworks
    ELSE IF DOMAIN image.flat = {} THEN image.networks
    ELSE With(image.networks, None, [NewNetwork EXCEPT !.devices = image.flat])

\* An older schema is written back at once.
device_store_open ==
    /\ pc = "closed"
    /\ store' = Loaded(file)
    /\ pc' = IF file # NoFile /\ file.version = 1 THEN "save" ELSE "open"
    /\ UNCHANGED <<file, temp, disk_full>>

\* Mistake: only a device that was not known there is saved.
Observe_NewOnly(key, isp, neighbor) ==
    /\ pc = "open"
    /\ store' = device_store_observe(store, key, isp, neighbor)
    /\ pc' = IF neighbor.mac \in DOMAIN find_or_create_network(store, key).devices
             THEN "open" ELSE "save"
    /\ UNCHANGED <<file, temp, disk_full>>

Observe(key, isp, neighbor) ==
    /\ pc = "open"
    /\ store' = device_store_observe(store, key, isp, neighbor)
    /\ pc' = IF neighbor.mac = None THEN "open" ELSE "save"
    /\ UNCHANGED <<file, temp, disk_full>>

\* A poll of the discovery thread completes the neighbor from the store before
\* it observes it; the refresh of a selected device does not.
PollObserves(key, isp, neighbor) ==
    Observe(key, isp, device_store_apply(store, key, neighbor))

RefreshObserves(key, isp, neighbor) == Observe(key, isp, neighbor)

Image(networks, whole) ==
    [version |-> 2, networks |-> networks, flat |-> NoDevices, whole |-> whole]

\* Nothing yet, not even the element that says the version.
Blank == [version |-> 1, networks |-> NoNetworks, flat |-> NoDevices, whole |-> FALSE]

\* Mistake: the file itself is rewritten.
CreatesTemp_InPlace ==
    /\ pc = "save"
    /\ file' = Blank
    /\ temp' = Blank
    /\ pc' = "write"
    /\ disk_full' = FALSE
    /\ UNCHANGED store

\* save_store, step by step.  The temporary file is created or replaced; if it
\* cannot be, nothing is saved this time.
CreatesTemp ==
    /\ pc = "save"
    /\ temp' = Blank
    /\ pc' = "write"
    /\ disk_full' = FALSE
    /\ UNCHANGED <<store, file>>

CreateFails ==
    /\ pc = "save"
    /\ pc' = "open"
    /\ UNCHANGED <<store, file, temp, disk_full>>

WritesTemp ==
    /\ pc = "write"
    /\ temp' = Image(store, TRUE)
    /\ pc' = "move"
    /\ UNCHANGED <<store, file, disk_full>>

\* The results of the writer are not looked at: on a full disk the file breaks
\* off somewhere, and the save goes on.
WriteBreaksOff ==
    /\ pc = "write"
    /\ \/ UNCHANGED temp
       \/ \E kept \in SUBSET DOMAIN store : temp' = Image([key \in kept |-> store[key]], FALSE)
    /\ pc' = "move"
    /\ disk_full' = TRUE
    /\ UNCHANGED <<store, file>>

\* MoveFileEx replaces the file, or fails and the temporary file is deleted.
MovesTemp ==
    /\ pc = "move"
    /\ file' = temp
    /\ temp' = NoFile
    /\ pc' = "open"
    /\ UNCHANGED <<store, disk_full>>

MoveFails ==
    /\ pc = "move"
    /\ temp' = NoFile
    /\ pc' = "open"
    /\ UNCHANGED <<store, file, disk_full>>

\* The tray closes the store, or is killed.
Ends ==
    /\ pc # "closed"
    /\ pc' = "closed"
    /\ store' = NoNetworks
    /\ UNCHANGED <<file, temp, disk_full>>

Observes ==
    \E key \in Keys, isp \in Text(Isps), neighbor \in Seen :
        PollObserves(key, isp, neighbor) \/ RefreshObserves(key, isp, neighbor)

Saves ==
    \/ CreatesTemp \/ CreateFails
    \/ WritesTemp \/ WriteBreaksOff
    \/ MovesTemp \/ MoveFails

Next == device_store_open \/ Observes \/ Saves \/ Ends

Spec == Init /\ [][Next]_vars

\* The process is scheduled, devices keep being seen for as long as the tray
\* runs, the file system does not refuse for ever what it is asked again and
\* again, and the disk does not stay full.
FairSpec ==
    /\ Spec
    /\ WF_vars(Observes) /\ WF_vars(Saves)
    /\ SF_vars(CreatesTemp) /\ SF_vars(WritesTemp) /\ SF_vars(~disk_full /\ MovesTemp)

-----------------------------------------------------------------------------
TypeOK ==
    /\ store \in Stores
    /\ pc \in {"closed", "open", "save", "write", "move"}
    /\ file \in Files
    /\ temp \in Files
    /\ disk_full \in BOOLEAN

\* "persists the store atomically" (device_store.h:25-26): whenever the process
\* is killed, and whichever step of a save fails, devices.xml stays whole, unless
\* the disk runs full while it is written: the one case the code does not notice.
FileIsWhole == [][file.whole /\ ~file'.whole => pc = "move" /\ disk_full]_vars

\* The user's label and the learned type of a device are kept as they are.
Remembers(old, new) ==
    \A key \in DOMAIN old : key \in DOMAIN new /\
        \A mac \in DOMAIN old[key].devices : mac \in DOMAIN new[key].devices /\
            \A field \in {"type", "label"} :
                LET text == old[key].devices[mac][field]
                IN  text # None => new[key].devices[mac][field] = text

\* Across runs, kills, failed saves and the change of schema the file never
\* forgets a network, a device, its learned type or its label, full disks aside
\* (lines 418-441: "so nothing already learned is lost").
NothingLearnedIsLost ==
    [][~disk_full => Remembers(Loaded(file), Loaded(file'))]_vars

\* A poll that could not resolve a device's name does not take the name it is
\* known by away from it (lines 219-226).
PollsKeepNames ==
    [][\A key \in Keys, isp \in Text(Isps), neighbor \in Seen :
          PollObserves(key, isp, neighbor) /\ key \in DOMAIN store =>
              \A mac \in DOMAIN store[key].devices :
                  store[key].devices[mac].hostname # None
                      => store'[key].devices[mac].hostname # None]_vars

\* A save that failed, or went wrong on a full disk, is made up for by the
\* following ones: whatever is in the store is in a whole file sooner or later,
\* unless the run ends before.
SavedAtLast ==
    \A key \in Keys, mac \in Macs :
        (key \in DOMAIN store /\ mac \in DOMAIN store[key].devices)
            ~> (pc = "closed" \/ (file.whole /\ key \in DOMAIN Loaded(file)
                                   /\ mac \in DOMAIN Loaded(file)[key].devices))
=============================================================================
