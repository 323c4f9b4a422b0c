----------------------------- MODULE TrayShutdown -----------------------------
(***************************************************************************)
(* The tray process (ui/tray_win32.c) from its threads' side: five kinds   *)
(* of worker loops next to the UI thread, and the WM_DESTROY handler that  *)
(* asks them to stop, waits for each with a timeout, and then releases     *)
(* what they share: the lock, the events and the device store.             *)
(*                                                                         *)
(* What the workers compute is left out (Sampler, Discovery, TrayNetwork); *)
(* kept is what each touches, and when it holds the lock.                  *)
(***************************************************************************)
EXTENDS Naturals, Sequences

Looping == {"discovery", "update", "isp"}          \* wait on update_stop_event
OnDemand == {"download", "refresh"}                \* started by a click
Workers == {"sampler"} \cup Looping \cup OnDemand

LockUsers == Workers \ {"download"}
StoreUsers == {"discovery", "refresh"}

\* Mistake: the thread of the refresh is not waited for.
WaitOrder_NoRefresh == <<"discovery", "update", "isp", "download">>

\* The order in which WM_DESTROY waits for the workers after the sampler.
WaitOrder == <<"discovery", "update", "isp", "download", "refresh">>

VARIABLES
    ui,                     \* "running", then where WM_DESTROY has got to
    turn,                   \* the worker in WaitOrder it asks or waits for
    pc,                     \* control state of each worker
    lock,                   \* who is inside the critical section
    lock_live,              \* DeleteCriticalSection has not run
    stop_requested,
    update_stop_event,      \* "none", "open" or "closed"
    signaled,               \* and whether it is set
    isp_refresh_event,      \* "none", "open" or "closed"
    device_store,           \* "none", "open" or "closed"
    can_close_update_stop_event,
    can_delete_lock,
    late                    \* workers whose wait timed out, for stating properties

handler == <<ui, turn>>
resources == <<lock, lock_live, stop_requested, update_stop_event, signaled,
            isp_refresh_event, device_store>>
flags == <<can_close_update_stop_event, can_delete_lock, late>>
shutdown_vars == <<handler, pc, resources, flags>>

Free == "free"

\* lp_tray_run after it created the window: any event or thread may fail to be
\* created; without the stop event only the sampler is started, and without
\* the sampler the window is destroyed at once.
ShutdownInit ==
    /\ lock = Free /\ lock_live = TRUE
    /\ stop_requested = FALSE
    /\ update_stop_event \in {"none", "open"}
    /\ signaled = FALSE
    /\ isp_refresh_event \in {"none", "open"}
    /\ device_store \in {"none", "open"}
    /\ turn = 0
    /\ can_close_update_stop_event = TRUE
    /\ can_delete_lock = TRUE
    /\ late = {}
    /\ \E created \in SUBSET ({"sampler"} \cup Looping) :
          /\ "sampler" \notin created \/ update_stop_event = "none"
                => created \cap Looping = {}
          /\ pc = [w \in Workers |-> IF w \in created THEN "work" ELSE "off"]
          /\ ui = IF "sampler" \in created THEN "running" ELSE "destroy"

-----------------------------------------------------------------------------
(* The workers.                                                            *)

Goto(w, label) == pc' = [pc EXCEPT ![w] = label]

\* A poll, a lookup or a download comes back.  Failures publish nothing; the
\* sampler publishes its failures too.  Discovery first applies the store to
\* its events, without the lock (lines 377-379).
Returned(w) ==
    CASE w = "sampler" -> {"enter"}
      [] w = "discovery" -> {"apply", "wait"}
      [] w \in {"update", "isp"} -> {"enter", "wait"}
      [] w = "refresh" -> {"enter", "exited"}
      [] w = "download" -> {"exited"}

WorkReturns(w) ==
    /\ pc[w] = "work"
    /\ \E label \in Returned(w) : Goto(w, label)
    /\ UNCHANGED <<handler, resources, flags>>

AppliesUnlocked ==
    /\ pc["discovery"] = "apply"
    /\ Goto("discovery", "enter")
    /\ UNCHANGED <<handler, resources, flags>>

EntersLock(w) ==
    /\ pc[w] = "enter" /\ lock = Free
    /\ lock' = w
    /\ Goto(w, "critical")
    /\ UNCHANGED <<handler, lock_live, stop_requested, update_stop_event, signaled,
                   isp_refresh_event, device_store, flags>>

LeavesLock(w) ==
    /\ pc[w] = "critical"
    /\ lock' = Free
    /\ Goto(w, IF w = "refresh" THEN "exited" ELSE "wait")
    /\ UNCHANGED <<handler, lock_live, stop_requested, update_stop_event, signaled,
                   isp_refresh_event, device_store, flags>>

\* The sampler sleeps and reads stop_requested; the others wait for the stop
\* event, which ends them, or for a timeout, which does not.  A wait on a handle
\* that is not there fails, even if only one of the ISP thread's two is missing,
\* and that counts as a timeout too.  Whoever began to wait before the handles
\* were closed may still see the stop.
Handles(w) == {update_stop_event} \cup IF w = "isp" THEN {isp_refresh_event} ELSE {}

StopSeen(w) ==
    IF w = "sampler" THEN {stop_requested}
    ELSE IF Handles(w) = {"open"} THEN {signaled}
    ELSE IF "none" \in Handles(w) THEN {FALSE}
    ELSE {FALSE, signaled}

WaitReturns(w) ==
    /\ pc[w] = "wait"
    /\ \E seen \in StopSeen(w) : Goto(w, IF seen THEN "exited" ELSE "work")
    /\ UNCHANGED <<handler, resources, flags>>

\* The refresh of a selected device looks its neighbor up before it works.
LooksUp ==
    /\ pc["refresh"] = "lookup" /\ lock = Free
    /\ \E found \in BOOLEAN : Goto("refresh", IF found THEN "work" ELSE "exited")
    /\ UNCHANGED <<handler, resources, flags>>

Work(w) == WorkReturns(w) \/ WaitReturns(w) \/ EntersLock(w) \/ LeavesLock(w)

-----------------------------------------------------------------------------
(* The UI thread.                                                          *)

\* start_update_download and refresh_selected_device_identity: one at a time.
StartsOnDemand(w) ==
    /\ ui = "running"
    /\ pc[w] \in {"off", "exited"}
    /\ Goto(w, IF w = "refresh" THEN "lookup" ELSE "work")
    /\ UNCHANGED <<handler, resources, flags>>

Exit ==
    /\ ui = "running"
    /\ ui' = "destroy"
    /\ UNCHANGED <<turn, pc, resources, flags>>

\* Mistake: the sampler is never told.
RequestsStop_Forgotten ==
    /\ ui = "destroy"
    /\ ui' = "sampler"
    /\ UNCHANGED <<turn, pc, resources, flags>>

\* WM_DESTROY, up to the wait for the sampler, which has no timeout.
RequestsStop ==
    /\ ui = "destroy"
    /\ stop_requested' = TRUE
    /\ ui' = "sampler"
    /\ UNCHANGED <<turn, pc, lock, lock_live, update_stop_event, signaled, isp_refresh_event,
                   device_store, flags>>

PassesOn ==
    IF turn < Len(WaitOrder) THEN ui' = "ask" /\ turn' = turn + 1
    ELSE ui' = "close_stop" /\ turn' = 0

\* Mistake: going on without the sampler.
JoinsSampler_NoWait ==
    /\ ui = "sampler"
    /\ PassesOn
    /\ UNCHANGED <<pc, resources, flags>>

JoinsSampler ==
    /\ ui = "sampler"
    /\ pc["sampler"] \in {"off", "exited"}
    /\ PassesOn
    /\ UNCHANGED <<pc, resources, flags>>

\* A worker that was never started is skipped; a looping one is told to stop.
Awaited == WaitOrder[turn]

AsksToStop ==
    /\ ui = "ask"
    /\ IF pc[Awaited] = "off"
       THEN PassesOn /\ UNCHANGED signaled
       ELSE /\ ui' = "wait" /\ UNCHANGED turn
            /\ signaled' = (signaled \/ Awaited \in Looping)
    /\ UNCHANGED <<pc, lock, lock_live, stop_requested, update_stop_event, isp_refresh_event,
                   device_store, flags>>

WaitSucceeds ==
    /\ ui = "wait"
    /\ pc[Awaited] = "exited"
    /\ PassesOn
    /\ UNCHANGED <<pc, resources, flags>>

\* What a timeout makes the handler keep: see lines 1054, 1072, 1090, 1118.
KeepsEvent == {"discovery", "isp"}
KeepsLock_NotForRefresh == {"discovery", "update", "isp"}    \* a mistake
KeepsLock == {"discovery", "update", "isp", "refresh"}

WaitTimesOut ==
    /\ ui = "wait"
    /\ pc[Awaited] # "exited"
    /\ can_close_update_stop_event' =
          (can_close_update_stop_event /\ Awaited \notin KeepsEvent)
    /\ can_delete_lock' = (can_delete_lock /\ Awaited \notin KeepsLock)
    /\ late' = late \cup {Awaited}
    /\ PassesOn
    /\ UNCHANGED <<pc, resources>>

ClosesStopEvent ==
    /\ ui = "close_stop"
    /\ update_stop_event' =
          IF update_stop_event = "open" /\ can_close_update_stop_event THEN "closed"
          ELSE update_stop_event
    /\ ui' = "close_refresh"
    /\ UNCHANGED <<turn, pc, lock, lock_live, stop_requested, signaled, isp_refresh_event,
                   device_store, flags>>

ClosesRefreshEvent ==
    /\ ui = "close_refresh"
    /\ isp_refresh_event' = IF isp_refresh_event = "open" THEN "closed" ELSE isp_refresh_event
    /\ ui' = "close_store"
    /\ UNCHANGED <<turn, pc, lock, lock_live, stop_requested, update_stop_event, signaled,
                   device_store, flags>>

ClosesStore ==
    /\ ui = "close_store"
    /\ device_store' = IF device_store = "open" THEN "closed" ELSE device_store
    /\ ui' = "delete_lock"
    /\ UNCHANGED <<turn, pc, lock, lock_live, stop_requested, update_stop_event, signaled,
                   isp_refresh_event, flags>>

DeletesLock ==
    /\ ui = "delete_lock"
    /\ lock_live' = ~can_delete_lock
    /\ ui' = "released"
    /\ UNCHANGED <<turn, pc, lock, stop_requested, update_stop_event, signaled, isp_refresh_event,
                   device_store, flags>>

\* WM_QUIT ends the message loop; returning from main ends every thread left.
ProcessEnds ==
    /\ ui = "released"
    /\ ui' = "ended"
    /\ pc' = [w \in Workers |-> IF pc[w] = "off" THEN "off" ELSE "exited"]
    /\ UNCHANGED <<turn, resources, flags>>

Destroy ==
    \/ RequestsStop \/ JoinsSampler
    \/ AsksToStop \/ WaitSucceeds \/ WaitTimesOut
    \/ ClosesStopEvent \/ ClosesRefreshEvent \/ ClosesStore \/ DeletesLock
    \/ ProcessEnds

ShutdownNext ==
    \/ \E w \in Workers : Work(w)
    \/ AppliesUnlocked \/ LooksUp
    \/ \E w \in OnDemand : StartsOnDemand(w)
    \/ Exit
    \/ Destroy

ShutdownSpec == ShutdownInit /\ [][ShutdownNext]_shutdown_vars

\* The UI thread and the sampler run on, a critical section ends, and the
\* sampler gets into one in the end: every other user of the lock spends at
\* least its polling interval outside it.  Network calls may take for ever.
FairShutdownSpec ==
    /\ ShutdownSpec
    /\ WF_shutdown_vars(Destroy)
    /\ WF_shutdown_vars(WorkReturns("sampler")) /\ WF_shutdown_vars(WaitReturns("sampler"))
    /\ SF_shutdown_vars(EntersLock("sampler"))
    /\ \A w \in LockUsers : WF_shutdown_vars(LeavesLock(w))

-----------------------------------------------------------------------------
Gone(w) == pc[w] \in {"off", "exited"}

\* Control states and handles; the lock is held by whoever is inside, even if
\* the process ends under it.
ShutdownTypeOK ==
    /\ pc \in [Workers -> {"off", "work", "apply", "lookup", "enter", "critical", "wait",
                           "exited"}]
    /\ lock \in LockUsers \cup {Free}
    /\ \A w \in Workers : pc[w] = "critical" => lock = w
    /\ lock # Free /\ ui # "ended" => pc[lock] = "critical"
    /\ lock_live \in BOOLEAN /\ stop_requested \in BOOLEAN /\ signaled \in BOOLEAN
    /\ update_stop_event \in {"none", "open", "closed"}
    /\ isp_refresh_event \in {"none", "open", "closed"}
    /\ device_store \in {"none", "open", "closed"}
    /\ turn \in 0 .. Len(WaitOrder)
    /\ late \subseteq Workers

\* The critical section is deleted only when every thread that may still enter
\* it has ended, whichever of the five waits timed out (can_delete_lock).
LockOutlivesItsUsers == ~lock_live => \A w \in LockUsers : Gone(w)

\* When every worker ended in time nothing is left behind: no event, no lock,
\* no thread.
CleanShutdownReleasesAll ==
    ui = "released" /\ late = {} =>
        /\ update_stop_event # "open" /\ isp_refresh_event # "open"
        /\ device_store # "open" /\ ~lock_live
        /\ \A w \in Workers : Gone(w)

\* However long network calls take, the process ends after Exit: the one wait
\* without a timeout is for a thread that always comes back.
ShutdownEnds == (ui = "destroy") ~> (ui = "ended")

\* The device store is released when no thread uses it any more, but for one
\* whose wait timed out: such a thread goes on using a store that is gone
\* (line 1127, against architecture.md:93, "join and release state").
StoreOutlivesUsers ==
    device_store = "closed" => \A w \in StoreUsers \ late : Gone(w)
=============================================================================
