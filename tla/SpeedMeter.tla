------------------------------ MODULE SpeedMeter ------------------------------
(***************************************************************************)
(* The speed meter window (ui/speed_meter_win32.c): the UI thread starts,  *)
(* cancels and joins worker threads that run a speed test each, and the    *)
(* window may be destroyed at any moment, in which case a wait callback    *)
(* frees the shared state once the worker has ended.                       *)
(*                                                                         *)
(* The test a worker runs is SpeedRun, the promise of lp_speedtest_run.    *)
(***************************************************************************)
EXTENDS Naturals, FiniteSets

CONSTANT MAX_TESTS        \* bound on the tests started in one behaviour

ASSUME MeterAssumption == MAX_TESTS \in Nat \ {0}

Tests == 1 .. MAX_TESTS
NoTest == 0

VARIABLES
    \* --- lp_speed_meter_state_t
    cancel,
    running,
    destroying,
    thread,       \* the handle: the test whose thread it names, or NoTest
    progress,     \* the report on display
    freed,        \* free_state has run
    \* --- threads and the window
    window,       \* GWLP_USERDATA still points to the state
    ui,           \* what the UI thread is doing
    worker,       \* control state of each test's thread
    report,       \* the progress each worker keeps on its stack
    waiter        \* the wait registered when the window is destroyed

shared == <<cancel, running, destroying, thread, progress, freed>>
threads == <<ui, worker, report, waiter>>
vars == <<shared, window, threads>>

Run == INSTANCE SpeedRun WITH progress <- progress

Init ==
    /\ cancel = FALSE
    /\ running = FALSE
    /\ destroying = FALSE
    /\ thread = NoTest
    /\ progress = Run!ZeroProgress
    /\ freed = FALSE
    /\ window = TRUE
    /\ ui = "ready"
    /\ worker = [w \in Tests |-> "none"]
    /\ report = [w \in Tests |-> Run!ZeroProgress]
    /\ waiter = "none"

\* Mistake: not waiting for the worker.
Joined_Skipped == TRUE

\* WaitForSingleObject on the handle returns.
Joined == thread # NoTest => worker[thread] = "exited"

-----------------------------------------------------------------------------
(* The UI thread.                                                          *)

\* The button while a test runs, the back and close buttons, Escape.
cancel_test ==
    /\ ui = "ready"
    /\ cancel' = TRUE
    /\ UNCHANGED <<running, destroying, thread, progress, freed, window, threads>>

\* The button while none runs: start_test claims the meter, then joins the
\* thread of the test before.
start_test ==
    /\ ui = "ready"
    /\ ~running
    /\ \E w \in Tests : worker[w] = "none"
    /\ running' = TRUE
    /\ ui' = "starting"
    /\ UNCHANGED <<cancel, destroying, thread, progress, freed, window, worker, report, waiter>>

LaunchTest ==
    /\ ui = "starting" /\ Joined
    /\ cancel' = FALSE
    /\ progress' = Run!ZeroProgress
    /\ \/ \E w \in Tests :
             /\ worker[w] = "none" /\ \A v \in 1 .. w - 1 : worker[v] # "none"
             /\ worker' = [worker EXCEPT ![w] = "created"]
             /\ thread' = w
             /\ UNCHANGED running
       \/ thread' = NoTest /\ running' = FALSE /\ UNCHANGED worker
    /\ ui' = "ready"
    /\ UNCHANGED <<destroying, freed, window, report, waiter>>

\* lp_speed_meter_show: stop_test, which blocks until the worker has ended,
\* then an empty display.
lp_speed_meter_show ==
    /\ ui = "ready"
    /\ cancel' = TRUE
    /\ ui' = "stopping"
    /\ UNCHANGED <<running, destroying, thread, progress, freed, window, worker, report, waiter>>

MeterShown ==
    /\ ui = "stopping" /\ Joined
    /\ thread' = NoTest
    /\ running' = FALSE
    /\ progress' = Run!ZeroProgress
    /\ ui' = "ready"
    /\ UNCHANGED <<cancel, destroying, freed, window, worker, report, waiter>>

\* Mistake: no way out when the wait cannot be registered.
WmDestroy_NoFallback ==
    /\ ui = "ready"
    /\ window' = FALSE /\ cancel' = TRUE /\ destroying' = TRUE
    /\ freed' = Joined
    /\ ui' = "gone"
    /\ waiter' \in IF Joined THEN {waiter} ELSE {waiter, "waiting"}
    /\ UNCHANGED <<running, thread, progress, worker, report>>

\* WM_DESTROY.  With a worker still alive, freeing is left to a wait callback
\* or a helper thread; when neither can be had the UI thread waits itself.
WmDestroy ==
    /\ ui = "ready"
    /\ window' = FALSE
    /\ cancel' = TRUE
    /\ destroying' = TRUE
    /\ IF Joined
       THEN /\ freed' = TRUE /\ thread' = NoTest
            /\ running' = (running /\ thread = NoTest)
            /\ ui' = "gone" /\ UNCHANGED waiter
       ELSE /\ \/ waiter' = "waiting" /\ ui' = "gone"
               \/ ui' = "destroying" /\ UNCHANGED waiter
            /\ UNCHANGED <<running, thread, freed>>
    /\ UNCHANGED <<progress, worker, report>>

\* on_destroy_wait_complete, on whichever thread waited.
on_destroy_wait_complete ==
    /\ Joined
    /\ \/ waiter = "waiting" /\ waiter' = "done" /\ UNCHANGED ui
       \/ ui = "destroying" /\ ui' = "gone" /\ UNCHANGED waiter
    /\ running' = FALSE
    /\ thread' = NoTest
    /\ freed' = TRUE
    /\ UNCHANGED <<cancel, destroying, progress, window, worker, report>>

-----------------------------------------------------------------------------
(* speedtest_thread_proc.                                                  *)

Goto(w, label) == worker' = [worker EXCEPT ![w] = label]

\* A thread that finds the window gone has nothing to do.
WorkerBegins(w) ==
    /\ worker[w] = "created"
    /\ Goto(w, IF window THEN "testing" ELSE "exited")
    /\ UNCHANGED <<shared, window, ui, report, waiter>>

\* One advance of the test, reported to the display as long as the window has
\* the state.
WorkerTests(w) ==
    /\ worker[w] = "testing"
    /\ \E next \in Run!Successors(report[w], cancel) :
          /\ report' = [report EXCEPT ![w] = next]
          /\ progress' = IF window THEN next ELSE progress
          /\ Goto(w, IF next.phase \in Run!Final THEN "publishing" ELSE "testing")
    /\ UNCHANGED <<cancel, running, destroying, thread, freed, window, ui, waiter>>

WorkerPublishes(w) ==
    /\ worker[w] = "publishing"
    /\ progress' = report[w]
    /\ Goto(w, "clearing")
    /\ UNCHANGED <<cancel, running, destroying, thread, freed, window, ui, report, waiter>>

WorkerClears(w) ==
    /\ worker[w] = "clearing"
    /\ running' = FALSE
    /\ Goto(w, "posting")
    /\ UNCHANGED <<cancel, destroying, thread, progress, freed, window, ui, report, waiter>>

\* Reads destroying, and asks for a repaint unless the window is on its way out.
WorkerPosts(w) ==
    /\ worker[w] = "posting"
    /\ Goto(w, "exited")
    /\ UNCHANGED <<shared, window, ui, report, waiter>>

-----------------------------------------------------------------------------
Work(w) ==
    \/ WorkerBegins(w) \/ WorkerTests(w) \/ WorkerPublishes(w)
    \/ WorkerClears(w) \/ WorkerPosts(w)

Unblock == LaunchTest \/ MeterShown \/ on_destroy_wait_complete

Next ==
    \/ cancel_test \/ start_test \/ lp_speed_meter_show \/ WmDestroy
    \/ Unblock
    \/ \E w \in Tests : Work(w)

Spec == Init /\ [][Next]_vars

\* Threads are scheduled, a test ends (SpeedTest's RunEnds), waits that can
\* return do.  The user owes nobody a click.
FairSpec == Spec /\ WF_vars(Unblock) /\ \A w \in Tests : WF_vars(Work(w))

-----------------------------------------------------------------------------
Alive(w) == worker[w] \notin {"none", "exited"}

\* Control states and the values the fields take; outside start_test the
\* running flag belongs to a test whose thread is the one in the handle.
TypeOK ==
    /\ cancel \in BOOLEAN /\ running \in BOOLEAN /\ destroying \in BOOLEAN
    /\ thread \in Tests \cup {NoTest}
    /\ progress \in Run!Progress
    /\ freed \in BOOLEAN /\ window \in BOOLEAN
    /\ ui \in {"ready", "starting", "stopping", "destroying", "gone"}
    /\ worker \in [Tests -> {"none", "created", "testing", "publishing", "clearing",
                             "posting", "exited"}]
    /\ report \in [Tests -> Run!Progress]
    /\ waiter \in {"none", "waiting", "done"}
    /\ ui = "ready" /\ running => thread # NoTest /\ Alive(thread)

\* The state is not freed under a worker: no thread that still has the state's
\* address is alive afterwards (WM_DESTROY against speedtest_thread_proc).
NoUseAfterFree == freed => \A w \in Tests : ~Alive(w)

\* Two tests never run at once, so neither the one cancel flag nor the link is
\* ever shared between two of them (the join in start_test, line 495).
OneTestAtATime == Cardinality({w \in Tests : Alive(w)}) <= 1

\* When the button would start a test, none is transferring any more, and a
\* worker that was told to stop is never told to go on.
CancelSticks ==
    [][/\ cancel /\ ~cancel' => \A w \in Tests : ~Alive(w)
       /\ ~running /\ running' =>
             \A w \in Tests : worker[w] \notin {"created", "testing", "publishing", "clearing"}
      ]_vars

\* What is on display belongs to the latest test: after the meter was opened
\* for another router, no report of the test before can turn up on it.
NoStaleReport ==
    ui = "ready" =>
        \/ progress = Run!ZeroProgress
        \/ thread # NoTest /\ progress = report[thread]

\* Opening the meter, starting a test and closing the window block the UI
\* thread only for a while, and a destroyed window's state is given back.
NothingWaitsForever ==
    /\ (ui \in {"starting", "stopping", "destroying"}) ~> (ui \in {"ready", "gone"})
    /\ destroying ~> freed
=============================================================================
