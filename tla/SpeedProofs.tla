------------------------------ MODULE SpeedProofs ------------------------------
(***************************************************************************)
(* The safety of the speed test (SpeedTest.tla), that it implements what   *)
(* its callers are promised (SpeedRun.tla), and the safety of the window   *)
(* that runs one test after another on worker threads (SpeedMeter.tla),    *)
(* for any number of probes, attempts, ticks, chunks and tests.            *)
(***************************************************************************)
EXTENDS SpeedTest, SpeedMeter, FiniteSetTheorems, TLAPS

-----------------------------------------------------------------------------
(* The test.                                                               *)

\* The phase on display follows the control state.
PhaseOfControl ==
    /\ pc = "connect" => reported = Abstract!ZeroProgress
    /\ pc \in {"latency", "probe", "to_download"} => reported.phase = "LATENCY"
    /\ pc \in {"download", "get", "body", "downloaded"} => reported.phase = "DOWNLOAD"
    /\ pc = "to_upload" => reported.phase \in {"LATENCY", "DOWNLOAD"}
    /\ pc \in {"upload", "post", "sending", "reply", "uploaded"} => reported.phase = "UPLOAD"
    /\ pc = "conclude" => reported.phase \in Abstract!Measuring

\* What the loops have made sure of before they go on.
WithinLimits ==
    /\ pc = "probe" => probes < LP_SPEEDTEST_LATENCY_PROBES
    /\ pc \in {"get", "body", "post", "sending"} => failures < LP_SPEEDTEST_MAX_ATTEMPTS
    /\ pc = "sending" => remaining > 0

\* A request opened after the flag was set was decided on before, and it was
\* the last.
LastRequest ==
    /\ late_requests <= 1
    /\ ~cancel_flag => late_requests = 0
    /\ pc \in {"probe", "get", "post"} => late_requests = 0

TestInv == TestTypeOK /\ PhaseOfControl /\ WithinLimits /\ LastRequest

\* A test starts with its latency phase before it.
LEMMA TestInitInv == TestInit => TestInv
<1> SUFFICES ASSUME TestInit
             PROVE  TestInv
  OBVIOUS
<1>1. cancel_flag = FALSE /\ reported = Abstract!ZeroProgress /\ reported \in Abstract!Progress
  BY DEF TestInit, Abstract!Init, Abstract!ZeroProgress, Abstract!Progress, Abstract!Phases
<1>2. cancel_flag \in BOOLEAN /\ sampled \in BOOLEAN /\ body \in BOOLEAN /\ total \in BOOLEAN
      /\ started \in BOOLEAN /\ stop \in BOOLEAN
  BY <1>1, Zenon DEF TestInit
<1>3. TestTypeOK
  BY <1>1, <1>2, SpeedTestAssumption DEF TestInit, TestTypeOK
<1>4. PhaseOfControl /\ WithinLimits /\ LastRequest
  BY <1>1, SpeedTestAssumption DEF TestInit, PhaseOfControl, WithinLimits, LastRequest
<1> QED
  BY <1>3, <1>4 DEF TestInv

\* The two ways the progress changes.
LEMMA EnterType ==
    ASSUME reported \in Abstract!Progress, NEW phase \in Abstract!Phases, Enter(phase)
    PROVE  /\ reported' \in Abstract!Progress
           /\ reported'.phase = phase
           /\ reported' = [reported EXCEPT !.phase = phase]
  BY DEF Enter, Abstract!Progress

\* A measurement fills in its own number and leaves the phase alone.
LEMMA MeasureType ==
    ASSUME reported \in Abstract!Progress, reported.phase \in Abstract!Measuring, Measure
    PROVE  /\ reported' \in Abstract!Progress
           /\ reported'.phase = reported.phase
  BY DEF Measure, Abstract!Progress

-----------------------------------------------------------------------------
(* The steps of the run keep the invariant.                                *)

\* The latency probes.
LEMMA LatencyKeepsInv ==
    ASSUME TestInv, Connect \/ NextProbe \/ Probe \/ ToDownload
    PROVE  TestInv'
<1> USE SpeedTestAssumption
        DEF TestInv, TestTypeOK, PhaseOfControl, WithinLimits, LastRequest, loop
<1>1. CASE Connect
  <2>1. "LATENCY" \in Abstract!Phases /\ "FAILED" \in Abstract!Phases
    BY DEF Abstract!Phases, Abstract!Measuring, Abstract!Final
  <2> QED
    BY <1>1, <2>1, EnterType DEF Connect
<1>2. CASE NextProbe
  <2>1. CASE probes < LP_SPEEDTEST_LATENCY_PROBES
    BY <1>2, <2>1 DEF NextProbe
  <2>2. CASE ~(probes < LP_SPEEDTEST_LATENCY_PROBES)
    <3>1. reported' \in Abstract!Progress /\ reported'.phase = "LATENCY"
      BY <1>2, <2>2, MeasureType DEF NextProbe, Abstract!Measuring
    <3> QED
      BY <1>2, <2>2, <3>1 DEF NextProbe
  <2> QED
    BY <2>1, <2>2
<1>3. CASE Probe
  BY <1>3 DEF Probe, Later
<1>4. CASE ToDownload
  <2>1. "DOWNLOAD" \in Abstract!Phases
    BY DEF Abstract!Phases, Abstract!Measuring
  <2>2. CASE cancel_flag /\ UNCHANGED <<reported, loop>>
    BY <1>4, <2>2 DEF ToDownload, Abstract!Measuring
  <2>3. CASE ~cancel_flag /\ Enter("DOWNLOAD") /\ FreshPhase(FALSE) /\ pc' = "download"
    <3>1. reported' \in Abstract!Progress /\ reported'.phase = "DOWNLOAD"
      BY <2>1, <2>3, EnterType
    <3>2. body' \in BOOLEAN /\ total' \in BOOLEAN /\ started' \in BOOLEAN /\ stop' \in BOOLEAN
      BY <2>3, Zenon DEF FreshPhase
    <3>3. TestTypeOK'
      BY <1>4, <2>3, <3>1, <3>2 DEF ToDownload, FreshPhase
    <3> QED
      BY <1>4, <2>3, <3>1, <3>3 DEF ToDownload, FreshPhase
  <2> QED
    BY <1>4, <2>2, <2>3 DEF ToDownload
<1> QED
  BY <1>1, <1>2, <1>3, <1>4

\* The download requests.
LEMMA DownloadKeepsInv ==
    ASSUME TestInv, DownloadLoop \/ Get \/ ReadChunk \/ BodyEnds \/ Downloaded \/ ToUpload
    PROVE  TestInv'
<1> USE SpeedTestAssumption
        DEF TestInv, TestTypeOK, PhaseOfControl, WithinLimits, LastRequest, loop
<1>1. CASE DownloadLoop
  <2>1. TestTypeOK'
    BY <1>1 DEF DownloadLoop
  <2>2. PhaseOfControl' /\ WithinLimits'
    BY <1>1 DEF DownloadLoop, MayRequest
  <2>3. LastRequest'
    BY <1>1 DEF DownloadLoop, MayRequest
  <2> QED
    BY <2>1, <2>2, <2>3
<1>2. CASE Get
  <2>1. late_requests' \in 0 .. 1 /\ (~cancel_flag' => late_requests' = 0)
    BY <1>2 DEF Get, Later
  <2>2. failures' \in 0 .. LP_SPEEDTEST_MAX_ATTEMPTS
        /\ (pc' = "body" => failures' < LP_SPEEDTEST_MAX_ATTEMPTS)
    BY <1>2 DEF Get
  <2>3. body' \in BOOLEAN /\ pc' \in {"download", "downloaded", "body"}
    BY <1>2 DEF Get
  <2> QED
    BY <1>2, <2>1, <2>2, <2>3 DEF Get
<1>3. CASE ReadChunk
  <2>1. body' \in BOOLEAN /\ total' \in BOOLEAN /\ started' \in BOOLEAN /\ stop' \in BOOLEAN
    BY <1>3, Zenon DEF ReadChunk
  <2>2. elapsed' \in 0 .. PHASE_TICKS /\ failures' \in 0 .. LP_SPEEDTEST_MAX_ATTEMPTS
    BY <1>3 DEF ReadChunk
  <2>3. pc' \in {"body", "download"} /\ (pc' = "body" => UNCHANGED failures)
    BY <1>3 DEF ReadChunk
  <2> QED
    BY <1>3, <2>1, <2>2, <2>3 DEF ReadChunk
<1>4. CASE BodyEnds
  <2>1. failures' \in 0 .. LP_SPEEDTEST_MAX_ATTEMPTS
    BY <1>4 DEF BodyEnds
  <2>2. pc' \in {"downloaded", "download"}
    BY <1>4 DEF BodyEnds
  <2> QED
    BY <1>4, <2>1, <2>2 DEF BodyEnds
<1>5. CASE Downloaded
  <2>1. reported' \in Abstract!Progress /\ reported'.phase = "DOWNLOAD"
    BY <1>5, MeasureType DEF Downloaded, Abstract!Measuring
  <2> QED
    BY <1>5, <2>1 DEF Downloaded
<1>6. CASE ToUpload
  <2>1. "UPLOAD" \in Abstract!Phases
    BY DEF Abstract!Phases, Abstract!Measuring
  <2>2. CASE cancel_flag /\ UNCHANGED <<reported, loop>>
    BY <1>6, <2>2 DEF ToUpload, Abstract!Measuring
  <2>3. CASE ~cancel_flag /\ Enter("UPLOAD") /\ FreshPhase(TRUE) /\ pc' = "upload"
    <3>1. reported' \in Abstract!Progress /\ reported'.phase = "UPLOAD"
      BY <2>1, <2>3, EnterType
    <3>2. body' \in BOOLEAN /\ total' \in BOOLEAN /\ started' \in BOOLEAN /\ stop' \in BOOLEAN
      BY <2>3, Zenon DEF FreshPhase
    <3>3. TestTypeOK'
      BY <1>6, <2>3, <3>1, <3>2 DEF ToUpload, FreshPhase
    <3> QED
      BY <1>6, <2>3, <3>1, <3>3 DEF ToUpload, FreshPhase
  <2> QED
    BY <1>6, <2>2, <2>3 DEF ToUpload
<1> QED
  BY <1>1, <1>2, <1>3, <1>4, <1>5, <1>6

\* The upload requests and the end of the test.
LEMMA UploadKeepsInv ==
    ASSUME TestInv,
           UploadLoop \/ Post \/ WriteChunk \/ WriteFails \/ Reply \/ Uploaded \/ Conclude
    PROVE  TestInv'
<1> USE SpeedTestAssumption
        DEF TestInv, TestTypeOK, PhaseOfControl, WithinLimits, LastRequest, loop
<1>1. CASE UploadLoop
  BY <1>1 DEF UploadLoop, MayRequest
<1>2. CASE Post
  BY <1>2 DEF Post, Later
<1>3. CASE WriteChunk
  <2>1. remaining' \in 0 .. UPLOAD_CHUNKS
    BY <1>3 DEF WriteChunk
  <2>2. pc' \in {"reply", "upload", "sending"} /\ (pc' = "sending" => remaining' > 0)
    BY <1>3, <2>1 DEF WriteChunk
  <2> QED
    BY <1>3, <2>1, <2>2 DEF WriteChunk
<1>4. CASE WriteFails
  BY <1>4 DEF WriteFails
<1>5. CASE Reply
  BY <1>5 DEF Reply
<1>6. CASE Uploaded
  <2>1. reported' \in Abstract!Progress /\ reported'.phase = "UPLOAD"
    BY <1>6, MeasureType DEF Uploaded, Abstract!Measuring
  <2> QED
    BY <1>6, <2>1 DEF Uploaded, Abstract!Measuring
<1>7. CASE Conclude
  <2>1. Abstract!Conclusion(reported, cancel_flag) \in Abstract!Phases
    BY DEF Abstract!Conclusion, Abstract!Phases, Abstract!Final
  <2> QED
    BY <1>7, <2>1, EnterType DEF Conclude
<1> QED
  BY <1>1, <1>2, <1>3, <1>4, <1>5, <1>6, <1>7

\* Every step of the run keeps the invariant.
LEMMA TestNextInv == TestInv /\ [TestNext]_test_vars => TestInv'
<1> SUFFICES ASSUME TestInv, [TestNext]_test_vars
             PROVE  TestInv'
  OBVIOUS
<1>1. CASE Worker
  BY <1>1, LatencyKeepsInv, DownloadKeepsInv, UploadKeepsInv DEF Worker
<1>2. CASE Cancel
  BY <1>2 DEF Cancel, TestInv, TestTypeOK, PhaseOfControl, WithinLimits, LastRequest, loop
<1>3. CASE Tick
  BY <1>3, SpeedTestAssumption
     DEF Tick, TestInv, TestTypeOK, PhaseOfControl, WithinLimits, LastRequest
<1>4. CASE UNCHANGED test_vars
  BY <1>4 DEF test_vars, loop, TestInv, TestTypeOK, PhaseOfControl, WithinLimits, LastRequest
<1> QED
  BY <1>1, <1>2, <1>3, <1>4 DEF TestNext

\* It holds of every state of the run.
LEMMA TestInvHolds == TestSpec => []TestInv
  BY TestInitInv, TestNextInv, PTL DEF TestSpec

-----------------------------------------------------------------------------
\* The run's counters stay within their limits: no probe, attempt or chunk too
\* many, whatever the server does.
THEOREM TestTypeCorrect == TestSpec => []TestTypeOK
<1>1. TestInv => TestTypeOK
  BY DEF TestInv
<1> QED
  BY <1>1, TestInvHolds, PTL

\* After the cancel flag was set at most one more request is opened.
THEOREM CancelStopsRequests == TestSpec => []StopsRequesting
<1>1. TestInv => StopsRequesting
  BY DEF TestInv, LastRequest, StopsRequesting
<1> QED
  BY <1>1, TestInvHolds, PTL

\* A step that enters a later phase, measures, or concludes is one the caller
\* was promised.
LEMMA WorkAdvances ==
    ASSUME TestInv, Worker
    PROVE  Abstract!Advance \/ UNCHANGED Abstract!run
<1> USE DEF TestInv, TestTypeOK, PhaseOfControl, loop
<1> DEFINE Stays == UNCHANGED <<cancel_flag, reported>>
<1>1. Stays => UNCHANGED Abstract!run
  BY DEF Abstract!run
<1>2. ASSUME UNCHANGED cancel_flag, reported' \in Abstract!Successors(reported, cancel_flag)
      PROVE  Abstract!Advance
  BY <1>2 DEF Abstract!Advance
<1>3. ASSUME Measure, reported.phase \in Abstract!Measuring
      PROVE  reported' \in Abstract!Successors(reported, cancel_flag)
  BY <1>3 DEF Measure, Abstract!Successors, Abstract!Measured, Abstract!Measuring, Abstract!Final
<1>4. ASSUME NEW phase \in Abstract!Measuring, Enter(phase),
             reported.phase \notin Abstract!Final,
             Abstract!Rank(phase) > Abstract!Rank(reported.phase)
      PROVE  reported' \in Abstract!Successors(reported, cancel_flag)
  BY <1>4 DEF Enter, Abstract!Successors, Abstract!Entered
<1>5. CASE Connect
  <2>1. reported = Abstract!ZeroProgress /\ reported.phase = "IDLE" /\ UNCHANGED cancel_flag
    BY <1>5 DEF Connect, Abstract!ZeroProgress
  <2>2. CASE Enter("LATENCY")
    BY <1>2, <1>4, <2>1, <2>2 DEF Abstract!Rank, Abstract!Measuring, Abstract!Final
  <2>3. CASE Enter("FAILED")
    <3>1. reported' \in Abstract!Successors(reported, cancel_flag)
      BY <2>1, <2>3 DEF Enter, Abstract!Successors, Abstract!Concluded, Abstract!Final
    <3> QED
      BY <1>2, <2>1, <3>1
  <2> QED
    BY <1>5, <2>2, <2>3 DEF Connect
<1>6. CASE NextProbe
  BY <1>1, <1>2, <1>3, <1>6 DEF NextProbe, Abstract!Measuring
<1>7. CASE Probe \/ DownloadLoop \/ Get \/ ReadChunk \/ BodyEnds
           \/ UploadLoop \/ Post \/ WriteChunk \/ WriteFails \/ Reply
  BY <1>1, <1>7 DEF Probe, DownloadLoop, Get, ReadChunk, BodyEnds, UploadLoop, Post, WriteChunk,
                    WriteFails, Reply
<1>8. CASE ToDownload
  <2>1. CASE cancel_flag /\ UNCHANGED reported
    BY <1>1, <1>8, <2>1 DEF ToDownload
  <2>2. CASE Enter("DOWNLOAD")
    <3>1. /\ reported.phase \notin Abstract!Final
          /\ "DOWNLOAD" \in Abstract!Measuring
          /\ Abstract!Rank("DOWNLOAD") > Abstract!Rank(reported.phase)
      BY <1>8 DEF ToDownload, Abstract!Rank, Abstract!Measuring, Abstract!Final
    <3>2. reported' \in Abstract!Successors(reported, cancel_flag)
      BY <1>4, <2>2, <3>1
    <3> QED
      BY <1>2, <1>8, <3>2 DEF ToDownload
  <2> QED
    BY <1>8, <2>1, <2>2 DEF ToDownload
<1>9. CASE Downloaded
  BY <1>1, <1>2, <1>3, <1>9 DEF Downloaded, Abstract!Measuring
<1>10. CASE ToUpload
  <2>1. CASE cancel_flag /\ UNCHANGED reported
    BY <1>1, <1>10, <2>1 DEF ToUpload
  <2>2. CASE Enter("UPLOAD")
    <3>1. /\ reported.phase \notin Abstract!Final
          /\ "UPLOAD" \in Abstract!Measuring
          /\ Abstract!Rank("UPLOAD") > Abstract!Rank(reported.phase)
      BY <1>10 DEF ToUpload, Abstract!Rank, Abstract!Measuring, Abstract!Final
    <3>2. reported' \in Abstract!Successors(reported, cancel_flag)
      BY <1>4, <2>2, <3>1
    <3> QED
      BY <1>2, <1>10, <3>2 DEF ToUpload
  <2> QED
    BY <1>10, <2>1, <2>2 DEF ToUpload
<1>11. CASE Uploaded
  BY <1>1, <1>2, <1>3, <1>11 DEF Uploaded, Abstract!Measuring
<1>12. CASE Conclude
  <2>1. reported' \in Abstract!Successors(reported, cancel_flag)
    BY <1>12 DEF Conclude, Enter, Abstract!Successors, Abstract!Concluded, Abstract!Measuring,
                 Abstract!Final
  <2> QED
    BY <1>2, <1>12, <2>1 DEF Conclude
<1> QED
  BY <1>5, <1>6, <1>7, <1>8, <1>9, <1>10, <1>11, <1>12 DEF Worker

\* The run keeps SpeedRun's promises to its caller: phases only forward, each
\* measured in its own time, and a conclusion that fits what was measured.
THEOREM RunIsImplemented == TestSpec => ImplementsRun
<1>1. TestInit => Abstract!Init
  BY DEF TestInit
<1>2. TestInv /\ [TestNext]_test_vars => [Abstract!Next]_(Abstract!run)
  <2> SUFFICES ASSUME TestInv, [TestNext]_test_vars
               PROVE  [Abstract!Next]_(Abstract!run)
    OBVIOUS
  <2>1. CASE Worker
    BY <2>1, WorkAdvances DEF Abstract!Next
  <2>2. CASE Cancel
    BY <2>2 DEF Cancel, Abstract!Next, Abstract!Cancel
  <2>3. CASE Tick \/ UNCHANGED test_vars
    BY <2>3 DEF Tick, test_vars, Abstract!run
  <2> QED
    BY <2>1, <2>2, <2>3 DEF TestNext
<1> QED
  BY <1>1, <1>2, TestInitInv, TestNextInv, PTL DEF TestSpec, ImplementsRun, Abstract!Spec

-----------------------------------------------------------------------------
(* The window.                                                             *)

\* A worker that has not given the running flag back.
Busy(w) == worker[w] \in {"created", "testing", "publishing", "clearing"}

OnlyTheHandle == \A w \in Tests : Alive(w) => thread = w

\* The flag is the busy worker's, or start_test's own.
RunningMeansBusy ==
    /\ \A w \in Tests : Busy(w) => running
    /\ ui = "starting" => running /\ \A w \in Tests : ~Busy(w)
    /\ ui = "ready" /\ running => thread # NoTest /\ Busy(thread)

WindowIsThere == ui \in {"ready", "starting", "stopping"} => window

FreedLast ==
    /\ waiter = "waiting" => ui = "gone"
    /\ freed => ui = "gone" /\ waiter # "waiting" /\ thread = NoTest

Types ==
    /\ cancel \in BOOLEAN /\ running \in BOOLEAN /\ destroying \in BOOLEAN
    /\ thread \in Tests \cup {NoTest}
    /\ progress \in Run!Progress
    /\ freed \in BOOLEAN /\ window \in BOOLEAN
    /\ ui \in {"ready", "starting", "stopping", "destroying", "gone"}
    /\ worker \in [Tests -> {"none", "created", "testing", "publishing", "clearing",
                             "posting", "exited"}]
    /\ report \in [Tests -> Run!Progress]
    /\ waiter \in {"none", "waiting", "done"}

MeterInv ==
    /\ Types
    /\ OnlyTheHandle
    /\ RunningMeansBusy
    /\ WindowIsThere
    /\ FreedLast
    /\ NoStaleReport

\* No test has the number that means none.
LEMMA NoTestIsNone == NoTest \notin Tests
  BY MeterAssumption DEF NoTest, Tests

\* What a window shows before the first report is a report.
LEMMA ZeroIsProgress == Run!ZeroProgress \in Run!Progress
  BY DEF Run!ZeroProgress, Run!Progress, Run!Phases

\* What may follow a report is a report.
LEMMA SuccessorsAreProgress ==
    ASSUME NEW old \in Run!Progress, NEW cancelled \in BOOLEAN,
           NEW next \in Run!Successors(old, cancelled)
    PROVE  next \in Run!Progress
<1> USE DEF Run!Progress, Run!Phases, Run!Measuring, Run!Final
<1>1. \A phase \in Run!Phases : [old EXCEPT !.phase = phase] \in Run!Progress
  OBVIOUS
<1>2. CASE next \in Run!Entered(old)
  BY <1>1, <1>2 DEF Run!Entered
<1>3. CASE next \in Run!Measured(old)
  BY <1>3 DEF Run!Measured
<1>4. CASE next \in Run!Concluded(old, cancelled)
  <2>1. Run!Conclusion(old, cancelled) \in Run!Phases
    BY DEF Run!Conclusion
  <2> QED
    BY <1>1, <1>4, <2>1 DEF Run!Concluded
<1> QED
  BY <1>2, <1>3, <1>4 DEF Run!Successors

\* A wait that returned: nobody is alive.
LEMMA JoinedIsAlone ==
    ASSUME MeterInv, Joined
    PROVE  \A w \in Tests : ~Alive(w) /\ ~Busy(w)
  BY NoTestIsNone DEF MeterInv, OnlyTheHandle, Joined, Alive, Busy

\* A window that is closed has nothing to free.
LEMMA MeterInitInv == Init => MeterInv
<1> SUFFICES ASSUME Init
             PROVE  MeterInv
  OBVIOUS
<1>1. Types
  BY ZeroIsProgress DEF Init, Types
<1> QED
  BY <1>1 DEF Init, MeterInv, OnlyTheHandle, RunningMeansBusy, WindowIsThere, FreedLast,
              NoStaleReport, Alive, Busy

-----------------------------------------------------------------------------
(* The steps of the UI thread, then those of a worker.                     *)

\* A message of the window procedure.
LEMMA UiKeepsInv ==
    ASSUME MeterInv,
           cancel_test \/ start_test \/ lp_speed_meter_show \/ WmDestroy \/ Unblock
    PROVE  MeterInv'
<1> USE NoTestIsNone, ZeroIsProgress
        DEF MeterInv, Types, OnlyTheHandle, RunningMeansBusy, WindowIsThere, FreedLast,
            NoStaleReport,
            Alive, Busy, shared, threads
<1>1. CASE cancel_test
  BY <1>1 DEF cancel_test
<1>2. CASE start_test
  BY <1>2 DEF start_test
<1>3. CASE lp_speed_meter_show
  BY <1>3 DEF lp_speed_meter_show
<1>4. CASE LaunchTest
  <2>1. \A w \in Tests : ~Alive(w) /\ ~Busy(w)
    BY <1>4, JoinedIsAlone DEF LaunchTest
  <2>2. CASE \E w \in Tests :
               /\ worker[w] = "none"
               /\ worker' = [worker EXCEPT ![w] = "created"]
               /\ thread' = w
               /\ UNCHANGED running
    <3>1. PICK w \in Tests : /\ worker[w] = "none"
                             /\ worker' = [worker EXCEPT ![w] = "created"]
                             /\ thread' = w
                             /\ UNCHANGED running
      BY <2>2
    <3>2. worker'[w] = "created" /\ \A v \in Tests : v # w => worker'[v] = worker[v]
      BY <3>1
    <3>3. Types'
      BY <1>4, <3>1 DEF LaunchTest
    <3>4. OnlyTheHandle' /\ RunningMeansBusy'
      BY <1>4, <2>1, <3>1, <3>2 DEF LaunchTest
    <3> QED
      BY <1>4, <3>1, <3>3, <3>4 DEF LaunchTest
  <2>3. CASE thread' = NoTest /\ running' = FALSE /\ UNCHANGED worker
    BY <1>4, <2>1, <2>3 DEF LaunchTest
  <2> QED
    BY <1>4, <2>2, <2>3 DEF LaunchTest
<1>5. CASE MeterShown
  BY <1>5, JoinedIsAlone DEF MeterShown
<1>6. CASE WmDestroy
  <2>1. CASE Joined
    BY <1>6, <2>1, JoinedIsAlone DEF WmDestroy
  <2>2. CASE ~Joined
    BY <1>6, <2>2 DEF WmDestroy
  <2> QED
    BY <2>1, <2>2
<1>7. CASE on_destroy_wait_complete
  BY <1>7, JoinedIsAlone DEF on_destroy_wait_complete
<1> QED
  BY <1>1, <1>2, <1>3, <1>4, <1>5, <1>6, <1>7 DEF Unblock

\* A step of a worker thread.
LEMMA WorkKeepsInv ==
    ASSUME MeterInv, NEW w \in Tests, Work(w)
    PROVE  MeterInv'
<1>1. Alive(w) /\ thread = w
  BY DEF MeterInv, OnlyTheHandle, Work, WorkerBegins, WorkerTests, WorkerPublishes, WorkerClears,
         WorkerPosts, Alive
<1> USE <1>1, NoTestIsNone
        DEF MeterInv, Types, OnlyTheHandle, RunningMeansBusy, WindowIsThere, FreedLast,
            NoStaleReport,
            Alive, Busy, shared, threads, Goto
<1>2. CASE WorkerBegins(w)
  BY <1>2 DEF WorkerBegins
<1>3. CASE WorkerTests(w)
  <2>1. PICK next \in Run!Successors(report[w], cancel) :
          /\ report' = [report EXCEPT ![w] = next]
          /\ progress' = IF window THEN next ELSE progress
          /\ Goto(w, IF next.phase \in Run!Final THEN "publishing" ELSE "testing")
    BY <1>3 DEF WorkerTests
  <2>2. next \in Run!Progress
    BY SuccessorsAreProgress
  <2>3. worker' = [worker EXCEPT ![w] = worker'[w]] /\ worker'[w] \in {"publishing", "testing"}
    BY <2>1
  <2>4. Types'
    BY <1>3, <2>1, <2>2, <2>3 DEF WorkerTests
  <2>5. OnlyTheHandle' /\ RunningMeansBusy'
    BY <1>3, <2>3 DEF WorkerTests
  <2>6. NoStaleReport'
    BY <1>3, <2>1 DEF WorkerTests
  <2> QED
    BY <1>3, <2>4, <2>5, <2>6 DEF WorkerTests
<1>4. CASE WorkerPublishes(w)
  BY <1>4 DEF WorkerPublishes
<1>5. CASE WorkerClears(w)
  BY <1>5 DEF WorkerClears
<1>6. CASE WorkerPosts(w)
  BY <1>6 DEF WorkerPosts
<1> QED
  BY <1>2, <1>3, <1>4, <1>5, <1>6 DEF Work

\* Every step of the meter keeps the invariant.
LEMMA MeterNextInv == MeterInv /\ [Next]_vars => MeterInv'
<1>1. MeterInv /\ Next => MeterInv'
  BY UiKeepsInv, WorkKeepsInv DEF Next
<1>2. MeterInv /\ UNCHANGED vars => MeterInv'
  BY DEF vars, shared, threads, MeterInv, Types, OnlyTheHandle, RunningMeansBusy, WindowIsThere,
         FreedLast, NoStaleReport, Alive, Busy
<1> QED
  BY <1>1, <1>2

\* It holds of every state of the meter.
LEMMA MeterInvHolds == Spec => []MeterInv
  BY MeterInitInv, MeterNextInv, PTL DEF Spec

-----------------------------------------------------------------------------
\* The meter's fields and its threads stay in their types, and a meter that
\* shows a running test has a worker that runs it.
THEOREM MeterTypeCorrect == Spec => []TypeOK
<1>1. MeterInv => TypeOK
  BY DEF MeterInv, Types, RunningMeansBusy, TypeOK, Busy, Alive
<1> QED
  BY <1>1, MeterInvHolds, PTL

\* The state of the window is never freed under a worker, however WM_DESTROY
\* finds it and whichever thread does the waiting.
THEOREM FreedAfterUse == Spec => []NoUseAfterFree
<1>1. MeterInv => NoUseAfterFree
  BY NoTestIsNone DEF MeterInv, FreedLast, OnlyTheHandle, NoUseAfterFree
<1> QED
  BY <1>1, MeterInvHolds, PTL

\* No two workers are ever alive: each start joins the test before.
THEOREM OneAtATime == Spec => []OneTestAtATime
<1>1. MeterInv => OneTestAtATime
  <2> SUFFICES ASSUME MeterInv
               PROVE  OneTestAtATime
    OBVIOUS
  <2> DEFINE alive == {w \in Tests : Alive(w)}
  <2>1. alive \subseteq {thread}
    BY DEF MeterInv, OnlyTheHandle
  <2>2. IsFiniteSet({thread}) /\ Cardinality({thread}) = 1
    BY FS_Singleton
  <2>3. IsFiniteSet(alive) /\ Cardinality(alive) <= Cardinality({thread})
    BY <2>1, <2>2, FS_Subset
  <2> QED
    BY <2>2, <2>3 DEF OneTestAtATime
<1> QED
  BY <1>1, MeterInvHolds, PTL

\* The display never shows the report of a test from before.
THEOREM ReportsAreFresh == Spec => []NoStaleReport
<1>1. MeterInv => NoStaleReport
  BY DEF MeterInv
<1> QED
  BY <1>1, MeterInvHolds, PTL

\* A cancelled worker is never told to go on, and the button starts a test only
\* when none is transferring.
THEOREM CancellationSticks == Spec => CancelSticks
<1> DEFINE Sticks == /\ cancel /\ ~cancel' => \A w \in Tests : ~Alive(w)
                     /\ ~running /\ running' => \A w \in Tests : ~Busy(w)
<1>1. MeterInv /\ [Next]_vars => [Sticks]_vars
  <2> SUFFICES ASSUME MeterInv, Next
               PROVE  Sticks
    OBVIOUS
  <2>1. cancel /\ ~cancel' => \A w \in Tests : ~Alive(w)
    <3> SUFFICES ASSUME cancel, ~cancel'
                 PROVE  \A w \in Tests : ~Alive(w)
      OBVIOUS
    <3>1. LaunchTest
      BY DEF Next, cancel_test, start_test, lp_speed_meter_show, WmDestroy, Unblock, MeterShown,
             on_destroy_wait_complete, Work, WorkerBegins, WorkerTests, WorkerPublishes,
             WorkerClears, WorkerPosts, shared, threads
    <3> QED
      BY <3>1, JoinedIsAlone DEF LaunchTest
  <2>2. ~running => \A w \in Tests : ~Busy(w)
    BY DEF MeterInv, RunningMeansBusy
  <2> QED
    BY <2>1, <2>2
<1>2. [Sticks]_vars =>
        [/\ cancel /\ ~cancel' => \A w \in Tests : ~Alive(w)
         /\ ~running /\ running' =>
               \A w \in Tests : worker[w] \notin {"created", "testing", "publishing", "clearing"}
        ]_vars
  BY DEF Busy
<1> QED
  BY <1>1, <1>2, MeterInitInv, MeterNextInv, PTL DEF Spec, CancelSticks
=============================================================================
