------------------------------ MODULE SpeedTest ------------------------------
(***************************************************************************)
(* lp_speedtest_run (platform/win32/speedtest_win32.c): latency probes,    *)
(* then download requests, then upload requests, against a server and a    *)
(* link that may refuse, stall, truncate or reject any of them, while the  *)
(* caller may set the cancel flag between any two steps.                   *)
(*                                                                         *)
(* Byte counts are reduced to none or some, which is all the control looks *)
(* at, and time to ticks since the phase started counting.                 *)
(***************************************************************************)
EXTENDS Naturals

CONSTANTS
    LP_SPEEDTEST_LATENCY_PROBES,
    LP_SPEEDTEST_MAX_ATTEMPTS,
    PHASE_TICKS,      \* LP_SPEEDTEST_PHASE_NS
    UPLOAD_CHUNKS     \* chunks in LP_SPEEDTEST_UPLOAD_BYTES

ASSUME SpeedTestAssumption ==
    /\ LP_SPEEDTEST_LATENCY_PROBES \in Nat \ {0}
    /\ LP_SPEEDTEST_MAX_ATTEMPTS \in Nat \ {0}
    /\ PHASE_TICKS \in Nat \ {0}
    /\ UPLOAD_CHUNKS \in Nat \ {0}

VARIABLES
    pc,
    cancel_flag,     \* *request->cancel_flag
    reported,
    probes,          \* latency probes made
    sampled,         \* sample_count > 0
    failures,        \* failed requests in a row in the current phase
    body,            \* body_bytes > 0 for the current response
    total,           \* total_bytes > 0 in the current phase
    started,         \* started_ns has been set
    elapsed,         \* time since started_ns, at most PHASE_TICKS
    stop,
    remaining,       \* chunks of the current upload not yet written
    \* --- for stating properties
    late_requests    \* requests opened since the flag was set, at most 2

loop == <<probes, sampled, failures, body, total, started, elapsed, stop, remaining>>
test_vars == <<pc, cancel_flag, reported, loop, late_requests>>

Abstract == INSTANCE SpeedRun WITH cancel <- cancel_flag, progress <- reported

TestInit ==
    /\ Abstract!Init
    /\ pc = "connect"
    /\ probes = 0 /\ sampled = FALSE
    /\ failures = 0 /\ body = FALSE /\ total = FALSE
    /\ started = FALSE /\ elapsed = 0 /\ stop = FALSE
    /\ remaining = 0
    /\ late_requests = 0

Later(count) == IF cancel_flag /\ count < 2 THEN count + 1 ELSE count

Enter(phase) == reported' = [reported EXCEPT !.phase = phase]
Measure == reported' = [reported EXCEPT !.measured = @ \cup {reported.phase}]

\* The locals of measure_download and measure_upload when a phase begins.
FreshPhase(clock_runs) ==
    /\ failures' = 0 /\ body' = FALSE /\ total' = FALSE /\ stop' = FALSE
    /\ started' = clock_runs /\ elapsed' = 0
    /\ UNCHANGED <<probes, sampled, remaining>>

-----------------------------------------------------------------------------
\* WinHttpOpen and WinHttpConnect.
Connect ==
    /\ pc = "connect"
    /\ \/ Enter("LATENCY") /\ pc' = "latency"
       \/ Enter("FAILED") /\ pc' = "done"
    /\ UNCHANGED <<cancel_flag, loop, late_requests>>

\* measure_latency, the head of its loop: the flag, then one more probe; after
\* the last one the median, if any probe was answered.
NextProbe ==
    /\ pc = "latency"
    /\ IF probes < LP_SPEEDTEST_LATENCY_PROBES
       THEN /\ pc' = IF cancel_flag THEN "to_download" ELSE "probe"
            /\ UNCHANGED reported
       ELSE /\ pc' = "to_download"
            /\ IF sampled THEN Measure ELSE UNCHANGED reported
    /\ UNCHANGED <<cancel_flag, loop, late_requests>>

Probe ==
    /\ pc = "probe"
    /\ probes' = probes + 1
    /\ \E answered \in BOOLEAN : sampled' = (sampled \/ answered)
    /\ late_requests' = Later(late_requests)
    /\ pc' = "latency"
    /\ UNCHANGED <<cancel_flag, reported, failures, body, total, started, elapsed, stop,
                   remaining>>

-----------------------------------------------------------------------------
\* The second phase, unless cancelled; its clock starts with the first bytes.
ToDownload ==
    /\ pc = "to_download"
    /\ \/ cancel_flag /\ pc' = "to_upload" /\ UNCHANGED <<reported, loop>>
       \/ ~cancel_flag /\ Enter("DOWNLOAD") /\ FreshPhase(FALSE) /\ pc' = "download"
    /\ UNCHANGED <<cancel_flag, late_requests>>

\* Mistake: requests that ignore the flag.
MayRequest_WhenCancelled == ~stop /\ failures < LP_SPEEDTEST_MAX_ATTEMPTS

MayRequest == ~stop /\ ~cancel_flag /\ failures < LP_SPEEDTEST_MAX_ATTEMPTS

DownloadLoop ==
    /\ pc = "download"
    /\ pc' = IF MayRequest THEN "get" ELSE "downloaded"
    /\ UNCHANGED <<cancel_flag, reported, loop, late_requests>>

\* One GET: it fails, is answered with another status, or has a body.
Get ==
    /\ pc = "get"
    /\ \/ failures' = failures + 1 /\ pc' = "download" /\ UNCHANGED body
       \/ pc' = "downloaded" /\ UNCHANGED <<failures, body>>
       \/ body' = FALSE /\ pc' = "body" /\ UNCHANGED failures
    /\ late_requests' = Later(late_requests)
    /\ UNCHANGED <<cancel_flag, reported, probes, sampled, total, started, elapsed, stop,
                   remaining>>

\* A chunk of the body arrives.  The time budget is looked at here only, and
\* the flag is not.
ReadChunk ==
    /\ pc = "body"
    /\ body' = TRUE /\ total' = TRUE /\ started' = TRUE
    /\ elapsed' = IF started THEN elapsed ELSE 0
    /\ IF started /\ elapsed >= PHASE_TICKS
       THEN stop' = TRUE /\ failures' = 0 /\ pc' = "download"
       ELSE UNCHANGED <<stop, failures, pc>>
    /\ UNCHANGED <<cancel_flag, reported, probes, sampled, remaining, late_requests>>

\* Mistake: an empty body is not a failure.
BodyEnds_EmptyIsFine ==
    /\ pc = "body"
    /\ pc' = "download" /\ failures' = 0
    /\ UNCHANGED <<cancel_flag, reported, probes, sampled, body, total, started, elapsed, stop,
                   remaining, late_requests>>

\* The body ends, or reading it fails.  A response without a single byte counts
\* as a failure; one that broke off later ends the phase with what it has.
BodyEnds ==
    /\ pc = "body"
    /\ \E read_failed \in BOOLEAN :
          IF body
          THEN IF read_failed
               THEN pc' = "downloaded" /\ UNCHANGED failures
               ELSE pc' = "download" /\ failures' = 0
          ELSE pc' = "download" /\ failures' = failures + 1
    /\ UNCHANGED <<cancel_flag, reported, probes, sampled, body, total, started, elapsed, stop,
                   remaining, late_requests>>

Downloaded ==
    /\ pc = "downloaded"
    /\ IF total /\ elapsed > 0 THEN Measure ELSE UNCHANGED reported
    /\ pc' = "to_upload"
    /\ UNCHANGED <<cancel_flag, loop, late_requests>>

-----------------------------------------------------------------------------
\* The third phase, unless cancelled; its clock starts at once.
ToUpload ==
    /\ pc = "to_upload"
    /\ \/ cancel_flag /\ pc' = "conclude" /\ UNCHANGED <<reported, loop>>
       \/ ~cancel_flag /\ Enter("UPLOAD") /\ FreshPhase(TRUE) /\ pc' = "upload"
    /\ UNCHANGED <<cancel_flag, late_requests>>

UploadLoop ==
    /\ pc = "upload"
    /\ pc' = IF MayRequest THEN "post" ELSE "uploaded"
    /\ UNCHANGED <<cancel_flag, reported, loop, late_requests>>

Post ==
    /\ pc = "post"
    /\ \/ failures' = failures + 1 /\ pc' = "upload" /\ UNCHANGED remaining
       \/ remaining' = UPLOAD_CHUNKS /\ pc' = "sending" /\ UNCHANGED failures
    /\ late_requests' = Later(late_requests)
    /\ UNCHANGED <<cancel_flag, reported, probes, sampled, body, total, started, elapsed, stop>>

\* A chunk is written; the rest of the body follows unless the time is up.
WriteChunk ==
    /\ pc = "sending"
    /\ total' = TRUE
    /\ remaining' = remaining - 1
    /\ stop' = (elapsed >= PHASE_TICKS)
    /\ pc' = CASE remaining' = 0 -> "reply"
               [] remaining' > 0 /\ stop' -> "upload"
               [] OTHER -> "sending"
    /\ failures' = IF pc' = "upload" THEN 0 ELSE failures
    /\ UNCHANGED <<cancel_flag, reported, probes, sampled, body, started, elapsed, late_requests>>

WriteFails ==
    /\ pc = "sending"
    /\ IF total
       THEN pc' = "uploaded" /\ UNCHANGED failures
       ELSE pc' = "upload" /\ failures' = failures + 1
    /\ UNCHANGED <<cancel_flag, reported, probes, sampled, body, total, started, elapsed, stop,
                   remaining, late_requests>>

\* The whole body was written: a rejection ends the phase, an acceptance or no
\* answer at all goes on with the next request.
Reply ==
    /\ pc = "reply"
    /\ \/ pc' = "uploaded" /\ UNCHANGED failures
       \/ pc' = "upload" /\ failures' = 0
    /\ UNCHANGED <<cancel_flag, reported, probes, sampled, body, total, started, elapsed, stop,
                   remaining, late_requests>>

Uploaded ==
    /\ pc = "uploaded"
    /\ IF total /\ elapsed > 0 THEN Measure ELSE UNCHANGED reported
    /\ pc' = "conclude"
    /\ UNCHANGED <<cancel_flag, loop, late_requests>>

\* Mistake: what was measured hides the cancellation.
Conclude_Measured ==
    /\ pc = "conclude"
    /\ Enter(IF reported.measured # {} THEN "DONE" ELSE "FAILED")
    /\ pc' = "done"
    /\ UNCHANGED <<cancel_flag, loop, late_requests>>

\* The flag is read once more: it turns a complete run into a cancelled one.
Conclude ==
    /\ pc = "conclude"
    /\ Enter(Abstract!Conclusion(reported, cancel_flag))
    /\ pc' = "done"
    /\ UNCHANGED <<cancel_flag, loop, late_requests>>

-----------------------------------------------------------------------------
\* The caller, at any time.
Cancel ==
    /\ ~cancel_flag
    /\ cancel_flag' = TRUE
    /\ UNCHANGED <<pc, reported, loop, late_requests>>

\* Time passes while a request is under way.
Tick ==
    /\ started /\ elapsed < PHASE_TICKS
    /\ elapsed' = elapsed + 1
    /\ UNCHANGED <<pc, cancel_flag, reported, probes, sampled, failures, body, total, started,
                   stop, remaining, late_requests>>

Worker ==
    \/ Connect \/ NextProbe \/ Probe
    \/ ToDownload \/ DownloadLoop \/ Get \/ ReadChunk \/ BodyEnds \/ Downloaded
    \/ ToUpload \/ UploadLoop \/ Post \/ WriteChunk \/ WriteFails \/ Reply \/ Uploaded
    \/ Conclude

TestNext == Worker \/ Cancel \/ Tick

TestSpec == TestInit /\ [][TestNext]_test_vars

\* Every WinHTTP call returns (the session has timeouts) and time goes by.
FairTestSpec == TestSpec /\ WF_test_vars(Worker) /\ WF_test_vars(Tick)

-----------------------------------------------------------------------------
\* Types and ranges of the run's state.
TestTypeOK ==
    /\ pc \in {"connect", "latency", "probe", "to_download", "download", "get", "body",
               "downloaded", "to_upload", "upload", "post", "sending", "reply", "uploaded",
               "conclude", "done"}
    /\ cancel_flag \in BOOLEAN
    /\ reported \in Abstract!Progress
    /\ probes \in 0 .. LP_SPEEDTEST_LATENCY_PROBES
    /\ failures \in 0 .. LP_SPEEDTEST_MAX_ATTEMPTS
    /\ sampled \in BOOLEAN /\ body \in BOOLEAN /\ total \in BOOLEAN
    /\ started \in BOOLEAN /\ stop \in BOOLEAN
    /\ elapsed \in 0 .. PHASE_TICKS
    /\ remaining \in 0 .. UPLOAD_CHUNKS
    /\ late_requests \in 0 .. 2

\* Once cancelled, a run opens at most the one request it had already decided
\* on; whatever phase it is in, it starts no other and never a later phase's
\* (is_cancelled in lines 117, 192, 287, 393 and 396).
StopsRequesting == late_requests <= 1

\* A run ends, whatever the server does: refused requests, empty bodies,
\* bodies that break off, uploads nobody answers, a link too slow or too fast.
RunEnds == <>(pc = "done")

\* The run keeps what its callers are told about progress (SpeedRun).
ImplementsRun == Abstract!Spec
=============================================================================
