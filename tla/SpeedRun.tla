------------------------------- MODULE SpeedRun -------------------------------
(***************************************************************************)
(* What lp_speedtest_run promises its caller (speedtest.h): the reported   *)
(* progress walks forward through the phases, each phase may add its own   *)
(* measurement and no other, and the run concludes as cancelled, done or   *)
(* failed.  SpeedTest implements it; the worker of SpeedMeter relies on it. *)
(***************************************************************************)
EXTENDS Naturals

\* lp_speedtest_phase_t; the three middle ones are the ones that measure.
Measuring == {"LATENCY", "DOWNLOAD", "UPLOAD"}
Final == {"DONE", "FAILED", "CANCELLED"}
Phases == {"IDLE"} \cup Measuring \cup Final

Rank(phase) ==
    CASE phase = "IDLE" -> 0
      [] phase = "LATENCY" -> 1
      [] phase = "DOWNLOAD" -> 2
      [] phase = "UPLOAD" -> 3
      [] OTHER -> 4

\* lp_speedtest_progress_t: the phase, and which has_ flags are set.
Progress == [phase : Phases, measured : SUBSET Measuring]
ZeroProgress == [phase |-> "IDLE", measured |-> {}]

\* How a run that was not stopped earlier concludes.
Conclusion(progress, cancelled) ==
    CASE cancelled -> "CANCELLED"
      [] ~cancelled /\ progress.measured # {} -> "DONE"
      [] OTHER -> "FAILED"

VARIABLES
    cancel,     \* the caller's flag
    progress    \* what the run last reported

run == <<cancel, progress>>

Init ==
    /\ cancel = FALSE
    /\ progress = ZeroProgress

Entered(old) ==
    {[old EXCEPT !.phase = next] : next \in {p \in Measuring : Rank(p) > Rank(old.phase)}}

Measured(old) ==
    {[old EXCEPT !.measured = @ \cup {old.phase}] : phase \in {old.phase} \cap Measuring}

\* A run whose connection cannot be set up fails before any phase, cancelled
\* or not.
Concluded(old, cancelled) ==
    {[old EXCEPT !.phase = Conclusion(old, cancelled)]}
        \cup {failed \in {[old EXCEPT !.phase = "FAILED"]} : old = ZeroProgress}

\* The reports that may follow a report.
Successors(old, cancelled) ==
    IF old.phase \in Final THEN {}
    ELSE Entered(old) \cup Measured(old) \cup Concluded(old, cancelled)

Advance ==
    /\ progress' \in Successors(progress, cancel)
    /\ UNCHANGED cancel

Cancel ==
    /\ cancel' = TRUE
    /\ UNCHANGED progress

Next == Advance \/ Cancel

Spec == Init /\ [][Next]_run
=============================================================================
