------------------------------ MODULE SampleLog ------------------------------
(***************************************************************************)
(* What the rolling history of a sampler promises its readers, with no     *)
(* ring, no indices and no capacity arithmetic: the newest CAP samples, in *)
(* the order they were taken.  HistoryRing implements it.                  *)
(***************************************************************************)
EXTENDS HistoryCapacity, Sequences

CONSTANT Samples              \* the values a sample can take

VARIABLE log                  \* the retained samples, oldest first

Init == log = <<>>

\* A new sample goes to the end; when the log is full the oldest one leaves.
Record(sample) ==
    log' = Append(IF Len(log) < LP_SAMPLER_HISTORY_CAP THEN log ELSE Tail(log), sample)

Next == \E sample \in Samples : Record(sample)

Spec == Init /\ [][Next]_log
=============================================================================
