----------------------------- MODULE MCSpeedTest -----------------------------
(* Two latency probes, two attempts, a phase of two ticks, uploads of two    *)
(* chunks; downloads may be of any length.                                   *)
EXTENDS SpeedTest
=============================================================================
