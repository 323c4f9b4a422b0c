----------------------------- MODULE MCSpeedMeter -----------------------------
(* Three tests: the meter is handed from one test to the next, and on.       *)
EXTENDS SpeedMeter
=============================================================================
