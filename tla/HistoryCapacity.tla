---------------------------- MODULE HistoryCapacity ----------------------------
(* How many samples a sampler keeps (linkpulse/sampler.h), for the modules     *)
(* that keep, promise or use them.                                             *)
EXTENDS Naturals

CONSTANT LP_SAMPLER_HISTORY_CAP    \* number of slots of the rolling history

ASSUME CapAssumption == LP_SAMPLER_HISTORY_CAP \in Nat \ {0}
=============================================================================
