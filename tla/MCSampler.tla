------------------------------- MODULE MCSampler -------------------------------
(***************************************************************************)
(* A small instance of Sampler: two interfaces, one of them virtual, three *)
(* points in time and every way of choosing what to count.                 *)
(***************************************************************************)
EXTENDS Sampler

CONSTANTS a, c

Modes == [mode : {"AUTO", "MANUAL"}, iface_name : {a}, include_virtual : {FALSE}]
            \cup [mode : {"ALL"}, iface_name : {a}, include_virtual : BOOLEAN]

ZeroRates == [rate |-> [d \in Dirs |-> 0], timestamp_ns |-> 0]
=============================================================================
