----------------------------- MODULE MCConfigFile -----------------------------
(* Two processes, the name of an interface and the same with a blank behind it,*)
(* and a file that LinkPulse itself would not write.                           *)
EXTENDS ConfigFile, TLC

CONSTANTS p1, p2, wifi, padded

MCTrimmed == [n \in {wifi, NoName} |-> n] @@ (padded :> wifi)
MCCutNames == wifi :> {NoName} @@ padded :> {wifi, NoName} @@ NoName :> {}

Edited == [mode |-> "all", iface |-> padded, include_virtual |-> Junk, use_bits |-> 1,
           interval_ms |-> 0]
Starts == {Empty, Edited}

Interchangeable == Permutations({p1, p2})
=============================================================================
