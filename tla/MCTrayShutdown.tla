---------------------------- MODULE MCTrayShutdown ----------------------------
(* The tray's own six threads: there is nothing to choose. *)
EXTENDS TrayShutdown
=============================================================================
