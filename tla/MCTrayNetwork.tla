----------------------------- MODULE MCTrayNetwork -----------------------------
(* Two networks with a provider of their own and one or two devices.         *)
EXTENDS TrayNetwork, TLC

CONSTANTS home, work, phone, printer, cable, dsl

AtHome == [mac \in Macs |-> IF mac = printer THEN work ELSE home]
Providers == home :> cable @@ work :> dsl
=============================================================================
