------------------------------ MODULE MCStoreFile ------------------------------
(* One gateway and the unknown network, a device that may have been labelled *)
(* by the user and one without a MAC, files of either version to start from. *)
EXTENDS StoreFile

CONSTANTS m1, home, name, laptop, mobile, label

Report(mac, hostname, type) == [mac |-> mac, hostname |-> hostname, type |-> type, label |-> None]

Reports == {Report(m1, None, None), Report(m1, None, mobile), Report(m1, name, laptop),
            Report(None, name, None)}

Labelled == [m \in {m1} |-> [hostname |-> name, type |-> laptop, label |-> label]]

OldFile == [version |-> 1, networks |-> NoNetworks, flat |-> Labelled, whole |-> TRUE]
NewFile == Image(With(NoNetworks, home, [isp |-> None, devices |-> Labelled]), TRUE)

Starts == {NoFile, OldFile, NewFile}
=============================================================================
