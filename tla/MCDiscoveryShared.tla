--------------------------- MODULE MCDiscoveryShared ---------------------------
(***************************************************************************)
(* One network of three addresses, this machine's own among them, and two  *)
(* requests per snapshot.  A MAC may answer for two addresses (proxy ARP)  *)
(* and addresses move between MACs; a shared MAC is blanked, so that an    *)
(* entry's identity changes from poll to poll.                             *)
(***************************************************************************)
EXTENDS DiscoveryThread

CONSTANTS own, ip1, ip2

OneNetwork == << <<ip1, own, ip2>>, << >>, <<ip1, own, ip2>> >>
OwnAddresses == {own}

CONSTANT m1

\* What rows and snapshots look like.
Given == INSTANCE NeighborSnapshot

Live(ip, mac) == [ip |-> ip, mac |-> mac, live |-> TRUE]

\* No row, one row, dead or alive, or two addresses behind one MAC.
ShortTables == {<< >>} \cup {<<row>> : row \in Given!Row}
                   \cup {<<Live(ip1, m1), Live(ip2, m1)>>}

\* Every list that may come out of a sweep, as Discovery's assumption names it.
UpTo(n, S) == UNION {[1 .. k -> S] : k \in 0 .. n}
PromisedSnapshots == {list \in UpTo(2, Neighbor) : Given!WellFormed(list)}
=============================================================================
