------------------------------ MODULE ProbeSweep ------------------------------
(***************************************************************************)
(* How the discovery thread takes a snapshot, network by network           *)
(* (lp_net_neighbor_snapshot and probe_active_subnets, platform/win32/     *)
(* discovery_win32.c): after the neighbor table it sends ARP requests to a *)
(* window of the addresses of each network this machine is on, waits for   *)
(* all of them, and lists who answered.  The window starts where the last  *)
(* one ended, whichever network that was.                                  *)
(*                                                                         *)
(* Each request has a thread of its own and a slot in an array on the      *)
(* stack.  What the wait leaves there is all that counts: the MAC of an    *)
(* answer; nothing, for an error, a thread that could not be created or    *)
(* one that has not begun; or, for a thread still asking, the slot as it   *)
(* was set up, which says NO_ERROR and a MAC of six zeros.  A thread from  *)
(* an earlier wait may still write its answer into the slot.               *)
(***************************************************************************)
EXTENDS NeighborSnapshot, FiniteSets

CONSTANTS
    Subnets,         \* the networks of the adapters: their host addresses, in order
    Own,             \* the addresses of this machine
    Tables,          \* what GetIpNetTable2 may return
    ZeroMac,         \* 00:00:00:00:00:00
    LP_ACTIVE_SCAN_MAX_PROBES,
    LP_ACTIVE_SCAN_MAX_SUBNETS

VARIABLES
    at,                     \* the network to probe next, 0 between snapshots
    out,                    \* the list being built
    g_active_probe_offset,
    probes_sent

sweep == <<at, out, g_active_probe_offset, probes_sent>>

Init ==
    /\ at = 0
    /\ out = << >>
    /\ g_active_probe_offset = 0
    /\ probes_sent = 0

-----------------------------------------------------------------------------
\* The live rows of the neighbor table come first.
ReadsTable ==
    /\ at = 0
    /\ \E table \in Tables : out' = FoldLeft(AddRow, << >>, table)
    /\ at' = 1
    /\ probes_sent' = 0
    /\ UNCHANGED g_active_probe_offset

Scanned(k) == {Subnets[j] : j \in 1 .. k - 1}

\* A network of no hosts, one that another adapter is on as well, and those
\* beyond the limit are passed over.
PassedOver(k) ==
    \/ Subnets[k] = << >>
    \/ Subnets[k] \in Scanned(k)
    \/ Cardinality(Scanned(k)) >= LP_ACTIVE_SCAN_MAX_SUBNETS

PassesOver ==
    /\ at \in DOMAIN Subnets
    /\ PassedOver(at)
    /\ at' = at + 1
    /\ UNCHANGED <<out, g_active_probe_offset, probes_sent>>

Smaller(a, b) == IF a < b THEN a ELSE b

Start(hosts) == g_active_probe_offset % Len(hosts)

\* The addresses of the window.
Candidates(hosts) ==
    [k \in 1 .. Smaller(Len(hosts), LP_ACTIVE_SCAN_MAX_PROBES) |->
        hosts[1 + ((Start(hosts) + k - 1) % Len(hosts))]]

\* Those that requests go to: not this machine's own, and no more than are
\* left for this snapshot.
Asked(hosts) ==
    LET others == {k \in DOMAIN Candidates(hosts) : Candidates(hosts)[k] \notin Own}
    IN  {k \in others :
            probes_sent + Cardinality({j \in others : j < k}) < LP_ACTIVE_SCAN_MAX_PROBES}

\* What the slots may say when the wait is over, see above; a request without
\* an answer has no MAC.
Outcomes(asked) == [asked -> Macs \cup {NoMac}]

Answers(hosts, outcome) ==
    [k \in DOMAIN Candidates(hosts) |->
        [ip |-> Candidates(hosts)[k],
         mac |-> IF k \in DOMAIN outcome THEN outcome[k] ELSE NoMac]]

\* One address: only an answer can become an entry.
AddAnswer(list, answer) ==
    IF answer.mac = NoMac THEN list ELSE append_active_neighbor(list, answer)

WithAnswers(hosts, outcome) == FoldLeft(AddAnswer, out, Answers(hosts, outcome))

\* Mistake: the offset forgets where the last window started.
Advance_FromZero(hosts, asked) == Cardinality(asked) % Len(hosts)

\* Where the next window starts.
Advance(hosts, asked) == (Start(hosts) + Cardinality(asked)) % Len(hosts)

Finished == Len(Subnets) + 1

\* One network.  A list that an answer finds full, or fills, ends the sweep
\* at once, and the next one starts at the same address again.
ProbesSubnet ==
    /\ at \in DOMAIN Subnets
    /\ ~PassedOver(at)
    /\ LET hosts == Subnets[at]
           asked == Asked(hosts)
       IN  \E outcome \in Outcomes(asked) :
             /\ out' = WithAnswers(hosts, outcome)
             /\ probes_sent' = probes_sent + Cardinality(asked)
             /\ IF (\E k \in asked : outcome[k] # NoMac)
                      /\ Len(out') >= LP_DISCOVERY_MAX_NEIGHBORS
                THEN at' = Finished /\ UNCHANGED g_active_probe_offset
                ELSE /\ g_active_probe_offset' = Advance(hosts, asked)
                     /\ at' = IF probes_sent' >= LP_ACTIVE_SCAN_MAX_PROBES THEN Finished
                              ELSE at + 1

\* The snapshot, once every network has been probed or passed over.
Snapshot == clear_ambiguous_macs(out)

Returns ==
    /\ at = Finished
    /\ at' = 0
    /\ out' = << >>
    /\ UNCHANGED <<g_active_probe_offset, probes_sent>>

Sweeps == ReadsTable \/ PassesOver \/ ProbesSubnet

-----------------------------------------------------------------------------
\* However requests, answers and late answers mix, the snapshot is what the
\* discovery core relies on: no address and no MAC twice, no more than fit.  It
\* follows that of all requests still under way at most one is listed, as a
\* device of the MAC 00:00:00:00:00:00 that nobody has.
SnapshotsAsPromised == at = Finished => WellFormed(Snapshot)

Probing(ip) ==
    /\ at \in DOMAIN Subnets
    /\ \E k \in Asked(Subnets[at]) : Candidates(Subnets[at])[k] = ip
    /\ ProbesSubnet

\* discovery_win32.c:508, "so idle devices need not be in the ARP cache": each
\* address of the one network is probed again and again, wherever this
\* machine's own address lies, unless the list keeps filling up.
EveryHostProbed ==
    \A ip \in Ips : []<><<Probing(ip)>>_sweep \/ []<>(Len(out) >= LP_DISCOVERY_MAX_NEIGHBORS)
=============================================================================
