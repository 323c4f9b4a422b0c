------------------------------ MODULE Discovery ------------------------------
(***************************************************************************)
(* The discovery core (core/discovery.c): a retained list of every         *)
(* neighbor ever seen, reconciled with one platform snapshot per poll.  A  *)
(* neighbor that appears is announced at once (JOINED); one that           *)
(* disappears is announced (LEFT) only after                               *)
(* LP_DISCOVERY_MISSING_POLLS_BEFORE_LEFT polls without it, and stays in   *)
(* the list, inactive.                                                     *)
(***************************************************************************)
EXTENDS Naturals, Sequences, SequencesExt, FiniteSets

CONSTANTS
    Ips, Macs,
    NoMac,                        \* the empty MAC string
    Snapshots,                    \* the lists lp_net_neighbor_snapshot may return
    LP_DISCOVERY_MAX_NEIGHBORS,
    LP_DISCOVERY_MAX_EVENTS,      \* the max_events the tray passes
    LP_DISCOVERY_MISSING_POLLS_BEFORE_LEFT

Neighbor == [ip : Ips, mac : Macs \cup {NoMac}]
Event == [type : {"JOINED", "LEFT"}, neighbor : Neighbor]

\* Snapshots are what NeighborSnapshot shows them to be: entries with
\* distinct addresses and distinct MACs, at most as many as the list holds.
ASSUME DiscoveryAssumption ==
    /\ NoMac \notin Macs
    /\ LP_DISCOVERY_MAX_NEIGHBORS \in Nat \ {0}
    /\ LP_DISCOVERY_MAX_EVENTS \in Nat
    /\ LP_DISCOVERY_MISSING_POLLS_BEFORE_LEFT \in Nat \ {0}
    /\ Snapshots \subseteq Seq(Neighbor)
    /\ \A current \in Snapshots :
          /\ Len(current) <= LP_DISCOVERY_MAX_NEIGHBORS
          /\ \A j, k \in DOMAIN current : j # k =>
                /\ current[j].ip # current[k].ip
                /\ current[j].mac = current[k].mac => current[j].mac = NoMac

VARIABLES
    known,          \* retained neighbors, in the order they were first seen
    active,         \* the active flag of each
    missing_polls,  \* polls in a row each has been missing for, up to the limit
    has_baseline,
    \* --- what the last call returned
    events,
    status,
    current         \* the snapshot it was given

discovery == <<known, active, missing_polls, has_baseline>>
vars == <<discovery, events, status, current>>

Init ==
    /\ known = << >>
    /\ active = << >>
    /\ missing_polls = << >>
    /\ has_baseline = FALSE
    /\ events = << >>
    /\ status = "none"
    /\ current = << >>

-----------------------------------------------------------------------------
(* Reconciling one snapshot.  A pass is the state of the loops in          *)
(* lp_discovery_poll: the list being updated, which of its old entries the *)
(* snapshot accounts for, and the events emitted so far.                   *)

\* Mistake: either identity is good enough.
neighbors_match_Either(a, b) == a.mac = b.mac \/ a.ip = b.ip

\* MACs decide when both sides have one; otherwise the addresses do.
neighbors_match(a, b) ==
    IF a.mac # NoMac /\ b.mac # NoMac THEN a.mac = b.mac ELSE a.ip = b.ip

\* The first old entry that matches, or 0.
find_known_index(list, item) ==
    SelectInSeq(list, LAMBDA entry : neighbors_match(entry, item))

\* Events beyond max_events are not written anywhere.
Emit(emitted, type, neighbor) ==
    IF Len(emitted) < LP_DISCOVERY_MAX_EVENTS
    THEN Append(emitted, [type |-> type, neighbor |-> neighbor])
    ELSE emitted

\* Mistakes: a neighbor that comes back is not announced, or every one is.
Joins_NewOnly(pass, idx) == idx = 0
Joins_Always(pass, idx) == TRUE

\* New, or not active until now.
Joins(pass, idx) == idx = 0 \/ ~pass.active[idx]

\* One item of the snapshot (lines 73-97): the entry it matches takes over
\* its address and MAC; an item without a match is appended while there is
\* room.  Either is announced unless the entry was active already or this is
\* the first poll, which only sets the baseline.
ReconcileItem(pass, item) ==
    LET idx == find_known_index(SubSeq(pass.known, 1, Len(known)), item)
        joined == IF has_baseline /\ Joins(pass, idx)
                  THEN Emit(pass.events, "JOINED", item)
                  ELSE pass.events
    IN  IF idx # 0
        THEN [known |-> [pass.known EXCEPT ![idx] = item],
              active |-> [pass.active EXCEPT ![idx] = TRUE],
              seen |-> pass.seen \cup {idx},
              events |-> joined]
        ELSE IF Len(pass.known) < LP_DISCOVERY_MAX_NEIGHBORS
             THEN [known |-> Append(pass.known, item),
                   active |-> Append(pass.active, TRUE),
                   seen |-> pass.seen \cup {Len(pass.known) + 1},
                   events |-> joined]
             ELSE [pass EXCEPT !.events = joined]

Reconciled(snapshot) ==
    FoldLeft(ReconcileItem,
             [known |-> known, active |-> active, seen |-> {}, events |-> << >>],
             snapshot)

\* An entry the snapshot misses for the last time it may (lines 106-121).
GivenUp(pass, idx) ==
    /\ idx \notin pass.seen
    /\ missing_polls[idx] + 1 >= LP_DISCOVERY_MISSING_POLLS_BEFORE_LEFT

Departs(pass, idx) == GivenUp(pass, idx) /\ pass.active[idx]

\* Mistake: only one of them is announced.
WithDepartures_OnlyOne(pass) ==
    LET leaving == {idx \in DOMAIN known : Departs(pass, idx)}
    IN  IF leaving # {} /\ has_baseline
        THEN Emit(pass.events, "LEFT", pass.known[CHOOSE idx \in leaving : TRUE])
        ELSE pass.events

\* One old entry of the second loop, for the events.
EmitLeft(emitted, entry) ==
    IF entry.departs THEN Emit(emitted, "LEFT", entry.neighbor) ELSE emitted

\* The entries announced as gone, in list order, after the joined ones.
WithDepartures(pass) ==
    FoldLeft(EmitLeft,
             pass.events,
             [idx \in DOMAIN known |-> [neighbor |-> pass.known[idx],
                                        departs |-> Departs(pass, idx) /\ has_baseline]])

\* Mistakes: a counter without limit, and one that a return does not reset.
MissingAfter_Unbounded(pass, idx) == IF idx \in pass.seen THEN 0 ELSE missing_polls[idx] + 1

MissingAfter_NotReset(pass, idx) ==
    IF idx \notin DOMAIN missing_polls THEN 0
    ELSE IF idx \in pass.seen \/ GivenUp(pass, idx) THEN missing_polls[idx]
    ELSE missing_polls[idx] + 1

\* The counter of a given-up entry stays where it is, so it is given up again
\* in every poll that misses it.
MissingAfter(pass, idx) ==
    CASE idx \in pass.seen -> 0
      [] GivenUp(pass, idx) -> missing_polls[idx]
      [] OTHER -> missing_polls[idx] + 1

PollWith(snapshot) ==
    LET pass == Reconciled(snapshot)
        entries == DOMAIN pass.known
    IN  /\ known' = pass.known
        /\ active' = [idx \in entries |-> pass.active[idx] /\ ~GivenUp(pass, idx)]
        /\ missing_polls' = [idx \in entries |-> MissingAfter(pass, idx)]
        /\ has_baseline' = TRUE
        /\ events' = WithDepartures(pass)
        /\ status' = "ok"
        /\ current' = snapshot

Poll == \E snapshot \in Snapshots : PollWith(snapshot)

\* snapshot_fn fails: no events, nothing learned, nothing missed.
PollFails ==
    /\ events' = << >>
    /\ status' = "snapshot_failed"
    /\ UNCHANGED <<discovery, current>>

Next == Poll \/ PollFails

Spec == Init /\ [][Next]_vars

-----------------------------------------------------------------------------
\* The arrays stay parallel, within capacity, and the miss counter stays
\* below the limit (the write index of lines 101-128).
TypeOK ==
    /\ known \in Seq(Neighbor)
    /\ Len(known) <= LP_DISCOVERY_MAX_NEIGHBORS
    /\ active \in [DOMAIN known -> BOOLEAN]
    /\ missing_polls \in [DOMAIN known -> 0 .. LP_DISCOVERY_MISSING_POLLS_BEFORE_LEFT - 1]
    /\ has_baseline \in BOOLEAN
    /\ events \in Seq(Event)
    /\ Len(events) <= LP_DISCOVERY_MAX_EVENTS

\* Every device of the last snapshot has an active entry with exactly its
\* address and MAC, unless the list is full: an item never overwrites the
\* entry of another item of its snapshot, whatever the entries held before.
SnapshotShown ==
    status = "ok" /\ Len(known) < LP_DISCOVERY_MAX_NEIGHBORS =>
        \A item \in ToSet(current) : \E idx \in DOMAIN known : known[idx] = item /\ active[idx]

EventsOf(type) == {k \in DOMAIN events : events[k].type = type}
=============================================================================
