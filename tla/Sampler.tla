------------------------------- MODULE Sampler -------------------------------
(***************************************************************************)
(* The bandwidth sampler (core/sampler.c): every poll takes a snapshot of  *)
(* the interface counters, resolves the interfaces the configuration       *)
(* selects, turns each one's counter into a delta since its own last poll, *)
(* and appends one rate sample to the rolling history.                     *)
(*                                                                         *)
(* Around it runs an environment the sampler does not control: interfaces  *)
(* carry traffic, are reset, appear and disappear, the default route       *)
(* moves and the monotonic clock ticks -- also between the snapshot and    *)
(* the default-route lookup, which are two system calls of one poll.       *)
(***************************************************************************)
EXTENDS HistoryCapacity, Integers, FiniteSets, FiniteSetsExt, Functions

CONSTANTS
    Ifaces,           \* interface names
    Loopback,         \* those with is_loopback
    Virtual,          \* those with is_virtual
    NoIface,          \* the default-route lookup fails
    Routes,           \* the answers the default-route lookup may give
    Dirs,             \* the counters of an interface: rx and tx
    Configs,          \* the configurations considered, see Config
    NS_PER_SEC,       \* ticks of the clock in a second
    ZeroSample,
    LP_SAMPLER_MAX_TRACKED_IFACES,
    MAX_BYTES,        \* bound on every byte counter, real or observed
    MAX_CLOCK         \* bound on the clock

Config == [mode : {"AUTO", "MANUAL", "ALL"},
           iface_name : Ifaces,
           include_virtual : BOOLEAN]

ASSUME SamplerAssumption ==
    /\ IsFiniteSet(Ifaces)
    /\ Loopback \subseteq Ifaces
    /\ Virtual \subseteq Ifaces
    /\ NoIface \notin Ifaces
    /\ Routes \subseteq Ifaces \cup {NoIface}
    /\ IsFiniteSet(Dirs)
    /\ Configs \subseteq Config
    /\ NS_PER_SEC \in Nat \ {0}
    /\ LP_SAMPLER_MAX_TRACKED_IFACES \in Nat \ {0}
    /\ MAX_BYTES \in Nat
    /\ MAX_CLOCK \in Nat

Counters == [Dirs -> Nat]
Sample == [rate : Counters, timestamp_ns : Nat]

VARIABLES
    \* --- the environment
    present,          \* interfaces the platform lists
    counter,          \* cumulative bytes of each interface, as the OS reports them
    default_route,    \* owner of the default route, or NoIface
    clock,            \* lp_clock_monotonic_ns
    \* --- lp_sampler_t, and the snapshot a poll in progress holds
    config,
    targets,          \* baseline counters of the tracked interfaces, by name
    last_poll_timestamp_ns,
    history, history_head, history_count,
    list,             \* snapshot of the poll in progress: name -> counters, or NoList
    status,           \* what the last poll returned
    \* --- what really happened, for stating properties; the sampler never reads it
    flow,             \* bytes carried since the snapshot of the last counted poll
    fresh,            \* the part of flow carried since the snapshot in progress
    measured          \* interfaces counted by the last poll that got as far as resolving

environment == <<present, counter, default_route, clock>>
ring == <<history, history_head, history_count>>
sampler == <<config, targets, last_poll_timestamp_ns, ring>>
vars == <<environment, sampler, list, status, flow, fresh, measured>>

Ring == INSTANCE HistoryRing WITH Samples <- Sample

NoList == [polling |-> FALSE]
Snapshot(counters) == [polling |-> TRUE, items |-> counters]

Zero == [d \in Dirs |-> 0]
NoFlow == [i \in Ifaces |-> Zero]
NoTargets == [i \in {} |-> Zero]

\* lp_sampler_init: everything zero, the configuration copied.
Init ==
    /\ present \in SUBSET Ifaces
    /\ counter = NoFlow
    /\ default_route \in Routes
    /\ clock = 0
    /\ config \in Configs
    /\ targets = NoTargets
    /\ last_poll_timestamp_ns = 0
    /\ Ring!Init
    /\ list = NoList
    /\ status = "none"
    /\ flow = NoFlow
    /\ fresh = NoFlow
    /\ measured = {}

-----------------------------------------------------------------------------
(* The environment.                                                        *)

Traffic(i, d) ==
    /\ i \in present
    /\ counter[i][d] < MAX_BYTES /\ flow[i][d] < MAX_BYTES
    /\ counter' = [counter EXCEPT ![i][d] = @ + 1]
    /\ flow' = [flow EXCEPT ![i][d] = @ + 1]
    /\ fresh' = [fresh EXCEPT ![i][d] = IF list = NoList THEN @ ELSE @ + 1]
    /\ UNCHANGED <<present, default_route, clock, sampler, list, status, measured>>

\* A driver restarts a counter at zero (adapter reset or replaced).
CounterReset(i, d) ==
    /\ counter[i][d] > 0
    /\ counter' = [counter EXCEPT ![i][d] = 0]
    /\ UNCHANGED <<present, default_route, clock, sampler, list, status, flow, fresh, measured>>

PlugOrUnplug(i) ==
    /\ present' = IF i \in present THEN present \ {i} ELSE present \cup {i}
    /\ UNCHANGED <<counter, default_route, clock, sampler, list, status, flow, fresh, measured>>

RouteChange(r) ==
    /\ r # default_route
    /\ default_route' = r
    /\ UNCHANGED <<present, counter, clock, sampler, list, status, flow, fresh, measured>>

Tick ==
    /\ clock < MAX_CLOCK
    /\ clock' = clock + 1
    /\ UNCHANGED <<present, counter, default_route, sampler, list, status, flow, fresh, measured>>

-----------------------------------------------------------------------------
(* One poll: the snapshot, then the resolution and the sample.             *)

Polling == list.polling

TakeSnapshot ==
    /\ ~Polling
    /\ list' = Snapshot([i \in present |-> counter[i]])
    /\ fresh' = NoFlow
    /\ UNCHANGED <<environment, sampler, status, flow, measured>>

\* snapshot_fn fails: the poll returns its status and nothing else changes.
SnapshotFails ==
    /\ ~Polling
    /\ status' = "snapshot_failed"
    /\ UNCHANGED <<environment, sampler, list, flow, fresh, measured>>

Listed == DOMAIN list.items

\* The one interface AUTO and MANUAL follow; AUTO asks again on every poll.
SingleTarget == IF config.mode = "MANUAL" THEN config.iface_name ELSE default_route

\* The interfaces whose deltas this poll adds up.
Selected ==
    IF config.mode = "ALL"
    THEN {i \in Listed \ Loopback : i \in Virtual => config.include_virtual}
    ELSE Listed \cap {SingleTarget}

Resolved == config.mode = "ALL" \/ SingleTarget \in Listed

\* Mistake: an interface without a baseline counts from zero.
Delta_FromZero(i, d) ==
    LET baseline == IF i \in DOMAIN targets THEN targets[i][d] ELSE 0
    IN  IF list.items[i][d] >= baseline THEN list.items[i][d] - baseline ELSE 0

\* Bytes since the interface's own baseline: nothing for a new interface, and
\* nothing for a direction whose counter went down.
Delta(i, d) ==
    IF i \in DOMAIN targets /\ list.items[i][d] >= targets[i][d]
    THEN list.items[i][d] - targets[i][d]
    ELSE 0

DeltaSum(d) == SumFunction([i \in Selected |-> Delta(i, d)])

\* Mistake: always rounding up.
bytes_per_sec_RoundedUp(delta_bytes, elapsed_ns) ==
    IF elapsed_ns = 0 THEN 0 ELSE (delta_bytes * NS_PER_SEC) \div elapsed_ns + 1

\* Rounded to the nearest byte per second; 0 when the clock has not moved.
bytes_per_sec(delta_bytes, elapsed_ns) ==
    IF elapsed_ns = 0
    THEN 0
    ELSE (2 * delta_bytes * NS_PER_SEC + elapsed_ns) \div (2 * elapsed_ns)

\* Interfaces that enter the table in this poll.  The list's order, which is
\* the platform's, decides which ones when the table cannot hold them all; a
\* vanished interface still occupies its entry at this point.
Room == LP_SAMPLER_MAX_TRACKED_IFACES - Cardinality(DOMAIN targets)
Admissions ==
    LET new == Selected \ DOMAIN targets
    IN  IF Cardinality(new) <= Room THEN {new} ELSE kSubset(Room, new)

\* evict_untracked_targets: only interfaces counted in this poll stay tracked.
evict_untracked_targets(tracked) == tracked \cap Selected

RecordSample ==
    /\ Polling /\ Resolved
    /\ \E admitted \in Admissions :
          targets' = [i \in evict_untracked_targets(DOMAIN targets \cup admitted)
                            |-> IF i \in Selected THEN list.items[i] ELSE targets[i]]
    /\ LET elapsed == clock - last_poll_timestamp_ns
       IN  Ring!push_history([rate |-> [d \in Dirs |-> bytes_per_sec(DeltaSum(d), elapsed)],
                              timestamp_ns |-> clock])
    /\ last_poll_timestamp_ns' = clock
    /\ status' = "ok"
    /\ list' = NoList
    /\ flow' = fresh
    /\ fresh' = NoFlow
    /\ measured' = Selected
    /\ UNCHANGED <<environment, config>>

\* Mistake: the old baselines survive a failed resolution.
targets_after_failed_resolution_Kept == targets

\* Baselines kept when the target could not be resolved: none.
targets_after_failed_resolution == NoTargets

\* No default route, or the target is not listed: every baseline is dropped,
\* and the time of the last counted poll stays as it is.
ResolveFails ==
    /\ Polling /\ ~Resolved
    /\ targets' = targets_after_failed_resolution
    /\ status' = "not_found"
    /\ list' = NoList
    /\ fresh' = NoFlow
    /\ measured' = {}
    /\ UNCHANGED <<environment, config, last_poll_timestamp_ns, ring, flow>>

-----------------------------------------------------------------------------
Next ==
    \/ \E i \in Ifaces, d \in Dirs : Traffic(i, d) \/ CounterReset(i, d)
    \/ \E i \in Ifaces : PlugOrUnplug(i)
    \/ \E r \in Routes : RouteChange(r)
    \/ Tick
    \/ TakeSnapshot
    \/ SnapshotFails
    \/ RecordSample
    \/ ResolveFails

Spec == Init /\ [][Next]_vars

-----------------------------------------------------------------------------
(* Properties.                                                             *)

ListOK ==
    \/ list = NoList
    \/ \E shown \in SUBSET Ifaces : list \in [polling : {TRUE}, items : [shown -> Counters]]

\* The target table never holds more entries than its array has (line 89).
TableOK ==
    \E tracked \in SUBSET Ifaces :
        /\ targets \in [tracked -> Counters]
        /\ Cardinality(tracked) <= LP_SAMPLER_MAX_TRACKED_IFACES

\* Everything but the history.
StateOK ==
    /\ present \subseteq Ifaces
    /\ counter \in [Ifaces -> Counters]
    /\ default_route \in Routes
    /\ clock \in Nat
    /\ config \in Configs
    /\ TableOK
    /\ last_poll_timestamp_ns \in 0 .. clock
    /\ ListOK
    /\ status \in {"none", "ok", "snapshot_failed", "not_found"}
    /\ flow \in [Ifaces -> Counters]
    /\ fresh \in [Ifaces -> Counters]
    /\ measured \subseteq Ifaces

\* Types of the environment, the sampler and the observation variables, with
\* the capacity of the target table and the shape of the history ring.
TypeOK == StateOK /\ Ring!TypeOK

\* The delta an interface contributes to a sample never exceeds the bytes it
\* really carried between the snapshot of the last counted poll and this one,
\* which is the period the sample's rate is spread over.  Resets, unplugging,
\* route changes and failed polls may hide bytes, they never invent any.
\* (accumulate_target_delta, evict_untracked_targets, lines 84-128.)
NoPhantomBytes ==
    Polling => \A i \in Listed, d \in Dirs : Delta(i, d) <= flow[i][d] - fresh[i][d]

\* sampler.h:87, "a rate needs two samples": an interface adds bytes to a
\* rate only if the previous resolution counted it as well.  A failed
\* resolution, a change of route or an unplugged adapter in between breaks the
\* chain; a snapshot that failed before resolving does not.
RateNeedsTwoSamples ==
    [][RecordSample => \A i \in Selected, d \in Dirs : Delta(i, d) > 0 => i \in measured]_vars

\* Two neighbouring samples of the history describe real traffic: the newer
\* rate, spread back over the time between their timestamps, gives no more
\* bytes than flowed in that time (half a byte per second of rounding aside).
\* (bytes_per_sec and last_poll_timestamp_ns, lines 55-62 and 207-214, with
\* polls that failed in between.)
HistoryIntegrates ==
    [][\A d \in Dirs : RecordSample /\ history_count > 0 =>
          LET older == Ring!lp_sampler_history(1)[1]
              newer == history'[Ring!NextSlot]
              gap == newer.timestamp_ns - older.timestamp_ns
              carried == SumFunction([i \in Ifaces |-> flow[i][d] - fresh[i][d]])
          IN  2 * newer.rate[d] * gap <= 2 * NS_PER_SEC * carried + gap]_vars

\* Asking for fewer samples than the history holds returns the newest of them
\* (lp_sampler_history, sampler.c:220-235).
ShortReadIsNewest == Ring!ShortReadIsNewest

\* What a reader of the whole history sees is an append-only log, and what a poll
\* does to it is to record one sample, which is then the newest (push_history,
\* sampler.c:41-52, read through lp_sampler_history).
HistoryIsLog == [][UNCHANGED ring \/ Ring!Log!Record(Ring!lp_sampler_history(1)'[1])]_vars

\* The table is large enough whenever it can be: if the interfaces counted by
\* the previous poll and by this one fit in it together, every interface of
\* this poll is tracked afterwards and counts from the next poll on.
TracksWhatFits ==
    [][RecordSample /\ Cardinality(measured \cup Selected) <= LP_SAMPLER_MAX_TRACKED_IFACES
            => DOMAIN targets' = Selected]_vars

=============================================================================
