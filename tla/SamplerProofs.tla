---------------------------- MODULE SamplerProofs ----------------------------
(***************************************************************************)
(* What MCSampler checks on two interfaces, proved for every set of        *)
(* interfaces, table size, configuration and counter value: the target     *)
(* table, the adding up of the rates, and the history ring with its        *)
(* readers. What is said of a sum over the selected interfaces rests on    *)
(* the inductions of FoldFacts.                                            *)
(***************************************************************************)
EXTENDS Sampler, FiniteSetTheorems, SequenceTheorems, TLAPS

\* The byte counters of a snapshot are a function of the interfaces it lists.
LEMMA ListedCounters ==
    ASSUME ListOK, Polling
    PROVE  Listed \subseteq Ifaces /\ list.items \in [Listed -> Counters]
<1>1. list # NoList
  BY DEF Polling, NoList
<1>2. PICK shown \in SUBSET Ifaces : list \in [polling : {TRUE}, items : [shown -> Counters]]
  BY <1>1 DEF ListOK
<1>3. list.items \in [shown -> Counters]
  BY <1>2
<1> QED
  BY <1>3 DEF Listed

\* Every set of interfaces is finite.
LEMMA FiniteIfaces ==
    ASSUME NEW S \in SUBSET Ifaces
    PROVE  IsFiniteSet(S) /\ Cardinality(S) \in Nat
  BY SamplerAssumption, FS_Subset, FS_CardinalityType

-----------------------------------------------------------------------------
(* The target table.                                                       *)

\* What RecordSample does to the table, in terms of the admitted interfaces.
LEMMA TableAfterSample ==
    ASSUME StateOK, RecordSample
    PROVE  \E admitted \in Admissions :
              /\ admitted \subseteq Selected
              /\ DOMAIN targets' = (DOMAIN targets \cup admitted) \cap Selected
              /\ \A i \in DOMAIN targets' : targets'[i] = list.items[i]
<1>1. PICK admitted \in Admissions :
         targets' = [i \in evict_untracked_targets(DOMAIN targets \cup admitted)
                            |-> IF i \in Selected THEN list.items[i] ELSE targets[i]]
  BY DEF RecordSample
<1>2. admitted \subseteq Selected
  BY DEF Admissions, kSubset
<1> QED
  BY <1>1, <1>2 DEF evict_untracked_targets

\* Admission respects the capacity: table and newcomers together fit in it.
LEMMA AdmissionFits ==
    ASSUME TableOK, Selected \subseteq Ifaces, NEW admitted \in Admissions
    PROVE  /\ DOMAIN targets \cup admitted \subseteq Ifaces
           /\ Cardinality(DOMAIN targets \cup admitted) <= LP_SAMPLER_MAX_TRACKED_IFACES
<1> DEFINE new == Selected \ DOMAIN targets
<1>1. /\ DOMAIN targets \subseteq Ifaces
      /\ Cardinality(DOMAIN targets) <= LP_SAMPLER_MAX_TRACKED_IFACES
  BY DEF TableOK
<1>2. admitted \subseteq new /\ Cardinality(admitted) <= Room
  <2>1. CASE Cardinality(new) <= Room
    BY <2>1 DEF Admissions
  <2>2. CASE ~ (Cardinality(new) <= Room)
    <3>1. admitted \in kSubset(Room, new)
      BY <2>2 DEF Admissions
    <3>2. admitted \subseteq new /\ Cardinality(admitted) = Room
      BY <3>1 DEF kSubset
    <3>3. Room \in Int
      BY <1>1, FiniteIfaces, SamplerAssumption DEF Room
    <3> QED
      BY <3>2, <3>3
  <2> QED
    BY <2>1, <2>2
<1>3. /\ IsFiniteSet(DOMAIN targets) /\ IsFiniteSet(admitted)
      /\ Cardinality(DOMAIN targets) \in Nat /\ Cardinality(admitted) \in Nat
  BY <1>1, <1>2, FiniteIfaces
<1>4. Cardinality(DOMAIN targets \cup admitted)
        = Cardinality(DOMAIN targets) + Cardinality(admitted)
            - Cardinality(DOMAIN targets \cap admitted)
  BY <1>3, FS_Union
<1>5. DOMAIN targets \cap admitted = {}
  BY <1>2
<1>6. Cardinality(DOMAIN targets \cap admitted) = 0
  BY <1>5, FS_EmptySet
<1> QED
  BY <1>1, <1>2, <1>3, <1>4, <1>6, SamplerAssumption DEF Room

\* Each poll leaves the table well formed, however its lookup turns out.
LEMMA TablePreserved ==
    ASSUME StateOK, RecordSample
    PROVE  TableOK'
<1>1. PICK admitted \in Admissions :
          /\ admitted \subseteq Selected
          /\ DOMAIN targets' = (DOMAIN targets \cup admitted) \cap Selected
          /\ \A i \in DOMAIN targets' : targets'[i] = list.items[i]
  BY TableAfterSample
<1>2. Listed \subseteq Ifaces /\ list.items \in [Listed -> Counters] /\ Selected \subseteq Listed
  BY ListedCounters DEF StateOK, RecordSample, Selected
<1>3. /\ DOMAIN targets \cup admitted \subseteq Ifaces
      /\ Cardinality(DOMAIN targets \cup admitted) <= LP_SAMPLER_MAX_TRACKED_IFACES
  <2>1. TableOK /\ Selected \subseteq Ifaces
    BY <1>2 DEF StateOK
  <2> QED
    BY <2>1, AdmissionFits
<1>4. targets' \in [DOMAIN targets' -> Counters]
  <2>1. targets' = [i \in DOMAIN targets' |-> targets'[i]]
    BY DEF RecordSample
  <2> QED
    BY <1>1, <1>2, <2>1
<1>5. Cardinality(DOMAIN targets') <= Cardinality(DOMAIN targets \cup admitted)
  BY <1>1, <1>3, FiniteIfaces, FS_Subset
<1>6. Cardinality(DOMAIN targets') \in Nat /\ Cardinality(DOMAIN targets \cup admitted) \in Nat
  BY <1>1, <1>3, FiniteIfaces
<1> QED
  BY <1>1, <1>3, <1>4, <1>5, <1>6, SamplerAssumption DEF TableOK

-----------------------------------------------------------------------------
(* Types.                                                                  *)

\* The constants the sampler starts from and falls back to.
LEMMA ZeroTypes ==
    /\ NoFlow \in [Ifaces -> Counters]
    /\ NoFlow = [i \in Ifaces |-> [d \in Dirs |-> 0]]
    /\ NoTargets \in [{} -> Counters]
    /\ DOMAIN NoTargets = {}
  BY DEF NoFlow, NoTargets, Zero, Counters

\* The initial state is well typed.
LEMMA InitStateOK == Init => StateOK
<1> SUFFICES ASSUME Init PROVE StateOK
  OBVIOUS
<1>1. TableOK
  <2>1. Cardinality({}) <= LP_SAMPLER_MAX_TRACKED_IFACES
    BY FS_EmptySet, SamplerAssumption
  <2> QED
    BY <2>1, ZeroTypes DEF Init, TableOK
<1>2. ListOK
  BY DEF Init, ListOK
<1> QED
  BY <1>1, <1>2, ZeroTypes, SamplerAssumption DEF Init, StateOK

\* Every step keeps the state well typed.
LEMMA NextStateOK == StateOK /\ [Next]_vars => StateOK'
<1> SUFFICES ASSUME StateOK, [Next]_vars PROVE StateOK'
  OBVIOUS
<1>1. ASSUME NEW i \in Ifaces, NEW d \in Dirs, Traffic(i, d) PROVE StateOK'
  <2>1. /\ counter' \in [Ifaces -> Counters]
        /\ flow' \in [Ifaces -> Counters]
        /\ fresh' \in [Ifaces -> Counters]
    BY <1>1 DEF Traffic, StateOK, Counters
  <2>2. TableOK' /\ ListOK'
    BY <1>1 DEF Traffic, StateOK, TableOK, ListOK, sampler
  <2> QED
    BY <1>1, <2>1, <2>2 DEF Traffic, StateOK, sampler
<1>2. ASSUME NEW i \in Ifaces, NEW d \in Dirs, CounterReset(i, d) PROVE StateOK'
  <2>1. counter' \in [Ifaces -> Counters]
    BY <1>2 DEF CounterReset, StateOK, Counters
  <2>2. TableOK' /\ ListOK'
    BY <1>2 DEF CounterReset, StateOK, TableOK, ListOK, sampler
  <2> QED
    BY <1>2, <2>1, <2>2 DEF CounterReset, StateOK, sampler
<1>3. ASSUME NEW i \in Ifaces, PlugOrUnplug(i) PROVE StateOK'
  <2>1. TableOK' /\ ListOK'
    BY <1>3 DEF PlugOrUnplug, StateOK, TableOK, ListOK, sampler
  <2>2. present' \subseteq Ifaces
    BY <1>3 DEF PlugOrUnplug, StateOK
  <2> QED
    BY <1>3, <2>1, <2>2 DEF PlugOrUnplug, StateOK, sampler
<1>4. ASSUME NEW r \in Routes, RouteChange(r) PROVE StateOK'
  <2>1. TableOK' /\ ListOK'
    BY <1>4 DEF RouteChange, StateOK, TableOK, ListOK, sampler
  <2> QED
    BY <1>4, <2>1 DEF RouteChange, StateOK, sampler
<1>5. ASSUME Tick PROVE StateOK'
  <2>1. TableOK' /\ ListOK'
    BY <1>5 DEF Tick, StateOK, TableOK, ListOK, sampler
  <2>2. clock' \in Nat /\ last_poll_timestamp_ns' \in 0 .. clock'
    BY <1>5 DEF Tick, StateOK, sampler
  <2> QED
    BY <1>5, <2>1, <2>2 DEF Tick, StateOK, sampler
<1>6. ASSUME TakeSnapshot PROVE StateOK'
  <2>1. ListOK'
    BY <1>6 DEF TakeSnapshot, StateOK, ListOK, Snapshot
  <2>2. TableOK'
    BY <1>6 DEF TakeSnapshot, StateOK, TableOK, sampler
  <2> QED
    BY <1>6, <2>1, <2>2, ZeroTypes DEF TakeSnapshot, StateOK, sampler, environment
<1>7. ASSUME SnapshotFails PROVE StateOK'
  <2>1. TableOK' /\ ListOK'
    BY <1>7 DEF SnapshotFails, StateOK, TableOK, ListOK, sampler
  <2> QED
    BY <1>7, <2>1 DEF SnapshotFails, StateOK, sampler, environment
<1>8. ASSUME RecordSample PROVE StateOK'
  <2>1. TableOK'
    BY <1>8, TablePreserved
  <2>2. ListOK'
    BY <1>8 DEF RecordSample, ListOK
  <2>3. measured' \subseteq Ifaces
    BY <1>8, ListedCounters DEF RecordSample, StateOK, Selected
  <2>4. last_poll_timestamp_ns' \in 0 .. clock'
    BY <1>8 DEF RecordSample, StateOK, environment
  <2> QED
    BY <1>8, <2>1, <2>2, <2>3, <2>4, ZeroTypes DEF RecordSample, StateOK, environment
<1>9. ASSUME ResolveFails PROVE StateOK'
  <2>1. TableOK'
    <3>1. Cardinality({}) <= LP_SAMPLER_MAX_TRACKED_IFACES
      BY FS_EmptySet, SamplerAssumption
    <3> QED
      BY <1>9, <3>1, ZeroTypes DEF ResolveFails, targets_after_failed_resolution, TableOK
  <2>2. ListOK'
    BY <1>9 DEF ResolveFails, ListOK
  <2> QED
    BY <1>9, <2>1, <2>2, ZeroTypes DEF ResolveFails, StateOK, environment
<1>10. ASSUME UNCHANGED vars PROVE StateOK'
  <2>1. TableOK' /\ ListOK'
    BY <1>10 DEF vars, StateOK, TableOK, ListOK, sampler
  <2> QED
    BY <1>10, <2>1 DEF vars, StateOK, sampler, environment
<1> QED
  BY <1>1, <1>2, <1>3, <1>4, <1>5, <1>6, <1>7, <1>8, <1>9, <1>10 DEF Next

\* For every table size and set of interfaces, the state of a sampler is well
\* typed and the tracked interfaces fit the table (evict_untracked_targets,
\* accumulate_target_delta's capacity check).
THEOREM StateCorrect == Spec => []StateOK
  BY InitStateOK, NextStateOK, PTL DEF Spec

-----------------------------------------------------------------------------
(* No phantom bytes.  The property speaks of a snapshot and a baseline; to  *)
(* be inductive it must also say what the counters of the moment are worth *)
(* against either, because the next snapshot will read them.               *)

\* Bytes carried since the snapshot in progress are among those carried since
\* the last counted poll.
FreshIsPart(i, d) == fresh[i][d] <= flow[i][d]

\* A counter that has not fallen below the baseline is ahead of it by bytes
\* that were carried since the last counted poll.
SinceBaseline(i, d) ==
    i \in DOMAIN targets /\ counter[i][d] >= targets[i][d] =>
        counter[i][d] - targets[i][d] <= flow[i][d]

\* The same for the snapshot in progress.
SinceSnapshot(i, d) ==
    Polling /\ i \in Listed /\ counter[i][d] >= list.items[i][d] =>
        counter[i][d] - list.items[i][d] <= fresh[i][d]

\* And for the snapshot against the baseline.
BetweenThem(i, d) ==
    Polling /\ i \in Listed /\ i \in DOMAIN targets /\ list.items[i][d] >= targets[i][d] =>
        list.items[i][d] - targets[i][d] <= flow[i][d] - fresh[i][d]

Accounted(i, d) ==
    /\ FreshIsPart(i, d)
    /\ SinceBaseline(i, d)
    /\ SinceSnapshot(i, d)
    /\ BetweenThem(i, d)

AllAccounted == \A i \in Ifaces, d \in Dirs : Accounted(i, d)

BytesInv == StateOK /\ AllAccounted

\* The byte counters the invariant compares are natural numbers.
LEMMA ByteTypes ==
    ASSUME StateOK, NEW i \in Ifaces, NEW d \in Dirs
    PROVE  /\ counter[i][d] \in Nat
           /\ flow[i][d] \in Nat
           /\ fresh[i][d] \in Nat
           /\ i \in DOMAIN targets => targets[i][d] \in Nat
           /\ Polling /\ i \in Listed => list.items[i][d] \in Nat
<1>1. /\ counter[i][d] \in Nat /\ flow[i][d] \in Nat /\ fresh[i][d] \in Nat
  BY DEF StateOK, Counters
<1>2. i \in DOMAIN targets => targets[i][d] \in Nat
  BY DEF StateOK, TableOK, Counters
<1>3. ASSUME Polling, i \in Listed PROVE list.items[i][d] \in Nat
  <2>1. list.items \in [Listed -> Counters]
    BY <1>3, ListedCounters DEF StateOK
  <2> QED
    BY <1>3, <2>1 DEF Counters
<1> QED
  BY <1>1, <1>2, <1>3

\* Nothing has been carried and nothing is tracked at the start.
LEMMA InitBytesInv == Init => BytesInv
<1> SUFFICES ASSUME Init PROVE BytesInv
  OBVIOUS
<1>1. StateOK
  BY InitStateOK
<1>2. ASSUME NEW i \in Ifaces, NEW d \in Dirs PROVE Accounted(i, d)
  BY <1>2, ZeroTypes
     DEF Init, Accounted, FreshIsPart, SinceBaseline, SinceSnapshot, BetweenThem,
         Polling, NoList
<1> QED
  BY <1>1, <1>2 DEF BytesInv, AllAccounted

\* Traffic moves a counter, the bytes carried and, while a poll is under way,
\* the fresh part of them together.
LEMMA TrafficAccounted ==
    ASSUME BytesInv, NEW i \in Ifaces, NEW d \in Dirs, Traffic(i, d)
    PROVE  AllAccounted'
<1> SUFFICES ASSUME NEW j \in Ifaces, NEW e \in Dirs PROVE Accounted(j, e)'
  BY DEF AllAccounted
<1>1. Accounted(j, e) /\ StateOK
  BY DEF BytesInv, AllAccounted
<1>2. /\ targets' = targets /\ list' = list
      /\ Polling' = Polling /\ Listed' = Listed
  BY DEF Traffic, sampler, Polling, Listed
<1>3. list = NoList <=> ~Polling
  <2>1. list = NoList => ~Polling
    BY DEF Polling, NoList
  <2>2. ListOK
    BY <1>1 DEF StateOK
  <2>3. list # NoList => Polling
    BY <2>2 DEF ListOK, Polling
  <2> QED
    BY <2>1, <2>3
<1>4. CASE j = i /\ e = d
  <2>1. /\ counter'[j][e] = counter[j][e] + 1
        /\ flow'[j][e] = flow[j][e] + 1
        /\ fresh'[j][e] = IF Polling THEN fresh[j][e] + 1 ELSE fresh[j][e]
    BY <1>1, <1>3, <1>4 DEF Traffic, StateOK, Counters
  <2> QED
    BY <1>1, <1>2, <2>1, ByteTypes
       DEF Accounted, FreshIsPart, SinceBaseline, SinceSnapshot, BetweenThem
<1>5. CASE j # i \/ e # d
  <2>1. counter'[j][e] = counter[j][e] /\ flow'[j][e] = flow[j][e] /\ fresh'[j][e] = fresh[j][e]
    BY <1>1, <1>5 DEF Traffic, StateOK, Counters
  <2> QED
    BY <1>1, <1>2, <2>1
       DEF Accounted, FreshIsPart, SinceBaseline, SinceSnapshot, BetweenThem
<1> QED
  BY <1>4, <1>5

\* A counter that restarts at zero is below every baseline or level with it.
LEMMA ResetAccounted ==
    ASSUME BytesInv, NEW i \in Ifaces, NEW d \in Dirs, CounterReset(i, d)
    PROVE  AllAccounted'
<1> SUFFICES ASSUME NEW j \in Ifaces, NEW e \in Dirs PROVE Accounted(j, e)'
  BY DEF AllAccounted
<1>1. Accounted(j, e) /\ StateOK
  BY DEF BytesInv, AllAccounted
<1>2. /\ targets' = targets /\ list' = list /\ flow' = flow /\ fresh' = fresh
      /\ Polling' = Polling /\ Listed' = Listed
  BY DEF CounterReset, sampler, Polling, Listed
<1>3. counter'[j][e] = IF j = i /\ e = d THEN 0 ELSE counter[j][e]
  BY <1>1 DEF CounterReset, StateOK, Counters
<1> QED
  BY <1>1, <1>2, <1>3, ByteTypes
     DEF Accounted, FreshIsPart, SinceBaseline, SinceSnapshot, BetweenThem

\* A snapshot reads the counters as they are: it is level with them, and as
\* far from the baseline as they are.
LEMMA SnapshotAccounted ==
    ASSUME BytesInv, TakeSnapshot
    PROVE  AllAccounted'
<1> SUFFICES ASSUME NEW j \in Ifaces, NEW e \in Dirs PROVE Accounted(j, e)'
  BY DEF AllAccounted
<1>1. Accounted(j, e) /\ StateOK
  BY DEF BytesInv, AllAccounted
<1>2. targets' = targets /\ counter' = counter /\ flow' = flow /\ fresh'[j][e] = 0
  BY ZeroTypes DEF TakeSnapshot, sampler, environment
<1>3. j \in Listed' => list'.items[j][e] = counter[j][e]
  BY DEF TakeSnapshot, Listed, Snapshot
<1> QED
  BY <1>1, <1>2, <1>3, ByteTypes
     DEF Accounted, FreshIsPart, SinceBaseline, SinceSnapshot, BetweenThem

\* A counted poll turns the snapshot into the baseline of every interface it
\* keeps, and the fresh bytes into the bytes carried since that baseline.
LEMMA SampleAccounted ==
    ASSUME BytesInv, RecordSample
    PROVE  AllAccounted'
<1> SUFFICES ASSUME NEW j \in Ifaces, NEW e \in Dirs PROVE Accounted(j, e)'
  BY DEF AllAccounted
<1>1. Accounted(j, e) /\ StateOK
  BY DEF BytesInv, AllAccounted
<1>2. counter' = counter /\ flow' = fresh /\ fresh'[j][e] = 0 /\ ~Polling'
  BY ZeroTypes DEF RecordSample, environment, Polling, NoList
<1>3. j \in DOMAIN targets' =>
         Polling /\ j \in Listed /\ targets'[j][e] = list.items[j][e]
  BY <1>1, TableAfterSample DEF RecordSample, Selected
<1> QED
  BY <1>1, <1>2, <1>3, ByteTypes
     DEF Accounted, FreshIsPart, SinceBaseline, SinceSnapshot, BetweenThem

\* A poll that resolved nothing forgets every baseline.
LEMMA FailureAccounted ==
    ASSUME BytesInv, ResolveFails
    PROVE  AllAccounted'
<1> SUFFICES ASSUME NEW j \in Ifaces, NEW e \in Dirs PROVE Accounted(j, e)'
  BY DEF AllAccounted
<1>1. Accounted(j, e) /\ StateOK
  BY DEF BytesInv, AllAccounted
<1>2. /\ flow' = flow /\ fresh'[j][e] = 0 /\ ~Polling'
      /\ DOMAIN targets' = {}
  BY ZeroTypes DEF ResolveFails, targets_after_failed_resolution, Polling, NoList
<1> QED
  BY <1>1, <1>2, ByteTypes
     DEF Accounted, FreshIsPart, SinceBaseline, SinceSnapshot, BetweenThem

\* Steps that touch neither counters nor baselines nor the snapshot.
LEMMA QuietAccounted ==
    ASSUME BytesInv, UNCHANGED <<counter, targets, list, flow, fresh>>
    PROVE  AllAccounted'
  BY DEF BytesInv, AllAccounted, Accounted, FreshIsPart, SinceBaseline, SinceSnapshot,
         BetweenThem, Polling, Listed

\* Every step keeps the accounts.
LEMMA NextBytesInv == BytesInv /\ [Next]_vars => BytesInv'
<1> SUFFICES ASSUME BytesInv, [Next]_vars PROVE AllAccounted'
  BY NextStateOK DEF BytesInv
<1>1. ASSUME NEW i \in Ifaces, NEW d \in Dirs, Traffic(i, d) PROVE AllAccounted'
  BY <1>1, TrafficAccounted
<1>2. ASSUME NEW i \in Ifaces, NEW d \in Dirs, CounterReset(i, d) PROVE AllAccounted'
  BY <1>2, ResetAccounted
<1>3. ASSUME NEW i \in Ifaces, PlugOrUnplug(i) PROVE AllAccounted'
  BY <1>3, QuietAccounted DEF PlugOrUnplug, sampler
<1>4. ASSUME NEW r \in Routes, RouteChange(r) PROVE AllAccounted'
  BY <1>4, QuietAccounted DEF RouteChange, sampler
<1>5. ASSUME Tick PROVE AllAccounted'
  BY <1>5, QuietAccounted DEF Tick, sampler
<1>6. ASSUME TakeSnapshot PROVE AllAccounted'
  BY <1>6, SnapshotAccounted
<1>7. ASSUME SnapshotFails PROVE AllAccounted'
  BY <1>7, QuietAccounted DEF SnapshotFails, sampler, environment
<1>8. ASSUME RecordSample PROVE AllAccounted'
  BY <1>8, SampleAccounted
<1>9. ASSUME ResolveFails PROVE AllAccounted'
  BY <1>9, FailureAccounted
<1>10. ASSUME UNCHANGED vars PROVE AllAccounted'
  BY <1>10, QuietAccounted DEF vars, sampler, environment
<1> QED
  BY <1>1, <1>2, <1>3, <1>4, <1>5, <1>6, <1>7, <1>8, <1>9, <1>10 DEF Next

\* The delta an interface contributes to a sample is never more than what it
\* carried in the period the sample covers: for every number of interfaces,
\* table size and interleaving of polls with traffic, counter resets,
\* unplugging and route changes (accumulate_target_delta, resolve_deltas).
THEOREM NoBytesInvented == Spec => []NoPhantomBytes
<1>1. Spec => []BytesInv
  BY InitBytesInv, NextBytesInv, PTL DEF Spec
<1>2. ASSUME BytesInv PROVE NoPhantomBytes
  <2> SUFFICES ASSUME Polling, NEW i \in Listed, NEW d \in Dirs
               PROVE  Delta(i, d) <= flow[i][d] - fresh[i][d]
    BY DEF NoPhantomBytes
  <2>1. i \in Ifaces /\ StateOK
    BY <1>2, ListedCounters DEF BytesInv, StateOK
  <2>2. FreshIsPart(i, d) /\ BetweenThem(i, d)
    BY <1>2, <2>1 DEF BytesInv, AllAccounted, Accounted
  <2> QED
    BY <2>1, <2>2, ByteTypes DEF FreshIsPart, BetweenThem, Delta
<1> QED
  BY <1>1, <1>2, PTL

-----------------------------------------------------------------------------
(* Two samples.                                                            *)

\* Only interfaces counted by the previous resolution have a baseline.
TrackedWereMeasured == DOMAIN targets \subseteq measured

TableInv == StateOK /\ TrackedWereMeasured

\* Eviction in every counted poll, and the reset in every failed one, keep the
\* table from outliving what was measured.
LEMMA TableInvariance == Spec => []TableInv
<1>1. Init => TableInv
  <2>1. Init => TrackedWereMeasured
    BY ZeroTypes DEF Init, TrackedWereMeasured
  <2> QED
    BY <2>1, InitStateOK DEF TableInv
<1>2. TableInv /\ [Next]_vars => TableInv'
  <2> SUFFICES ASSUME TableInv, [Next]_vars PROVE TrackedWereMeasured'
    BY NextStateOK DEF TableInv
  <2>1. ASSUME UNCHANGED <<targets, measured>> PROVE TrackedWereMeasured'
    BY <2>1 DEF TableInv, TrackedWereMeasured
  <2>2. ASSUME NEW i \in Ifaces, NEW d \in Dirs, Traffic(i, d) \/ CounterReset(i, d)
        PROVE  TrackedWereMeasured'
    BY <2>1, <2>2 DEF Traffic, CounterReset, sampler
  <2>3. ASSUME NEW i \in Ifaces, PlugOrUnplug(i) PROVE TrackedWereMeasured'
    BY <2>1, <2>3 DEF PlugOrUnplug, sampler
  <2>4. ASSUME NEW r \in Routes, RouteChange(r) PROVE TrackedWereMeasured'
    BY <2>1, <2>4 DEF RouteChange, sampler
  <2>5. ASSUME Tick \/ TakeSnapshot \/ SnapshotFails \/ UNCHANGED vars
        PROVE  TrackedWereMeasured'
    BY <2>1, <2>5 DEF Tick, TakeSnapshot, SnapshotFails, vars, sampler
  <2>6. ASSUME RecordSample PROVE TrackedWereMeasured'
    <3>1. DOMAIN targets' \subseteq Selected
      BY <2>6, TableAfterSample DEF TableInv
    <3>2. measured' = Selected
      BY <2>6 DEF RecordSample
    <3> QED
      BY <3>1, <3>2 DEF TrackedWereMeasured
  <2>7. ASSUME ResolveFails PROVE TrackedWereMeasured'
    BY <2>7, ZeroTypes DEF ResolveFails, targets_after_failed_resolution, TrackedWereMeasured
  <2> QED
    BY <2>2, <2>3, <2>4, <2>5, <2>6, <2>7 DEF Next
<1> QED
  BY <1>1, <1>2, PTL DEF Spec

\* For every number of interfaces and table size: an interface adds bytes to a
\* rate only when the previous resolution counted it too (sampler.h:87-88).
THEOREM TwoSamples == Spec => RateNeedsTwoSamples
<1>1. TableInv /\ [Next]_vars =>
         [RecordSample => \A i \in Selected, d \in Dirs : Delta(i, d) > 0 => i \in measured]_vars
  <2> SUFFICES ASSUME TableInv, NEW i \in Selected, NEW d \in Dirs, Delta(i, d) > 0
               PROVE  i \in measured
    OBVIOUS
  <2>1. i \in DOMAIN targets
    BY DEF Delta
  <2> QED
    BY <2>1 DEF TableInv, TrackedWereMeasured
<1> QED
  BY <1>1, TableInvariance, PTL DEF Spec, RateNeedsTwoSamples

\* For every table size: as long as the interfaces of two consecutive counted
\* polls fit the table together, none of them is left without a baseline.
THEOREM NothingSqueezedOut == Spec => TracksWhatFits
<1>1. TableInv /\ [Next]_vars =>
         [RecordSample /\ Cardinality(measured \cup Selected) <= LP_SAMPLER_MAX_TRACKED_IFACES
             => DOMAIN targets' = Selected]_vars
  <2> SUFFICES ASSUME TableInv, RecordSample,
                      Cardinality(measured \cup Selected) <= LP_SAMPLER_MAX_TRACKED_IFACES
               PROVE  DOMAIN targets' = Selected
    OBVIOUS
  <2> DEFINE new == Selected \ DOMAIN targets
             old == DOMAIN targets
  <2>1. PICK admitted \in Admissions :
            /\ admitted \subseteq Selected
            /\ DOMAIN targets' = (old \cup admitted) \cap Selected
    BY TableAfterSample DEF TableInv
  <2>2. /\ old \subseteq measured /\ measured \subseteq Ifaces /\ Selected \subseteq Ifaces
        /\ new \subseteq Ifaces
        /\ old \cap new = {} /\ old \cup new \subseteq measured \cup Selected
    BY ListedCounters DEF TableInv, TrackedWereMeasured, StateOK, RecordSample, Selected
  <2>3. /\ IsFiniteSet(old) /\ IsFiniteSet(new) /\ IsFiniteSet(measured \cup Selected)
        /\ Cardinality(old) \in Nat /\ Cardinality(new) \in Nat
        /\ Cardinality(measured \cup Selected) \in Nat
    <3>1. /\ old \in SUBSET Ifaces
          /\ new \in SUBSET Ifaces /\ (measured \cup Selected) \in SUBSET Ifaces
      BY <2>2
    <3> HIDE DEF old, new
    <3> QED
      BY <3>1, FiniteIfaces
  <2>4. Cardinality(old) + Cardinality(new) <= Cardinality(measured \cup Selected)
    <3>1. Cardinality(old \cup new) = Cardinality(old) + Cardinality(new) - 0
      BY <2>2, <2>3, FS_Union, FS_EmptySet
    <3>2. Cardinality(old \cup new) <= Cardinality(measured \cup Selected)
      BY <2>2, <2>3, FS_Subset
    <3> QED
      BY <2>3, <3>1, <3>2
  <2>5. Cardinality(new) <= Room
    BY <2>3, <2>4, SamplerAssumption DEF Room
  <2>6. admitted = new
    BY <2>1, <2>5 DEF Admissions
  <2> QED
    BY <2>1, <2>6
<1> QED
  BY <1>1, TableInvariance, PTL DEF Spec, TracksWhatFits

-----------------------------------------------------------------------------
(* The history ring, for every capacity.                                   *)

N == LP_SAMPLER_HISTORY_CAP
SlotValues == Sample \cup {ZeroSample}

-----------------------------------------------------------------------------
(* Walking around the ring.                                                *)

\* What % and \div mean for natural numbers.
LEMMA DivMod ==
    ASSUME NEW n \in Nat \ {0}, NEW x \in Nat
    PROVE  /\ x \div n \in Nat
           /\ x % n \in 0 .. n - 1
           /\ x = n * (x \div n) + (x % n)
  OBVIOUS

\* A walk of less than two rounds wraps at most once (the % of lines 44, 228
\* and 231).
LEMMA WrapOnce ==
    ASSUME NEW n \in Nat \ {0}, NEW x \in 0 .. 2 * n - 1
    PROVE  x % n = IF x < n THEN x ELSE x - n
<1>1. CASE x < n
  BY <1>1
<1>2. CASE x >= n
  <2> DEFINE q == x \div n
             r == x % n
  <2>1. q \in Nat /\ r \in 0 .. n - 1 /\ x = n * q + r
    <3>1. x \in Nat
      OBVIOUS
    <3> QED
      BY <3>1, DivMod
  <2> HIDE DEF q, r
  <2>2. q # 0
    BY <2>1, <1>2
  <2>3. ~ (q >= 2)
    <3> SUFFICES ASSUME q >= 2 PROVE FALSE
      OBVIOUS
    <3>1. n * q >= n * 2
      BY <2>1
    <3> QED
      BY <3>1, <2>1
  <2>4. q = 1
    BY <2>1, <2>2, <2>3
  <2>5. r = x - n
    BY <2>1, <2>4
  <2> QED
    BY <2>5, <1>2 DEF r
<1> QED
  BY <1>1, <1>2

\* Wrap stays in the ring, and goes around it at most once for a walk of at
\* most one round (NextSlot and the indices lp_sampler_history reads).
LEMMA WrapFacts ==
    ASSUME NEW head \in Ring!Slots, NEW n \in 0 .. N
    PROVE  /\ Ring!Wrap(head, n) \in Ring!Slots
           /\ Ring!Wrap(head, n) = IF head + n < N THEN head + n ELSE head + n - N
<1>1. PICK x \in Int : x = head + n
  BY CapAssumption DEF Ring!Slots, N
<1>2. N \in Nat \ {0} /\ x \in 0 .. 2 * N - 1
  BY <1>1, CapAssumption DEF Ring!Slots, N
<1>3. x % N = IF x < N THEN x ELSE x - N
  BY <1>2, WrapOnce
<1>4. Ring!Wrap(head, n) = x % N
  BY <1>1 DEF Ring!Wrap, N
<1>5. Ring!Wrap(head, n) \in 0 .. N - 1
  BY <1>2, <1>3, <1>4
<1>6. Ring!Wrap(head, n) = IF x < N THEN x ELSE x - N
  BY <1>3, <1>4
<1> QED
  BY <1>1, <1>5, <1>6, CapAssumption DEF Ring!Slots, N

\* Two walks of at most one round in all are one walk.
LEMMA WrapTwice ==
    ASSUME NEW head \in Ring!Slots, NEW m \in 0 .. N, NEW n \in 0 .. N, m + n \in 0 .. N
    PROVE  Ring!Wrap(Ring!Wrap(head, m), n) = Ring!Wrap(head, m + n)
<1>1. /\ Ring!Wrap(head, m) \in Ring!Slots
      /\ Ring!Wrap(head, m) = IF head + m < N THEN head + m ELSE head + m - N
  BY WrapFacts
<1>2. Ring!Wrap(Ring!Wrap(head, m), n) = IF Ring!Wrap(head, m) + n < N THEN Ring!Wrap(head, m) + n
                                                        ELSE Ring!Wrap(head, m) + n - N
  BY <1>1, WrapFacts
<1>3. Ring!Wrap(head, m + n) = IF head + (m + n) < N THEN head + (m + n) ELSE head + (m + n) - N
  BY WrapFacts
<1> QED
  BY <1>1, <1>2, <1>3, CapAssumption DEF Ring!Slots, N

\* Different distances of less than a round lead to different slots.
LEMMA WrapInjective ==
    ASSUME NEW head \in Ring!Slots, NEW m \in 0 .. N - 1, NEW n \in 0 .. N - 1, m # n
    PROVE  Ring!Wrap(head, m) # Ring!Wrap(head, n)
<1>1. Ring!Wrap(head, m) = IF head + m < N THEN head + m ELSE head + m - N
  BY WrapFacts, CapAssumption DEF N
<1>2. Ring!Wrap(head, n) = IF head + n < N THEN head + n ELSE head + n - N
  BY WrapFacts, CapAssumption DEF N
<1> QED
  BY <1>1, <1>2, CapAssumption DEF Ring!Slots, N

-----------------------------------------------------------------------------
(* Reading the ring.                                                       *)

\* lp_sampler_history as a function of the ring it reads, so that the state
\* before and after a push are read with the same lemma.
Smaller(m, n) == IF m < n THEN m ELSE n

Copied(h, head, count, cap) ==
    [i \in 1 .. Smaller(count, cap) |->
        h[Ring!Wrap(Ring!Wrap(head, count - Smaller(count, cap)), i - 1)]]

\* s lists c slots in walking order, from the one skip places after the head.
Lists(s, V, h, head, skip, c) ==
    /\ s \in Seq(V)
    /\ Len(s) = c
    /\ \A i \in 1 .. c : s[i] = h[Ring!Wrap(head, skip + i - 1)]

\* A read of the ring, before or after a step, is Copied of its variables.
LEMMA HistoryIsCopied ==
    ASSUME NEW cap \in Nat
    PROVE  /\ Ring!lp_sampler_history(cap)
                = Copied(history, history_head, history_count, cap)
           /\ Ring!lp_sampler_history(cap)'
                = Copied(history', history_head', history_count', cap)
  BY DEF Ring!lp_sampler_history, Copied, Smaller

\* The i-th sample copied lies count - c + i - 1 places after the oldest one,
\* where c is the number of samples copied.
LEMMA CopiedElements ==
    ASSUME NEW V, NEW h \in [Ring!Slots -> V], NEW head \in Ring!Slots, NEW count \in 0 .. N,
           NEW cap \in Nat
    PROVE  Lists(Copied(h, head, count, cap), V, h, head,
                 count - Smaller(count, cap), Smaller(count, cap))
<1> DEFINE c == Smaller(count, cap)
           s == Copied(h, head, count, cap)
<1>1. c \in 0 .. N /\ c <= count
  BY CapAssumption DEF Smaller, N
<1>2. ASSUME NEW i \in 1 .. c
      PROVE  /\ Ring!Wrap(Ring!Wrap(head, count - c), i - 1) = Ring!Wrap(head, count - c + i - 1)
             /\ Ring!Wrap(head, count - c + i - 1) \in Ring!Slots
  <2>1. /\ count - c \in 0 .. N
        /\ i - 1 \in 0 .. N
        /\ (count - c) + (i - 1) \in 0 .. N
        /\ (count - c) + (i - 1) = count - c + i - 1
    BY <1>1, CapAssumption DEF N
  <2> HIDE DEF c
  <2>2. Ring!Wrap(Ring!Wrap(head, count - c), i - 1) = Ring!Wrap(head, (count - c) + (i - 1))
    BY <2>1, WrapTwice
  <2> QED
    BY <2>1, <2>2, WrapFacts
<1>3. s = [i \in 1 .. c |-> h[Ring!Wrap(head, count - c + i - 1)]]
  BY <1>2 DEF Copied
<1>4. s \in [1 .. c -> V]
  BY <1>2, <1>3
<1> HIDE DEF c, s
<1>5. s \in Seq(V) /\ Len(s) = c
  BY <1>1, <1>4, SeqDef, LenProperties
<1>6. \A i \in 1 .. c : s[i] = h[Ring!Wrap(head, count - c + i - 1)]
  BY <1>3
<1> QED
  BY <1>5, <1>6 DEF c, s, Lists

\* A full read starts at the oldest sample.
LEMMA FullRead ==
    ASSUME NEW V, NEW h \in [Ring!Slots -> V], NEW head \in Ring!Slots, NEW count \in 0 .. N
    PROVE  Lists(Copied(h, head, count, N), V, h, head, 0, count)
<1>1. N \in Nat /\ Smaller(count, N) = count /\ count - count = 0
  BY CapAssumption DEF N, Smaller
<1>2. Lists(Copied(h, head, count, N), V, h, head, count - Smaller(count, N), Smaller(count, N))
  BY <1>1, CopiedElements
<1> QED
  BY <1>1, <1>2

-----------------------------------------------------------------------------
(* The invariant.                                                          *)

\* The slots that hold samples are the count ones from the head on.
HeldSlotsWritten ==
    \A k \in 0 .. history_count - 1 : history[Ring!Wrap(history_head, k)] \in Sample

RingInv == Ring!TypeOK /\ HeldSlotsWritten

\* The zeroed sampler satisfies the invariant: no slot is held yet.
LEMMA RingInitInv == Ring!Init => RingInv
  BY CapAssumption DEF Ring!Init, RingInv, Ring!TypeOK, HeldSlotsWritten, Ring!Slots

\* One push keeps the ring well formed and turns the log into the log with the
\* sample appended; both follow from where the new sample lands.
LEMMA PushPreserves ==
    ASSUME RingInv, NEW sample \in Sample, Ring!push_history(sample)
    PROVE  RingInv'
<1> USE CapAssumption DEF N
<1>1. /\ Ring!TypeOK
      /\ Ring!NextSlot = Ring!Wrap(history_head, history_count) /\ Ring!NextSlot \in Ring!Slots
  BY WrapFacts DEF RingInv, Ring!TypeOK, Ring!NextSlot
<1>2. history' \in [Ring!Slots -> SlotValues] /\ history'[Ring!NextSlot] = sample
  BY <1>1 DEF Ring!push_history, Ring!TypeOK, SlotValues
<1>3. \A slot \in Ring!Slots : slot # Ring!NextSlot => history'[slot] = history[slot]
  BY <1>1 DEF Ring!push_history, Ring!TypeOK
<1>4. CASE history_count < N
  <2>1. history_count' = history_count + 1 /\ history_head' = history_head /\ history_head = 0
    BY <1>4, <1>1 DEF Ring!push_history, Ring!TypeOK
  <2>2. Ring!TypeOK'
    BY <1>1, <1>2, <1>4, <2>1 DEF Ring!TypeOK, SlotValues, Ring!Slots
  <2>3. ASSUME NEW k \in 0 .. history_count' - 1
        PROVE  history'[Ring!Wrap(history_head', k)] \in Sample
    <3>1. Ring!Wrap(0, k) = k /\ Ring!NextSlot = history_count
      <4>1. k \in 0 .. N /\ k < N /\ history_count \in 0 .. N /\ 0 \in Ring!Slots
        BY <1>1, <1>4, <2>1 DEF Ring!TypeOK, Ring!Slots
      <4>2. Ring!Wrap(0, k) = k
        BY <4>1, WrapFacts
      <4>3. Ring!Wrap(0, history_count) = history_count
        BY <4>1, <1>4, WrapFacts
      <4> QED
        BY <4>2, <4>3, <1>1, <2>1
    <3>2. CASE k = history_count
      BY <1>2, <2>1, <3>1, <3>2
    <3>3. CASE k # history_count
      <4>1. k \in 0 .. history_count - 1 /\ k \in Ring!Slots
        BY <1>1, <1>4, <2>1, <3>3 DEF Ring!TypeOK, Ring!Slots
      <4>2. history[k] \in Sample
        BY <4>1, <2>1, <3>1 DEF RingInv, HeldSlotsWritten
      <4> QED
        BY <4>1, <4>2, <1>3, <2>1, <3>1, <3>3
    <3> QED
      BY <3>2, <3>3
  <2> QED
    BY <2>2, <2>3 DEF RingInv, HeldSlotsWritten, Ring!Wrap
<1>5. CASE history_count = N
  <2>1. history_count' = N /\ history_head' = Ring!Wrap(history_head, 1)
    BY <1>5 DEF Ring!push_history
  <2>2. Ring!NextSlot = history_head
    BY <1>1, <1>5, WrapFacts DEF Ring!TypeOK, Ring!Slots
  <2>3. Ring!TypeOK'
    BY <1>1, <1>2, <2>1, WrapFacts DEF Ring!TypeOK, SlotValues
  <2>4. ASSUME NEW k \in 0 .. N - 1
        PROVE  history'[Ring!Wrap(history_head', k)] \in Sample
    <3>1. k + 1 \in 0 .. N /\ 1 \in 0 .. N /\ 1 + k = k + 1
      OBVIOUS
    <3>2. Ring!Wrap(history_head', k) = Ring!Wrap(history_head, k + 1)
      BY <3>1, <1>1, <2>1, WrapTwice DEF Ring!TypeOK
    <3>3. CASE k = N - 1
      BY <1>1, <1>2, <2>2, <3>1, <3>2, <3>3, WrapFacts DEF Ring!TypeOK, Ring!Slots
    <3>4. CASE k # N - 1
      <4>1. k + 1 \in 0 .. N - 1 /\ k + 1 # 0 /\ 0 \in 0 .. N - 1
        BY <3>4
      <4>2. Ring!Wrap(history_head, k + 1) # Ring!Wrap(history_head, 0)
        BY <4>1, <1>1, WrapInjective DEF Ring!TypeOK
      <4>3. /\ Ring!Wrap(history_head, 0) = history_head
            /\ Ring!Wrap(history_head, k + 1) \in Ring!Slots
        <5>1. /\ history_head \in Ring!Slots /\ 0 \in 0 .. N
              /\ history_head < N /\ history_head \in Int
          BY <1>1 DEF Ring!TypeOK, Ring!Slots
        <5>2. Ring!Wrap(history_head, k + 1) \in Ring!Slots
          BY <3>1, <5>1, WrapFacts
        <5>3. Ring!Wrap(history_head, 0) = history_head
          BY <5>1, WrapFacts
        <5> QED
          BY <5>2, <5>3
      <4>4. history[Ring!Wrap(history_head, k + 1)] \in Sample
        BY <4>1, <1>5 DEF RingInv, HeldSlotsWritten
      <4> QED
        BY <4>2, <4>3, <4>4, <1>3, <2>2, <3>2
    <3> QED
      BY <3>3, <3>4
  <2> QED
    BY <2>1, <2>3, <2>4 DEF RingInv, HeldSlotsWritten, Ring!Wrap
<1> QED
  BY <1>1, <1>4, <1>5 DEF Ring!TypeOK

\* One push appends to the log, dropping its oldest sample when it is full.
LEMMA PushRecords ==
    ASSUME RingInv, NEW sample \in Sample, Ring!push_history(sample)
    PROVE  Ring!Log!Record(sample)
<1> DEFINE old == Ring!lp_sampler_history(N)
           new == old'
<1>1. /\ N \in Nat \ {0}
      /\ history \in [Ring!Slots -> SlotValues]
      /\ history_head \in Ring!Slots /\ history_count \in 0 .. N
      /\ history_count < N => history_head = 0
      /\ history' \in [Ring!Slots -> SlotValues]
      /\ history_head' \in Ring!Slots /\ history_count' \in 0 .. N
  BY CapAssumption, PushPreserves DEF RingInv, Ring!TypeOK, SlotValues, N
<1>3. /\ old = Copied(history, history_head, history_count, N)
      /\ new = Copied(history', history_head', history_count', N)
  BY <1>1, HistoryIsCopied DEF Ring!lp_sampler_history, Copied, Smaller, Ring!Wrap, N
<1> HIDE DEF old, new
<1>4. /\ old \in Seq(SlotValues) /\ Len(old) = history_count
      /\ \A i \in 1 .. history_count : old[i] = history[Ring!Wrap(history_head, i - 1)]
  <2>1. Lists(old, SlotValues, history, history_head, 0, history_count)
    BY <1>1, <1>3, FullRead
  <2> QED
    BY <2>1, <1>1 DEF Lists
<1>5. /\ new \in Seq(SlotValues) /\ Len(new) = history_count'
      /\ \A i \in 1 .. history_count' : new[i] = history'[Ring!Wrap(history_head', i - 1)]
  <2>1. Lists(new, SlotValues, history', history_head', 0, history_count')
    BY <1>1, <1>3, FullRead
  <2> QED
    BY <2>1, <1>1 DEF Lists
<1>6. Ring!NextSlot = Ring!Wrap(history_head, history_count) /\ Ring!NextSlot \in Ring!Slots
  BY <1>1, WrapFacts DEF Ring!NextSlot
<1>7. /\ history'[Ring!NextSlot] = sample
      /\ \A slot \in Ring!Slots : slot # Ring!NextSlot => history'[slot] = history[slot]
  BY <1>1, <1>6 DEF Ring!push_history
<1>10. sample \in SlotValues
  BY DEF SlotValues
<1>11. CASE history_count < N
  <2>1. history_count' = history_count + 1 /\ history_head' = 0 /\ history_head = 0
    BY <1>1, <1>11 DEF Ring!push_history, N
  <2>2. \A k \in 0 .. history_count : Ring!Wrap(0, k) = k /\ k \in Ring!Slots
    BY <1>1, <1>11, <2>1, WrapFacts DEF Ring!Slots, N
  <2>3. /\ Append(old, sample) \in Seq(SlotValues)
        /\ Len(Append(old, sample)) = history_count + 1
        /\ \A i \in 1 .. history_count : Append(old, sample)[i] = old[i]
        /\ Append(old, sample)[history_count + 1] = sample
    BY <1>4, <1>10, AppendProperties
  <2>4. ASSUME NEW i \in 1 .. history_count + 1
        PROVE  new[i] = Append(old, sample)[i]
    <3>1. i - 1 \in 0 .. history_count /\ i \in 1 .. history_count' /\ Ring!NextSlot = history_count
      BY <1>1, <1>6, <2>1, <2>2
    <3>2. new[i] = history'[i - 1]
      BY <1>5, <2>1, <2>2, <3>1
    <3>3. CASE i = history_count + 1
      BY <1>1, <1>7, <2>3, <3>1, <3>2, <3>3
    <3>4. CASE i # history_count + 1
      <4>1. i \in 1 .. history_count /\ i - 1 # Ring!NextSlot /\ i - 1 \in Ring!Slots
        BY <1>1, <2>2, <3>1, <3>4
      <4> QED
        BY <1>7, <1>4, <2>1, <2>2, <2>3, <3>1, <3>2, <4>1
    <3> QED
      BY <3>3, <3>4
  <2>5. new = Append(old, sample)
    BY <1>5, <2>1, <2>3, <2>4, SeqEqual
  <2> QED
    BY <1>4, <1>11, <2>5 DEF Ring!Log!Record, old, new, N
<1>12. CASE history_count = N
  <2>1. history_count' = N /\ history_head' = Ring!Wrap(history_head, 1)
    BY <1>1, <1>12 DEF Ring!push_history, N
  <2>2. Ring!NextSlot = history_head /\ Ring!Wrap(history_head, 0) = history_head
    <3>1. history_head < N /\ history_head \in Int /\ 0 \in 0 .. N /\ N \in 0 .. N
      BY <1>1, CapAssumption DEF Ring!Slots, N
    <3>2. Ring!Wrap(history_head, N) = history_head
      <4>1. Ring!Wrap(history_head, N) = IF history_head + N < N THEN history_head + N
                                                            ELSE history_head + N - N
        BY <1>1, <3>1, WrapFacts
      <4>2. ~ (history_head + N < N) /\ history_head + N - N = history_head
        BY <1>1, <3>1 DEF Ring!Slots
      <4> QED
        BY <4>1, <4>2
    <3>3. Ring!Wrap(history_head, 0) = history_head
      BY <1>1, <3>1, WrapFacts
    <3> QED
      BY <1>6, <1>12, <3>2, <3>3
  <2>3. \A k \in 0 .. N - 1 : Ring!Wrap(history_head', k) = Ring!Wrap(history_head, k + 1)
    <3>1. \A k \in 0 .. N - 1 : k \in 0 .. N /\ 1 \in 0 .. N /\ 1 + k \in 0 .. N /\ 1 + k = k + 1
      BY <1>1
    <3> QED
      BY <1>1, <2>1, <3>1, WrapTwice
  <2>4. old # << >>
    BY <1>1, <1>4, <1>12, EmptySeq
  <2>5. /\ Tail(old) \in Seq(SlotValues)
        /\ Len(Tail(old)) = N - 1
        /\ \A i \in 1 .. N - 1 : Tail(old)[i] = old[i + 1]
    BY <1>4, <1>12, <2>4, HeadTailProperties
  <2>6. /\ Append(Tail(old), sample) \in Seq(SlotValues)
        /\ Len(Append(Tail(old), sample)) = N - 1 + 1
        /\ \A i \in 1 .. N - 1 : Append(Tail(old), sample)[i] = Tail(old)[i]
        /\ Append(Tail(old), sample)[N - 1 + 1] = sample
    BY <1>10, <2>5, AppendProperties
  <2>7. ASSUME NEW i \in 1 .. N
        PROVE  new[i] = Append(Tail(old), sample)[i]
    <3>1. i - 1 \in 0 .. N - 1 /\ i - 1 + 1 = i /\ N - 1 + 1 = N
      BY <1>1
    <3>2. new[i] = history'[Ring!Wrap(history_head, i)]
      BY <1>5, <2>1, <2>3, <3>1
    <3>3. CASE i = N
      BY <1>6, <1>7, <1>12, <2>2, <2>6, <3>1, <3>2, <3>3
    <3>4. CASE i # N
      <4>1. i \in 1 .. N - 1 /\ i \in 0 .. N /\ i # 0 /\ 0 \in 0 .. N - 1 /\ i \in 0 .. N - 1
            /\ i + 1 \in 1 .. N /\ i + 1 - 1 = i
        BY <1>1, <3>4
      <4>2. Ring!Wrap(history_head, i) # Ring!NextSlot /\ Ring!Wrap(history_head, i) \in Ring!Slots
        BY <1>1, <2>2, <4>1, WrapInjective, WrapFacts
      <4>3. history'[Ring!Wrap(history_head, i)] = old[i + 1]
        BY <1>7, <1>4, <1>12, <4>1, <4>2
      <4> QED
        BY <2>5, <2>6, <3>2, <4>1, <4>3
    <3> QED
      BY <3>3, <3>4
  <2>8. new = Append(Tail(old), sample)
    <3>1. Len(new) = Len(Append(Tail(old), sample)) /\ Len(new) = N
      BY <1>1, <1>5, <2>1, <2>6
    <3> QED
      BY <1>5, <2>6, <2>7, <3>1, SeqEqual
  <2> QED
    BY <1>1, <1>4, <1>12, <2>8 DEF Ring!Log!Record, old, new, N
<1> QED
  BY <1>1, <1>11, <1>12

-----------------------------------------------------------------------------
(* The history of a sampler.  A poll pushes one well-typed sample; what the *)
(* ring then holds, and how its rates relate to the traffic, follows.      *)

Sums == INSTANCE FoldFacts WITH Items <- Nat, Values <- Nat, Step <- +

\* A sum over fewer interfaces, of less from each, is less.
LEMMA SumsGrow ==
    ASSUME NEW S, IsFiniteSet(S), NEW R \in SUBSET S, NEW f \in [R -> Nat], NEW g \in [S -> Nat],
           \A x \in R : f[x] <= g[x]
    PROVE  /\ SumFunction(f) \in Nat /\ SumFunction(g) \in Nat
           /\ SumFunction(f) <= SumFunction(g)
<1>1. SumFunction(f) = Sums!SumFunctionOnSet(f, R)
  BY DEF SumFunction, SumFunctionOnSet, FoldFunctionOnSet, MapThenFoldSet,
         Sums!SumFunctionOnSet, Sums!FoldFunctionOnSet, Sums!MapThenFoldSet
<1>2. SumFunction(g) = Sums!SumFunctionOnSet(g, S)
  BY DEF SumFunction, SumFunctionOnSet, FoldFunctionOnSet, MapThenFoldSet,
         Sums!SumFunctionOnSet, Sums!FoldFunctionOnSet, Sums!MapThenFoldSet
<1>3. Sums!IsFiniteSet(S)
  BY DEF IsFiniteSet, Sums!IsFiniteSet
<1> QED
  BY <1>1, <1>2, <1>3, Sums!SumMonotone

\* A rate spread back over its time gives no more bytes than it was made of, but
\* for the rounding to the nearest (bytes_per_sec).
LEMMA RateFacts ==
    ASSUME NEW bytes \in Nat, NEW elapsed \in Nat
    PROVE  /\ bytes_per_sec(bytes, elapsed) \in Nat
           /\ 2 * bytes_per_sec(bytes, elapsed) * elapsed <= 2 * NS_PER_SEC * bytes + elapsed
<1>1. NS_PER_SEC \in Nat /\ 2 * bytes * NS_PER_SEC = 2 * NS_PER_SEC * bytes
      /\ 2 * NS_PER_SEC * bytes \in Nat
  BY SamplerAssumption
<1>2. CASE elapsed = 0
  BY <1>1, <1>2 DEF bytes_per_sec
<1>3. CASE elapsed # 0
  <2> DEFINE x == 2 * bytes * NS_PER_SEC + elapsed
             n == 2 * elapsed
             q == x \div n
  <2>1. x \in Nat /\ n \in Nat \ {0}
    BY <1>1, <1>3
  <2>2. bytes_per_sec(bytes, elapsed) = q
    BY <1>3 DEF bytes_per_sec
  <2>3. x = 2 * NS_PER_SEC * bytes + elapsed
    BY <1>1
  <2>4. \A m \in Nat : 2 * m * elapsed = n * m
    OBVIOUS
  <2> HIDE DEF x, n
  <2>5. q \in Nat /\ x % n \in Nat /\ x = n * q + (x % n)
    BY <2>1, DivMod
  <2> HIDE DEF q
  <2>6. n * q \in Nat
    BY <2>1, <2>5
  <2>7. n * q <= x
    BY <2>1, <2>5, <2>6
  <2> QED
    BY <2>2, <2>3, <2>4, <2>5, <2>7
<1> QED
  BY <1>2, <1>3

Carried(d) == SumFunction([i \in Ifaces |-> flow[i][d] - fresh[i][d]])

\* All that a poll adds up was carried in the period it covers.
LEMMA DeltasWereCarried ==
    ASSUME BytesInv, RecordSample, NEW d \in Dirs
    PROVE  DeltaSum(d) \in Nat /\ Carried(d) \in Nat /\ DeltaSum(d) <= Carried(d)
<1> DEFINE deltas == [i \in Selected |-> Delta(i, d)]
           flows == [i \in Ifaces |-> flow[i][d] - fresh[i][d]]
<1>1. Polling /\ StateOK
  BY DEF RecordSample, BytesInv
<1>2. Selected \in SUBSET Ifaces /\ Selected \subseteq Listed
  BY <1>1, ListedCounters DEF StateOK, Selected
<1>3. flows \in [Ifaces -> Nat]
  <2>1. ASSUME NEW i \in Ifaces PROVE flow[i][d] - fresh[i][d] \in Nat
    BY <1>1, ByteTypes DEF BytesInv, AllAccounted, Accounted, FreshIsPart
  <2> QED
    BY <2>1
<1>4. ASSUME NEW i \in Selected
      PROVE  Delta(i, d) \in Nat /\ Delta(i, d) <= flow[i][d] - fresh[i][d]
  <2>1. i \in Ifaces /\ FreshIsPart(i, d) /\ BetweenThem(i, d)
    BY <1>2 DEF BytesInv, AllAccounted, Accounted
  <2> QED
    BY <1>1, <1>2, <2>1, ByteTypes DEF FreshIsPart, BetweenThem, Delta
<1>5. deltas \in [Selected -> Nat] /\ \A i \in Selected : deltas[i] <= flows[i]
  BY <1>2, <1>4
<1>6. IsFiniteSet(Ifaces)
  BY SamplerAssumption
<1>7. DeltaSum(d) = SumFunction(deltas) /\ Carried(d) = SumFunction(flows)
  BY DEF DeltaSum, Carried
<1> HIDE DEF deltas, flows
<1> QED
  BY <1>2, <1>3, <1>5, <1>6, <1>7, SumsGrow

Recorded == [rate |-> [d \in Dirs |-> bytes_per_sec(DeltaSum(d), clock - last_poll_timestamp_ns)],
             timestamp_ns |-> clock]

\* What a counted poll pushes is a sample.
LEMMA PollPushes ==
    ASSUME BytesInv, RecordSample
    PROVE  Recorded \in Sample /\ Ring!push_history(Recorded)
<1>1. clock \in Nat /\ clock - last_poll_timestamp_ns \in Nat
  BY DEF BytesInv, StateOK
<1>2. \A d \in Dirs : bytes_per_sec(DeltaSum(d), clock - last_poll_timestamp_ns) \in Nat
  BY <1>1, DeltasWereCarried, RateFacts
<1> QED
  BY <1>1, <1>2 DEF Recorded, Sample, Counters, RecordSample

\* The newest sample held was taken by the last counted poll.
NewestIsLastPoll ==
    history_count > 0 =>
        history[Ring!Wrap(history_head, history_count - 1)].timestamp_ns = last_poll_timestamp_ns

HistoryInv == BytesInv /\ RingInv /\ NewestIsLastPoll

\* After a push the newest sample is the one pushed, in the slot it went to.
LEMMA NewestAfterPush ==
    ASSUME RingInv, NEW sample \in Sample, Ring!push_history(sample)
    PROVE  /\ history_count' > 0
           /\ Ring!Wrap(history_head', history_count' - 1) = Ring!NextSlot
           /\ history'[Ring!NextSlot] = sample
<1>1. /\ N \in Nat \ {0} /\ history_head \in Ring!Slots /\ history_count \in 0 .. N
      /\ history \in [Ring!Slots -> SlotValues]
      /\ history_count < N => history_head = 0
  BY CapAssumption DEF RingInv, Ring!TypeOK, SlotValues, N
<1>2. Ring!NextSlot = Ring!Wrap(history_head, history_count) /\ Ring!NextSlot \in Ring!Slots
  BY <1>1, WrapFacts DEF Ring!NextSlot
<1>3. history'[Ring!NextSlot] = sample
  BY <1>1, <1>2 DEF Ring!push_history
<1>4. CASE history_count < N
  BY <1>1, <1>2, <1>3, <1>4 DEF Ring!push_history, N
<1>5. CASE history_count = N
  <2>1. history_count' = N /\ history_head' = Ring!Wrap(history_head, 1)
    BY <1>1, <1>5 DEF Ring!push_history, N
  <2>2. 1 \in 0 .. N /\ N - 1 \in 0 .. N /\ 1 + (N - 1) \in 0 .. N /\ 1 + (N - 1) = N /\ N > 0
    BY <1>1
  <2>3. Ring!Wrap(Ring!Wrap(history_head, 1), N - 1) = Ring!Wrap(history_head, N)
    BY <1>1, <2>2, WrapTwice
  <2> QED
    BY <1>2, <1>3, <1>5, <2>1, <2>2, <2>3
<1> QED
  BY <1>1, <1>4, <1>5

\* A read of one sample returns the newest.
LEMMA ReadOne ==
    ASSUME NEW h \in [Ring!Slots -> SlotValues], NEW head \in Ring!Slots, NEW count \in 1 .. N
    PROVE  Copied(h, head, count, 1)[1] = h[Ring!Wrap(head, count - 1)]
<1>1. count \in 0 .. N /\ 1 \in Nat /\ Smaller(count, 1) = 1 /\ count - 1 + 1 - 1 = count - 1
  BY CapAssumption DEF N, Smaller
<1>2. Lists(Copied(h, head, count, 1), SlotValues, h, head, count - 1, 1)
  BY <1>1, CopiedElements
<1> QED
  BY <1>1, <1>2 DEF Lists

\* The history, its newest sample and the accounts of the bytes stay in step.
LEMMA HistoryInvariance == Spec => []HistoryInv
<1>1. Init => HistoryInv
  <2> SUFFICES ASSUME Init PROVE HistoryInv
    OBVIOUS
  <2>1. RingInv /\ history_count = 0
    BY RingInitInv DEF Init, Ring!Init
  <2> QED
    BY <2>1, InitBytesInv DEF HistoryInv, NewestIsLastPoll
<1>2. HistoryInv /\ [Next]_vars => HistoryInv'
  <2> SUFFICES ASSUME HistoryInv, [Next]_vars PROVE RingInv' /\ NewestIsLastPoll'
    BY NextBytesInv DEF HistoryInv
  <2>1. ASSUME UNCHANGED <<history, history_head, history_count, last_poll_timestamp_ns>>
        PROVE  RingInv' /\ NewestIsLastPoll'
    BY <2>1 DEF HistoryInv, RingInv, NewestIsLastPoll, Ring!TypeOK, HeldSlotsWritten, Ring!Wrap
  <2>2. ASSUME NEW i \in Ifaces, NEW d \in Dirs, Traffic(i, d) \/ CounterReset(i, d)
        PROVE  RingInv' /\ NewestIsLastPoll'
    BY <2>1, <2>2 DEF Traffic, CounterReset, sampler, ring
  <2>3. ASSUME NEW i \in Ifaces, PlugOrUnplug(i) PROVE RingInv' /\ NewestIsLastPoll'
    BY <2>1, <2>3 DEF PlugOrUnplug, sampler, ring
  <2>4. ASSUME NEW r \in Routes, RouteChange(r) PROVE RingInv' /\ NewestIsLastPoll'
    BY <2>1, <2>4 DEF RouteChange, sampler, ring
  <2>5. ASSUME Tick \/ TakeSnapshot \/ SnapshotFails \/ ResolveFails \/ UNCHANGED vars
        PROVE  RingInv' /\ NewestIsLastPoll'
    BY <2>1, <2>5 DEF Tick, TakeSnapshot, SnapshotFails, ResolveFails, vars, sampler, ring
  <2>6. ASSUME RecordSample PROVE RingInv' /\ NewestIsLastPoll'
    <3>1. Recorded \in Sample /\ Ring!push_history(Recorded) /\ RingInv
      BY <2>6, PollPushes DEF HistoryInv
    <3>2. Ring!Wrap(history_head', history_count' - 1) = Ring!NextSlot
          /\ history'[Ring!NextSlot] = Recorded
      BY <3>1, NewestAfterPush
    <3>3. last_poll_timestamp_ns' = Recorded.timestamp_ns
      BY <2>6 DEF RecordSample, Recorded
    <3>4. NewestIsLastPoll'
      BY <3>2, <3>3 DEF NewestIsLastPoll, Ring!Wrap
    <3> QED
      BY <3>1, <3>4, PushPreserves
  <2> QED
    BY <2>2, <2>3, <2>4, <2>5, <2>6 DEF Next
<1> QED
  BY <1>1, <1>2, PTL DEF Spec

\* For every set of interfaces, table size and history capacity the whole state
\* stays well formed, the rates in the history and its ring included: a poll
\* pushes a sample whatever was selected (push_history, resolve_deltas).
THEOREM TypeCorrect == Spec => []TypeOK
<1>1. HistoryInv => TypeOK
  BY DEF HistoryInv, BytesInv, RingInv, TypeOK
<1> QED
  BY <1>1, HistoryInvariance, PTL

\* Whatever the capacity, lp_sampler_history only hands out samples that some
\* poll pushed, never the zeros memset left in the array.
THEOREM ReadsOnlyPushed == Spec => []Ring!OnlyPushedSamples
<1>1. ASSUME RingInv PROVE Ring!OnlyPushedSamples
  <2> SUFFICES ASSUME NEW cap \in 1 .. LP_SAMPLER_HISTORY_CAP + 1,
                      NEW i \in DOMAIN Ring!lp_sampler_history(cap)
               PROVE  Ring!lp_sampler_history(cap)[i] \in Sample
    BY DEF Ring!OnlyPushedSamples
  <2> DEFINE c == Smaller(history_count, cap)
  <2>1. /\ cap \in Nat
        /\ history \in [Ring!Slots -> SlotValues]
        /\ history_head \in Ring!Slots
        /\ history_count \in 0 .. N
    BY <1>1, CapAssumption DEF RingInv, Ring!TypeOK, SlotValues, N
  <2>2. Lists(Ring!lp_sampler_history(cap), SlotValues, history, history_head, history_count - c, c)
    <3>1. Ring!lp_sampler_history(cap) = Copied(history, history_head, history_count, cap)
      BY <2>1, HistoryIsCopied
    <3> QED
      BY <2>1, <3>1, CopiedElements
  <2>3. i \in 1 .. c
    BY <2>2, LenProperties DEF Lists
  <2>4. history_count - c + i - 1 \in 0 .. history_count - 1
    BY <2>1, <2>3 DEF Smaller, N
  <2> QED
    BY <1>1, <2>2, <2>3, <2>4 DEF RingInv, HeldSlotsWritten, Lists
<1>2. HistoryInv => RingInv
  BY DEF HistoryInv
<1> QED
  BY <1>1, <1>2, HistoryInvariance, PTL

\* A short read is the newest part of the full one, for every capacity.
THEOREM ShortReads == Spec => []ShortReadIsNewest
<1>1. ASSUME RingInv PROVE ShortReadIsNewest
  <2> DEFINE all == Ring!lp_sampler_history(LP_SAMPLER_HISTORY_CAP)
  <2> SUFFICES ASSUME NEW cap \in 1 .. LP_SAMPLER_HISTORY_CAP + 1
               PROVE  Ring!lp_sampler_history(cap)
                        = SubSeq(all, Len(all) - Len(Ring!lp_sampler_history(cap)) + 1, Len(all))
    BY DEF ShortReadIsNewest, Ring!ShortReadIsNewest
  <2> DEFINE few == Ring!lp_sampler_history(cap)
             c == Smaller(history_count, cap)
  <2>1. /\ cap \in Nat /\ N \in Nat
        /\ history \in [Ring!Slots -> SlotValues]
        /\ history_head \in Ring!Slots
        /\ history_count \in 0 .. N
    BY <1>1, CapAssumption DEF RingInv, Ring!TypeOK, SlotValues, N
  <2>2. Lists(few, SlotValues, history, history_head, history_count - c, c)
    <3>1. few = Copied(history, history_head, history_count, cap)
      BY <2>1, HistoryIsCopied
    <3> QED
      BY <2>1, <3>1, CopiedElements
  <2>4. Lists(all, SlotValues, history, history_head, 0, history_count)
    <3>1. all = Copied(history, history_head, history_count, N)
      BY <2>1, HistoryIsCopied DEF N
    <3> QED
      BY <2>1, <3>1, FullRead
  <2>5. c \in 0 .. history_count
    BY <2>1 DEF Smaller
  <2> HIDE DEF all, few, c
  <2> DEFINE m == history_count - c + 1
             tail == SubSeq(all, m, history_count)
  <2>6. /\ m \in Int /\ history_count \in Int
        /\ \A k \in m .. history_count : k \in 1 .. Len(all)
    BY <2>1, <2>4, <2>5 DEF Lists
  <2>7. \A k \in m .. history_count : all[k] \in SlotValues
    BY <2>4, <2>6, ElementOfSeq DEF Lists
  <2>8. /\ tail \in Seq(SlotValues)
        /\ Len(tail) = IF m <= history_count THEN history_count - m + 1 ELSE 0
        /\ \A k \in 1 .. history_count - m + 1 : tail[k] = all[m + k - 1]
    BY <2>6, <2>7, SubSeqProperties
  <2>9. Len(tail) = c /\ history_count - m + 1 = c
    BY <2>1, <2>5, <2>8
  <2>10. ASSUME NEW k \in 1 .. c PROVE few[k] = tail[k]
    <3>1. /\ m + k - 1 \in 1 .. history_count
          /\ 0 + (m + k - 1) - 1 = history_count - c + k - 1
      BY <2>1, <2>5
    <3>2. tail[k] = all[m + k - 1]
      BY <2>8, <2>9
    <3>3. all[m + k - 1] = history[Ring!Wrap(history_head, 0 + (m + k - 1) - 1)]
      BY <2>4, <3>1 DEF Lists
    <3> QED
      BY <2>2, <3>1, <3>2, <3>3 DEF Lists
  <2>11. few = tail
    BY <2>2, <2>8, <2>9, <2>10, SeqEqual DEF Lists
  <2> QED
    BY <2>2, <2>4, <2>11 DEF few, Lists
<1>2. HistoryInv => RingInv
  BY DEF HistoryInv
<1> QED
  BY <1>1, <1>2, HistoryInvariance, PTL

\* The history changes in counted polls only.
LEMMA OnlyPollsRecord == [Next]_vars => RecordSample \/ UNCHANGED ring
  BY DEF Next, Traffic, CounterReset, PlugOrUnplug, RouteChange, Tick, TakeSnapshot,
         SnapshotFails, ResolveFails, vars, sampler, ring

\* What readers of the history see is the bounded log: it starts empty, and every
\* counted poll appends one sample to it, the oldest going exactly when the ring
\* is full; nothing else touches it.
THEOREM HistoryImplementsLog == Spec => Ring!ImplementsLog
<1>1. Init => Ring!Log!Init
  <2> SUFFICES ASSUME Init PROVE Ring!lp_sampler_history(N) = << >>
    BY DEF Ring!Log!Init, N
  <2>1. /\ history \in [Ring!Slots -> SlotValues]
        /\ history_head \in Ring!Slots /\ history_count \in 0 .. N
        /\ history_count = 0 /\ N \in Nat
    BY CapAssumption DEF Init, Ring!Init, SlotValues, Ring!Slots, N
  <2>2. Lists(Ring!lp_sampler_history(N), SlotValues, history, history_head, 0, 0)
    <3>1. Ring!lp_sampler_history(N) = Copied(history, history_head, history_count, N)
      BY <2>1, HistoryIsCopied
    <3> QED
      BY <2>1, <3>1, FullRead
  <2> QED
    BY <2>2, EmptySeq DEF Lists
<1>2. HistoryInv /\ [Next]_vars
         => [Ring!Log!Next]_(Ring!lp_sampler_history(LP_SAMPLER_HISTORY_CAP))
  <2>1. ASSUME HistoryInv, RecordSample PROVE Ring!Log!Next
    <3>1. Recorded \in Sample /\ Ring!Log!Record(Recorded)
      BY <2>1, PollPushes, PushRecords DEF HistoryInv
    <3> QED
      BY <3>1 DEF Ring!Log!Next
  <2>2. ASSUME UNCHANGED ring
        PROVE  UNCHANGED Ring!lp_sampler_history(LP_SAMPLER_HISTORY_CAP)
    BY <2>2 DEF ring, Ring!lp_sampler_history, Ring!Wrap
  <2> QED
    BY <2>1, <2>2, OnlyPollsRecord
<1> QED
  BY <1>1, <1>2, HistoryInvariance, PTL DEF Spec, Ring!ImplementsLog, Ring!Log!Spec

\* The same said of the sampler's steps: one leaves the history alone or records
\* the sample that is then the newest.
THEOREM HistoryLogged == Spec => HistoryIsLog
<1>1. HistoryInv /\ [Next]_vars
         => [UNCHANGED ring \/ Ring!Log!Record(Ring!lp_sampler_history(1)'[1])]_vars
  <2> SUFFICES ASSUME HistoryInv, RecordSample
               PROVE  Ring!Log!Record(Ring!lp_sampler_history(1)'[1])
    BY OnlyPollsRecord
  <2>1. Recorded \in Sample /\ Ring!push_history(Recorded) /\ RingInv
    BY PollPushes DEF HistoryInv
  <2>2. Ring!lp_sampler_history(1)' = Copied(history', history_head', history_count', 1)
    BY HistoryIsCopied
  <2>3. /\ history_count' > 0
        /\ history'[Ring!Wrap(history_head', history_count' - 1)] = Recorded
    BY <2>1, NewestAfterPush
  <2>4. /\ history' \in [Ring!Slots -> SlotValues]
        /\ history_head' \in Ring!Slots
        /\ history_count' \in 1 .. N
    <3>1. RingInv'
      BY <2>1, PushPreserves
    <3> QED
      BY <2>3, <3>1, CapAssumption DEF RingInv, Ring!TypeOK, Ring!Slots, SlotValues, N
  <2>5. Ring!lp_sampler_history(1)'[1] = Recorded
    BY <2>2, <2>3, <2>4, ReadOne
  <2> QED
    BY <2>1, <2>5, PushRecords
<1> QED
  BY <1>1, HistoryInvariance, PTL DEF Spec, HistoryIsLog

\* For any number of interfaces, any capacity and any traffic: the rate between
\* two neighbouring samples of the history stands for no more bytes than flowed
\* between them, however many polls failed in that time.
THEOREM RatesAreReal == Spec => HistoryIntegrates
<1> DEFINE Real(d) ==
      LET older == Ring!lp_sampler_history(1)[1]
          newer == history'[Ring!NextSlot]
          gap == newer.timestamp_ns - older.timestamp_ns
          carried == SumFunction([i \in Ifaces |-> flow[i][d] - fresh[i][d]])
      IN  2 * newer.rate[d] * gap <= 2 * NS_PER_SEC * carried + gap
<1>1. ASSUME HistoryInv, RecordSample, history_count > 0, NEW d \in Dirs PROVE Real(d)
  <2>1. Recorded \in Sample /\ Ring!push_history(Recorded) /\ RingInv
    BY <1>1, PollPushes DEF HistoryInv
  <2>2. history'[Ring!NextSlot] = Recorded
    BY <2>1, NewestAfterPush
  <2>3. /\ history \in [Ring!Slots -> SlotValues]
        /\ history_head \in Ring!Slots
        /\ history_count \in 1 .. N
    BY <1>1, <2>1, CapAssumption DEF RingInv, Ring!TypeOK, SlotValues, N
  <2>4. Ring!lp_sampler_history(1)[1].timestamp_ns = last_poll_timestamp_ns
    BY <1>1, <2>3, HistoryIsCopied, ReadOne DEF HistoryInv, NewestIsLastPoll
  <2> DEFINE elapsed == clock - last_poll_timestamp_ns
             rate == bytes_per_sec(DeltaSum(d), elapsed)
  <2>5. elapsed \in Nat
    BY <1>1 DEF HistoryInv, BytesInv, StateOK
  <2>6. Recorded.rate[d] = rate /\ Recorded.timestamp_ns = clock
    BY DEF Recorded
  <2>7. DeltaSum(d) \in Nat /\ Carried(d) \in Nat /\ DeltaSum(d) <= Carried(d)
    BY <1>1, DeltasWereCarried DEF HistoryInv
  <2>8. 2 * rate * elapsed <= 2 * NS_PER_SEC * DeltaSum(d) + elapsed /\ rate \in Nat
    BY <2>5, <2>7, RateFacts
  <2>9. 2 * NS_PER_SEC * DeltaSum(d) <= 2 * NS_PER_SEC * Carried(d)
    <3>1. 2 * NS_PER_SEC \in Nat
      BY SamplerAssumption
    <3>2. \A k, m, n \in Nat : m <= n => k * m <= k * n
      OBVIOUS
    <3> QED
      BY <2>7, <3>1, <3>2
  <2>10. 2 * rate * elapsed <= 2 * NS_PER_SEC * Carried(d) + elapsed
    <3>1. /\ 2 * rate * elapsed \in Nat
          /\ 2 * NS_PER_SEC * DeltaSum(d) \in Nat
          /\ 2 * NS_PER_SEC * Carried(d) \in Nat
      BY <2>5, <2>7, <2>8, SamplerAssumption
    <3> HIDE DEF elapsed, rate
    <3> QED
      BY <2>5, <2>8, <2>9, <3>1
  <2> QED
    BY <2>2, <2>4, <2>6, <2>10 DEF Carried
<1>2. HistoryInv /\ [Next]_vars
         => [\A d \in Dirs : RecordSample /\ history_count > 0 => Real(d)]_vars
  <2> HIDE DEF Real
  <2> QED
    BY <1>1
<1> QED
  BY <1>2, HistoryInvariance, PTL DEF Spec, HistoryIntegrates
=============================================================================
