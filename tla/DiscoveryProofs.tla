---------------------------- MODULE DiscoveryProofs ----------------------------
(***************************************************************************)
(* What MCDiscovery and MCDiscoveryShared check of the discovery core and  *)
(* of the sweep that feeds it, proved for every network, list size, event  *)
(* limit and number of missing polls.                                      *)
(*                                                                         *)
(* One poll is a loop over the snapshot and one over the old entries; the  *)
(* sweep is two loops that build a list.  FoldFacts says that each passes  *)
(* through a sequence of values, and the inductions here run along it.     *)
(***************************************************************************)
EXTENDS DiscoveryThread, DiscoveryListener, FiniteSetTheorems, SequenceTheorems, TLAPS

\* The states of the first loop: the arrays stay parallel and within capacity,
\* and every entry the loop added is marked as seen.
PassOK(pass) ==
    /\ Len(pass.active) = Len(pass.known)
    /\ Len(known) <= Len(pass.known)
    /\ Len(pass.known) <= LP_DISCOVERY_MAX_NEIGHBORS
    /\ pass.seen \subseteq DOMAIN pass.known
    /\ (DOMAIN pass.known) \ (DOMAIN known) \subseteq pass.seen
    /\ Len(pass.events) <= LP_DISCOVERY_MAX_EVENTS

Passes == {pass \in [known : Seq(Neighbor), active : Seq(BOOLEAN),
                     seen : SUBSET Nat, events : Seq(Event)] : PassOK(pass)}

Reconciling == INSTANCE FoldFacts WITH
                   Items <- Neighbor, Values <- Passes, Step <- ReconcileItem

\* The states of the second loop, as far as the events go.
EventLists == {list \in Seq(Event) : Len(list) <= LP_DISCOVERY_MAX_EVENTS}
Entries == [neighbor : Neighbor, departs : BOOLEAN]

Departing == INSTANCE FoldFacts WITH
                 Items <- Entries, Values <- EventLists, Step <- EmitLeft

-----------------------------------------------------------------------------
(* One item, one entry.                                                    *)

\* The lookup finds an entry that matches, or there is none.
LEMMA FirstMatch ==
    ASSUME NEW list \in Seq(Neighbor), NEW item \in Neighbor
    PROVE  \/ /\ find_known_index(list, item) = 0
              /\ \A idx \in DOMAIN list : ~neighbors_match(list[idx], item)
           \/ /\ find_known_index(list, item) \in DOMAIN list
              /\ neighbors_match(list[find_known_index(list, item)], item)
<1> DEFINE I == {idx \in 1 .. Len(list) : neighbors_match(list[idx], item)}
<1>1. find_known_index(list, item) = IF I # {} THEN Min(I) ELSE 0
  BY DEF find_known_index, SelectInSeq
<1>2. DOMAIN list = 1 .. Len(list) /\ Len(list) \in Nat
  OBVIOUS
<1>3. CASE I = {}
  BY <1>1, <1>2, <1>3
<1>4. CASE I # {}
  <2>1. I \in SUBSET Nat
    BY <1>2
  <2>2. PICK idx \in I : \A j \in I : ~(j < idx)
    <3> HIDE DEF I
    <3> QED
      BY <1>4, <2>1, Reconciling!LeastElement
  <2>3. \A j \in I : idx <= j
    BY <1>2, <2>2
  <2>4. Min(I) \in I
    <3> HIDE DEF I
    <3> QED
      BY <2>2, <2>3 DEF Min
  <2> QED
    BY <1>1, <1>2, <1>4, <2>4
<1> QED
  BY <1>3, <1>4

\* An event list stays one, whatever is emitted.
LEMMA EmitType ==
    ASSUME NEW list \in EventLists, NEW type \in {"JOINED", "LEFT"}, NEW neighbor \in Neighbor
    PROVE  Emit(list, type, neighbor) \in EventLists
<1> DEFINE event == [type |-> type, neighbor |-> neighbor]
<1>1. event \in Event
  BY DEF Event
<1>2. list \in Seq(Event) /\ Len(list) \in Nat /\ LP_DISCOVERY_MAX_EVENTS \in Nat
  BY DiscoveryAssumption DEF EventLists
<1>3. CASE Len(list) < LP_DISCOVERY_MAX_EVENTS
  <2> HIDE DEF event
  <2>1. Append(list, event) \in Seq(Event) /\ Len(Append(list, event)) = Len(list) + 1
    BY <1>1, <1>2
  <2>2. Emit(list, type, neighbor) = Append(list, event)
    BY <1>3 DEF Emit, event
  <2> QED
    BY <1>2, <1>3, <2>1, <2>2 DEF EventLists
<1>4. CASE ~(Len(list) < LP_DISCOVERY_MAX_EVENTS)
  BY <1>4 DEF Emit
<1> QED
  BY <1>3, <1>4

\* The event an item of the snapshot leads to, in either branch of the loop.
JoinedEvents(pass, item, idx) ==
    IF has_baseline /\ Joins(pass, idx) THEN Emit(pass.events, "JOINED", item) ELSE pass.events

\* What one item does to the lists: it takes over the entry of its device, gets
\* one of its own, or finds no room.  In any case the state stays a state of
\* the loop.
Takes(pass, item, after, idx) ==
    /\ idx \in DOMAIN known
    /\ neighbors_match(pass.known[idx], item)
    /\ after.known = [pass.known EXCEPT ![idx] = item]
    /\ after.active = [pass.active EXCEPT ![idx] = TRUE]
    /\ after.seen = pass.seen \cup {idx}
    /\ after.events = JoinedEvents(pass, item, idx)

Adds(pass, item, after) ==
    /\ \A idx \in DOMAIN known : ~neighbors_match(pass.known[idx], item)
    /\ Len(pass.known) < LP_DISCOVERY_MAX_NEIGHBORS
    /\ after.known = Append(pass.known, item)
    /\ after.active = Append(pass.active, TRUE)
    /\ after.seen = pass.seen \cup {Len(pass.known) + 1}
    /\ after.events = JoinedEvents(pass, item, 0)

FindsNoRoom(pass, item, after) ==
    /\ \A idx \in DOMAIN known : ~neighbors_match(pass.known[idx], item)
    /\ Len(pass.known) >= LP_DISCOVERY_MAX_NEIGHBORS
    /\ after.known = pass.known
    /\ after.active = pass.active
    /\ after.seen = pass.seen
    /\ after.events = JoinedEvents(pass, item, 0)

\* An item of the snapshot takes an entry over, adds one, or finds no room.
LEMMA ItemEffect ==
    ASSUME TypeOK, NEW pass \in Passes, NEW item \in Neighbor
    PROVE  \/ \E idx \in DOMAIN known : Takes(pass, item, ReconcileItem(pass, item), idx)
           \/ Adds(pass, item, ReconcileItem(pass, item))
           \/ FindsNoRoom(pass, item, ReconcileItem(pass, item))
<1> DEFINE old == SubSeq(pass.known, 1, Len(known))
           found == find_known_index(old, item)
<1>1. /\ pass.known \in Seq(Neighbor) /\ Len(known) \in Nat /\ Len(known) <= Len(pass.known)
      /\ Len(pass.known) \in Nat /\ LP_DISCOVERY_MAX_NEIGHBORS \in Nat
  BY DiscoveryAssumption DEF Passes, PassOK, TypeOK
<1>2. old \in Seq(Neighbor) /\ DOMAIN old = DOMAIN known
  <2>1. known \in Seq(Neighbor)
    BY DEF TypeOK
  <2> QED
    BY <1>1, <2>1
<1>3. \A idx \in DOMAIN known : old[idx] = pass.known[idx]
  <2>1. known \in Seq(Neighbor)
    BY DEF TypeOK
  <2> QED
    BY <1>1, <2>1
<1>4. 0 \notin DOMAIN known
  BY DEF TypeOK
<1> HIDE DEF old
<1>5. CASE found = 0
  <2>1. \A idx \in DOMAIN known : ~neighbors_match(pass.known[idx], item)
    BY <1>2, <1>3, <1>4, <1>5, FirstMatch
  <2>2. CASE Len(pass.known) < LP_DISCOVERY_MAX_NEIGHBORS
    BY <1>5, <2>1, <2>2 DEF ReconcileItem, Adds, JoinedEvents, old
  <2>3. CASE ~(Len(pass.known) < LP_DISCOVERY_MAX_NEIGHBORS)
    <3>1. ReconcileItem(pass, item) = [pass EXCEPT !.events = JoinedEvents(pass, item, 0)]
      BY <1>5, <2>3 DEF ReconcileItem, JoinedEvents, old
    <3>2. pass = [known |-> pass.known, active |-> pass.active,
                  seen |-> pass.seen, events |-> pass.events]
      BY DEF Passes
    <3> QED
      BY <1>1, <2>1, <2>3, <3>1, <3>2 DEF FindsNoRoom
  <2> QED
    BY <2>2, <2>3
<1>6. CASE found # 0
  <2>1. found \in DOMAIN known /\ neighbors_match(pass.known[found], item)
    BY <1>2, <1>3, <1>6, FirstMatch
  <2>2. Takes(pass, item, ReconcileItem(pass, item), found)
    BY <1>6, <2>1 DEF ReconcileItem, Takes, JoinedEvents, old
  <2> QED
    BY <2>1, <2>2
<1> QED
  BY <1>5, <1>6

\* The events of an item are few enough.
LEMMA JoinedType ==
    ASSUME NEW pass \in Passes, NEW item \in Neighbor, NEW idx
    PROVE  JoinedEvents(pass, item, idx) \in EventLists
<1>1. pass.events \in EventLists
  BY DEF Passes, PassOK, EventLists
<1> QED
  BY <1>1, EmitType DEF JoinedEvents

\* One item leads from one state of the loop to another.
LEMMA ItemKeepsPasses ==
    ASSUME TypeOK, NEW pass \in Passes, NEW item \in Neighbor
    PROVE  ReconcileItem(pass, item) \in Passes
<1> DEFINE after == ReconcileItem(pass, item)
<1>1. /\ pass.known \in Seq(Neighbor) /\ pass.active \in Seq(BOOLEAN)
      /\ pass.seen \in SUBSET Nat /\ pass.events \in Seq(Event)
      /\ Len(pass.active) = Len(pass.known)
      /\ Len(known) \in Nat /\ Len(known) <= Len(pass.known)
      /\ Len(pass.known) <= LP_DISCOVERY_MAX_NEIGHBORS
      /\ pass.seen \subseteq DOMAIN pass.known
      /\ (DOMAIN pass.known) \ (DOMAIN known) \subseteq pass.seen
  BY DEF Passes, PassOK, TypeOK
<1>2. LP_DISCOVERY_MAX_NEIGHBORS \in Nat /\ Len(pass.known) \in Nat
  BY <1>1, DiscoveryAssumption
<1>3. /\ DOMAIN known = 1 .. Len(known) /\ DOMAIN pass.known = 1 .. Len(pass.known)
      /\ DOMAIN pass.active = 1 .. Len(pass.known)
  BY <1>1 DEF TypeOK
<1>4. after = [known |-> after.known, active |-> after.active,
               seen |-> after.seen, events |-> after.events]
  <2>1. pass = [known |-> pass.known, active |-> pass.active,
                seen |-> pass.seen, events |-> pass.events]
    BY DEF Passes
  <2> DEFINE idx == find_known_index(SubSeq(pass.known, 1, Len(known)), item)
             joined == IF has_baseline /\ Joins(pass, idx)
                       THEN Emit(pass.events, "JOINED", item)
                       ELSE pass.events
  <2> HIDE DEF idx, joined
  <2>2. after = IF idx # 0
                THEN [known |-> [pass.known EXCEPT ![idx] = item],
                      active |-> [pass.active EXCEPT ![idx] = TRUE],
                      seen |-> pass.seen \cup {idx},
                      events |-> joined]
                ELSE IF Len(pass.known) < LP_DISCOVERY_MAX_NEIGHBORS
                     THEN [known |-> Append(pass.known, item),
                           active |-> Append(pass.active, TRUE),
                           seen |-> pass.seen \cup {Len(pass.known) + 1},
                           events |-> joined]
                     ELSE [pass EXCEPT !.events = joined]
    BY DEF ReconcileItem, idx, joined
  <2> HIDE DEF after
  <2>3. CASE idx # 0
    BY <2>2, <2>3
  <2>4. CASE idx = 0 /\ Len(pass.known) < LP_DISCOVERY_MAX_NEIGHBORS
    BY <2>2, <2>4
  <2>5. CASE idx = 0 /\ ~(Len(pass.known) < LP_DISCOVERY_MAX_NEIGHBORS)
    BY <2>1, <2>2, <2>5
  <2> QED
    BY <2>3, <2>4, <2>5
<1> HIDE DEF after
<1> DEFINE Kept == /\ after.known \in Seq(Neighbor) /\ after.active \in Seq(BOOLEAN)
                   /\ after.seen \in SUBSET Nat /\ after.events \in EventLists
                   /\ Len(after.active) = Len(after.known)
                   /\ Len(pass.known) <= Len(after.known)
                   /\ Len(after.known) <= LP_DISCOVERY_MAX_NEIGHBORS
                   /\ after.seen \subseteq DOMAIN after.known
                   /\ (DOMAIN after.known) \ (DOMAIN known) \subseteq after.seen
<1>5. Kept
  <2>1. ASSUME NEW idx \in DOMAIN known, Takes(pass, item, after, idx)
        PROVE  Kept
    <3>1. idx \in 1 .. Len(pass.known) /\ idx \in Nat
      BY <1>1, <1>2, <1>3
    <3>2. after.known \in Seq(Neighbor) /\ Len(after.known) = Len(pass.known)
      BY <1>1, <2>1 DEF Takes
    <3>3. after.active \in Seq(BOOLEAN) /\ Len(after.active) = Len(pass.active)
      BY <1>1, <2>1 DEF Takes
    <3>4. after.events \in EventLists
      BY <2>1, JoinedType DEF Takes
    <3>5. DOMAIN after.known = DOMAIN pass.known
      BY <2>1 DEF Takes
    <3>6. after.seen = pass.seen \cup {idx}
      BY <2>1 DEF Takes
    <3> QED
      BY <1>1, <1>2, <1>3, <3>1, <3>2, <3>3, <3>4, <3>5, <3>6
  <2>2. ASSUME Adds(pass, item, after) PROVE Kept
    <3>1. /\ after.known \in Seq(Neighbor) /\ Len(after.known) = Len(pass.known) + 1
          /\ DOMAIN after.known = 1 .. Len(pass.known) + 1
      BY <1>1, <2>2 DEF Adds
    <3>2. after.active \in Seq(BOOLEAN) /\ Len(after.active) = Len(pass.active) + 1
      <4> DEFINE flag == TRUE
      <4>1. after.active = Append(pass.active, flag) /\ flag \in BOOLEAN
        BY <2>2 DEF Adds
      <4> HIDE DEF flag
      <4> QED
        BY <1>1, <4>1
    <3>3. after.events \in EventLists /\ after.seen = pass.seen \cup {Len(pass.known) + 1}
      BY <2>2, JoinedType DEF Adds
    <3>4. Len(pass.known) < LP_DISCOVERY_MAX_NEIGHBORS
      BY <2>2 DEF Adds
    <3>5. 1 .. Len(pass.known) + 1 = (1 .. Len(pass.known)) \cup {Len(pass.known) + 1}
      BY <1>2
    <3> QED
      BY <1>1, <1>2, <1>3, <3>1, <3>2, <3>3, <3>4, <3>5
  <2>3. ASSUME FindsNoRoom(pass, item, after) PROVE Kept
    BY <1>1, <1>2, <2>3, JoinedType DEF FindsNoRoom
  <2> QED
    BY <2>1, <2>2, <2>3, ItemEffect DEF after
<1>6. after.events \in Seq(Event) /\ Len(after.events) <= LP_DISCOVERY_MAX_EVENTS
  BY <1>5 DEF EventLists
<1>7. Len(known) <= Len(after.known)
  <2>1. Len(after.known) \in Nat
    BY <1>5
  <2> QED
    BY <1>1, <1>2, <1>5, <2>1
<1>8. PassOK(after)
  BY <1>5, <1>6, <1>7 DEF PassOK
<1>9. after \in [known : Seq(Neighbor), active : Seq(BOOLEAN),
                 seen : SUBSET Nat, events : Seq(Event)]
  BY <1>4, <1>5, <1>6
<1> QED
  BY <1>8, <1>9 DEF Passes, after

\* The state the first loop starts in.
Start == [known |-> known, active |-> active, seen |-> {}, events |-> << >>]

\* The first loop starts from the retained list.
LEMMA StartType ==
    ASSUME TypeOK
    PROVE  Start \in Passes
<1>1. /\ known \in Seq(Neighbor) /\ active \in Seq(BOOLEAN) /\ Len(active) = Len(known)
      /\ Len(known) \in Nat
  BY DEF TypeOK
<1>2. << >> \in Seq(Event) /\ Len(<< >>) = 0 /\ 0 <= LP_DISCOVERY_MAX_EVENTS
  BY DiscoveryAssumption
<1> QED
  BY <1>1, <1>2 DEF Start, Passes, PassOK, TypeOK

\* The first loop, item by item.
LEMMA ReconcileSteps ==
    ASSUME TypeOK, NEW snapshot \in Seq(Neighbor)
    PROVE  \E acc \in [0 .. Len(snapshot) -> Passes] :
              /\ acc[0] = Start
              /\ \A k \in 1 .. Len(snapshot) : acc[k] = ReconcileItem(acc[k - 1], snapshot[k])
              /\ acc[Len(snapshot)] = Reconciled(snapshot)
<1>1. Reconciling!Closed
  BY ItemKeepsPasses DEF Reconciling!Closed
<1>2. Reconciled(snapshot) = Reconciling!Loop(Start, snapshot)
  BY DEF Reconciled, Start, FoldLeft, Reconciling!Loop, Reconciling!FoldLeft, MapThenFoldSet,
         Reconciling!MapThenFoldSet, Max, Reconciling!Max
<1> QED
  BY <1>1, <1>2, StartType, Reconciling!FoldLeftSteps

\* The entries of the second loop.
OldEntries(pass) ==
    [idx \in DOMAIN known |-> [neighbor |-> pass.known[idx],
                               departs |-> Departs(pass, idx) /\ has_baseline]]

\* What the second loop goes through are entries.
LEMMA OldEntriesType ==
    ASSUME TypeOK, NEW pass \in Passes
    PROVE  OldEntries(pass) \in Seq(Entries) /\ Len(OldEntries(pass)) = Len(known)
<1>1. Len(known) \in Nat /\ DOMAIN known = 1 .. Len(known)
  BY DEF TypeOK
<1>2. \A idx \in DOMAIN known : pass.known[idx] \in Neighbor
  BY <1>1 DEF Passes, PassOK
<1>3. \A idx \in DOMAIN known : (Departs(pass, idx) /\ has_baseline) \in BOOLEAN
  <2>1. has_baseline \in BOOLEAN
    BY DEF TypeOK
  <2> QED
    BY <2>1 DEF Departs, GivenUp
<1> HIDE DEF Departs
<1> QED
  BY <1>1, <1>2, <1>3 DEF OldEntries, Entries

\* The second loop, entry by entry.
LEMMA DepartureSteps ==
    ASSUME TypeOK, NEW pass \in Passes
    PROVE  \E acc \in [0 .. Len(known) -> EventLists] :
              /\ acc[0] = pass.events
              /\ \A k \in 1 .. Len(known) : acc[k] = EmitLeft(acc[k - 1], OldEntries(pass)[k])
              /\ acc[Len(known)] = WithDepartures(pass)
<1>1. Departing!Closed
  <2> SUFFICES ASSUME NEW list \in EventLists, NEW entry \in Entries
               PROVE  EmitLeft(list, entry) \in EventLists
    BY DEF Departing!Closed
  <2>1. entry.neighbor \in Neighbor
    BY DEF Entries
  <2> QED
    BY <2>1, EmitType DEF EmitLeft
<1>2. WithDepartures(pass) = Departing!Loop(pass.events, OldEntries(pass))
  BY DEF WithDepartures, OldEntries, FoldLeft, Departing!Loop, Departing!FoldLeft, MapThenFoldSet,
         Departing!MapThenFoldSet, Max, Departing!Max
<1>3. pass.events \in EventLists
  BY DEF Passes, PassOK, EventLists
<1> QED
  BY <1>1, <1>2, <1>3, OldEntriesType, Departing!FoldLeftSteps

-----------------------------------------------------------------------------
(* What a poll leaves behind.                                              *)

\* A snapshot of neighbors that the core can count on: ProbeSweep's promise.
WellFormed(list) == Platform!WellFormed(list)

\* Every snapshot the core is given keeps the promise.
LEMMA SnapshotsWellFormed ==
    ASSUME NEW snapshot \in Snapshots
    PROVE  WellFormed(snapshot)
<1>1. /\ snapshot \in Seq(Neighbor)
      /\ Len(snapshot) <= LP_DISCOVERY_MAX_NEIGHBORS
      /\ \A j, k \in DOMAIN snapshot : j # k =>
            /\ snapshot[j].ip # snapshot[k].ip
            /\ snapshot[j].mac = snapshot[k].mac => snapshot[j].mac = NoMac
  BY DiscoveryAssumption
<1> QED
  BY <1>1 DEF WellFormed, Platform!WellFormed, Platform!IdentitiesDistinct, Platform!Neighbor,
              Neighbor

\* The first loop ends in one of its states.
LEMMA ReconciledType ==
    ASSUME TypeOK, NEW snapshot \in Seq(Neighbor)
    PROVE  Reconciled(snapshot) \in Passes
<1>1. PICK acc \in [0 .. Len(snapshot) -> Passes] : acc[Len(snapshot)] = Reconciled(snapshot)
  BY ReconcileSteps
<1> QED
  BY <1>1

\* The second loop ends with few enough events.
LEMMA DeparturesType ==
    ASSUME TypeOK, NEW pass \in Passes
    PROVE  WithDepartures(pass) \in EventLists
<1>1. PICK acc \in [0 .. Len(known) -> EventLists] : acc[Len(known)] = WithDepartures(pass)
  BY DepartureSteps
<1>2. Len(known) \in 0 .. Len(known)
  BY DEF TypeOK
<1> QED
  BY <1>1, <1>2

\* A poll keeps the arrays parallel and within capacity, and the counters below
\* the limit.
LEMMA PollKeepsType ==
    ASSUME TypeOK, NEW snapshot \in Seq(Neighbor), PollWith(snapshot)
    PROVE  TypeOK'
<1> DEFINE pass == Reconciled(snapshot)
<1>1. pass \in Passes
  BY ReconciledType
<1>2. /\ known' = pass.known
      /\ active' = [idx \in DOMAIN pass.known |-> pass.active[idx] /\ ~GivenUp(pass, idx)]
      /\ missing_polls' = [idx \in DOMAIN pass.known |-> MissingAfter(pass, idx)]
      /\ has_baseline' = TRUE
      /\ events' = WithDepartures(pass)
  BY DEF PollWith
<1>3. events' \in Seq(Event) /\ Len(events') <= LP_DISCOVERY_MAX_EVENTS
  <2>1. WithDepartures(pass) \in EventLists
    BY <1>1, DeparturesType
  <2> QED
    BY <1>2, <2>1 DEF EventLists
<1> HIDE DEF pass
<1>4. known' \in Seq(Neighbor) /\ Len(known') <= LP_DISCOVERY_MAX_NEIGHBORS
  BY <1>1, <1>2 DEF Passes, PassOK
<1>5. active' \in [DOMAIN known' -> BOOLEAN]
  <2>1. \A idx \in DOMAIN pass.known : (pass.active[idx] /\ ~GivenUp(pass, idx)) \in BOOLEAN
    OBVIOUS
  <2> QED
    BY <1>2, <2>1
<1>6. missing_polls' \in [DOMAIN known' -> 0 .. LP_DISCOVERY_MISSING_POLLS_BEFORE_LEFT - 1]
  <2> SUFFICES ASSUME NEW idx \in DOMAIN pass.known
               PROVE  MissingAfter(pass, idx) \in 0 .. LP_DISCOVERY_MISSING_POLLS_BEFORE_LEFT - 1
    BY <1>2
  <2>1. LP_DISCOVERY_MISSING_POLLS_BEFORE_LEFT \in Nat \ {0}
    BY DiscoveryAssumption
  <2>2. CASE idx \in pass.seen
    <3>1. MissingAfter(pass, idx) = 0
      BY <2>2 DEF MissingAfter, GivenUp
    <3> QED
      BY <2>1, <3>1
  <2>3. CASE idx \notin pass.seen
    <3>1. missing_polls[idx] \in 0 .. LP_DISCOVERY_MISSING_POLLS_BEFORE_LEFT - 1
      BY <1>1, <2>3 DEF Passes, PassOK, TypeOK
    <3>2. MissingAfter(pass, idx) = IF GivenUp(pass, idx) THEN missing_polls[idx]
                                    ELSE missing_polls[idx] + 1
      BY <2>3 DEF MissingAfter
    <3>3. GivenUp(pass, idx)
             <=> missing_polls[idx] + 1 >= LP_DISCOVERY_MISSING_POLLS_BEFORE_LEFT
      BY <2>3 DEF GivenUp
    <3> QED
      BY <2>1, <3>1, <3>2, <3>3
  <2> QED
    BY <2>2, <2>3
<1> QED
  BY <1>2, <1>3, <1>4, <1>5, <1>6 DEF TypeOK

\* Before the first poll there is nothing.
LEMMA InitialType == Init => TypeOK
<1> SUFFICES ASSUME Init PROVE TypeOK
  OBVIOUS
<1>1. LP_DISCOVERY_MAX_NEIGHBORS \in Nat /\ LP_DISCOVERY_MAX_EVENTS \in Nat
  BY DiscoveryAssumption
<1>2. << >> \in Seq(Neighbor) /\ << >> \in Seq(Event) /\ Len(<< >>) = 0 /\ DOMAIN << >> = {}
  OBVIOUS
<1>3. /\ << >> \in [{} -> BOOLEAN]
      /\ << >> \in [{} -> 0 .. LP_DISCOVERY_MISSING_POLLS_BEFORE_LEFT - 1]
  OBVIOUS
<1>4. /\ known = << >> /\ active = << >> /\ missing_polls = << >> /\ events = << >>
      /\ has_baseline \in BOOLEAN
  BY DEF Init
<1>5. DOMAIN known = {}
  BY <1>2, <1>4
<1>6. active \in [DOMAIN known -> BOOLEAN]
  BY <1>3, <1>4, <1>5
<1>7. missing_polls \in [DOMAIN known -> 0 .. LP_DISCOVERY_MISSING_POLLS_BEFORE_LEFT - 1]
  BY <1>3, <1>4, <1>5
<1>8. known \in Seq(Neighbor) /\ Len(known) <= LP_DISCOVERY_MAX_NEIGHBORS
  BY <1>1, <1>2, <1>4
<1>9. events \in Seq(Event) /\ Len(events) <= LP_DISCOVERY_MAX_EVENTS
  BY <1>1, <1>2, <1>4
<1> QED
  BY <1>4, <1>6, <1>7, <1>8, <1>9 DEF TypeOK

\* A failed poll and a step of something else leave the arrays alone.
LEMMA OthersKeepType ==
    ASSUME TypeOK, PollFails \/ UNCHANGED vars
    PROVE  TypeOK'
<1>1. << >> \in Seq(Event) /\ Len(<< >>) <= LP_DISCOVERY_MAX_EVENTS
  BY DiscoveryAssumption
<1>2. CASE PollFails
  BY <1>1, <1>2 DEF TypeOK, PollFails, discovery
<1>3. CASE UNCHANGED vars
  BY <1>3 DEF TypeOK, vars, discovery
<1> QED
  BY <1>2, <1>3

\* The arrays of the discovery core stay parallel and within capacity, and its
\* miss counters below the limit, whatever the snapshots (lp_discovery_poll,
\* discovery.c:52-134).
THEOREM CoreTypeCorrect == Spec => []TypeOK
<1>1. TypeOK /\ [Next]_vars => TypeOK'
  <2> SUFFICES ASSUME TypeOK, [Next]_vars PROVE TypeOK'
    OBVIOUS
  <2>1. CASE Poll
    <3>1. PICK snapshot \in Snapshots : PollWith(snapshot)
      BY <2>1 DEF Poll
    <3> QED
      BY <3>1, DiscoveryAssumption, PollKeepsType
  <2>2. CASE PollFails \/ UNCHANGED vars
    BY <2>2, OthersKeepType
  <2> QED
    BY <2>1, <2>2 DEF Next
<1> QED
  BY <1>1, InitialType, PTL DEF Spec

-----------------------------------------------------------------------------
(* The devices of a snapshot are in the list.                              *)

\* The loop has given the device an active entry of its own.
ShownIn(pass, device) ==
    \E idx \in DOMAIN pass.known :
        pass.known[idx] = device /\ pass.active[idx] /\ idx \in pass.seen

\* Two items of one snapshot are not the same device.
Apart(a, b) == a.ip # b.ip /\ (a.mac = b.mac => a.mac = NoMac)

\* An item never overwrites the entry of another one: that entry holds the other
\* item by then, which does not match.
LEMMA ItemKeepsShown ==
    ASSUME TypeOK, NEW pass \in Passes, NEW item \in Neighbor, NEW other \in Neighbor,
           Apart(other, item), ShownIn(pass, other)
    PROVE  ShownIn(ReconcileItem(pass, item), other)
<1> DEFINE after == ReconcileItem(pass, item)
<1>1. ~neighbors_match(other, item)
  BY DEF Apart, neighbors_match
<1>2. PICK place \in DOMAIN pass.known :
         pass.known[place] = other /\ pass.active[place] /\ place \in pass.seen
  BY DEF ShownIn
<1>3. /\ pass.known \in Seq(Neighbor) /\ pass.active \in Seq(BOOLEAN)
      /\ Len(pass.active) = Len(pass.known) /\ Len(pass.known) \in Nat
      /\ place \in 1 .. Len(pass.known)
  BY DEF Passes, PassOK
<1>4. \/ \E idx \in DOMAIN known : Takes(pass, item, after, idx)
      \/ Adds(pass, item, after)
      \/ FindsNoRoom(pass, item, after)
  BY ItemEffect
<1> HIDE DEF after
<1>5. ASSUME NEW idx \in DOMAIN known, Takes(pass, item, after, idx)
      PROVE  ShownIn(after, other)
  <2>1. idx # place
    BY <1>1, <1>2, <1>5 DEF Takes
  <2>2. place \in DOMAIN after.known /\ after.known[place] = other /\ place \in after.seen
    BY <1>2, <1>5, <2>1 DEF Takes
  <2>3. after.active[place]
    <3>1. after.active = [pass.active EXCEPT ![idx] = TRUE]
      BY <1>5 DEF Takes
    <3>2. place \in DOMAIN pass.active
      BY <1>3
    <3> QED
      BY <1>2, <2>1, <3>1, <3>2
  <2> QED
    BY <2>2, <2>3 DEF ShownIn
<1>6. ASSUME Adds(pass, item, after) PROVE ShownIn(after, other)
  <2>1. place \in DOMAIN after.known /\ after.known[place] = other /\ place \in after.seen
    BY <1>2, <1>3, <1>6 DEF Adds
  <2>2. after.active[place]
    <3> DEFINE flag == TRUE
    <3>1. after.active = Append(pass.active, flag) /\ flag \in BOOLEAN
      BY <1>6 DEF Adds
    <3> HIDE DEF flag
    <3>2. after.active[place] = pass.active[place]
      BY <1>3, <3>1
    <3> QED
      BY <1>2, <3>2
  <2> QED
    BY <2>1, <2>2 DEF ShownIn
<1>7. ASSUME FindsNoRoom(pass, item, after) PROVE ShownIn(after, other)
  BY <1>2, <1>7 DEF FindsNoRoom, ShownIn
<1> QED
  BY <1>4, <1>5, <1>6, <1>7 DEF after

\* An item has an entry afterwards, unless the list is full.
LEMMA ItemIsShown ==
    ASSUME TypeOK, NEW pass \in Passes, NEW item \in Neighbor,
           Len(ReconcileItem(pass, item).known) < LP_DISCOVERY_MAX_NEIGHBORS
    PROVE  ShownIn(ReconcileItem(pass, item), item)
<1> DEFINE after == ReconcileItem(pass, item)
<1>1. /\ pass.known \in Seq(Neighbor) /\ pass.active \in Seq(BOOLEAN)
      /\ Len(pass.active) = Len(pass.known) /\ Len(pass.known) \in Nat
      /\ LP_DISCOVERY_MAX_NEIGHBORS \in Nat
  BY DiscoveryAssumption DEF Passes, PassOK
<1>2. \A idx \in DOMAIN known : idx \in DOMAIN pass.known /\ idx \in DOMAIN pass.active
  <2>1. Len(known) \in Nat /\ DOMAIN known = 1 .. Len(known) /\ Len(known) <= Len(pass.known)
    BY DEF TypeOK, Passes, PassOK
  <2> QED
    BY <1>1, <2>1
<1>3. \/ \E idx \in DOMAIN known : Takes(pass, item, after, idx)
      \/ Adds(pass, item, after)
      \/ FindsNoRoom(pass, item, after)
  BY ItemEffect
<1>4. Len(after.known) < LP_DISCOVERY_MAX_NEIGHBORS
  OBVIOUS
<1> HIDE DEF after
<1>5. ASSUME NEW idx \in DOMAIN known, Takes(pass, item, after, idx)
      PROVE  ShownIn(after, item)
  <2>1. idx \in DOMAIN after.known /\ after.known[idx] = item /\ idx \in after.seen
    BY <1>2, <1>5 DEF Takes
  <2>2. after.active[idx]
    BY <1>2, <1>5 DEF Takes
  <2> QED
    BY <2>1, <2>2 DEF ShownIn
<1>6. ASSUME Adds(pass, item, after) PROVE ShownIn(after, item)
  <2> DEFINE last == Len(pass.known) + 1
  <2>1. last \in DOMAIN after.known /\ after.known[last] = item /\ last \in after.seen
    BY <1>1, <1>6 DEF Adds
  <2>2. after.active[last]
    <3> DEFINE flag == TRUE
    <3>1. after.active = Append(pass.active, flag) /\ flag \in BOOLEAN
      BY <1>6 DEF Adds
    <3> HIDE DEF flag
    <3>2. after.active[last] = flag
      BY <1>1, <3>1
    <3> QED
      BY <3>2 DEF flag
  <2> QED
    BY <2>1, <2>2 DEF ShownIn
<1>7. ~FindsNoRoom(pass, item, after)
  BY <1>1, <1>4 DEF FindsNoRoom
<1> QED
  BY <1>3, <1>5, <1>6, <1>7 DEF after

\* The list only grows.
LEMMA ItemNeverShrinks ==
    ASSUME TypeOK, NEW pass \in Passes, NEW item \in Neighbor
    PROVE  Len(pass.known) <= Len(ReconcileItem(pass, item).known)
<1>1. pass.known \in Seq(Neighbor) /\ Len(pass.known) \in Nat
  BY DEF Passes
<1> DEFINE after == ReconcileItem(pass, item)
<1>2. \/ \E idx \in DOMAIN known : Takes(pass, item, after, idx)
      \/ Adds(pass, item, after)
      \/ FindsNoRoom(pass, item, after)
  BY ItemEffect
<1>3. after.known \in Seq(Neighbor)
  BY ItemKeepsPasses DEF Passes
<1> HIDE DEF after
<1>4. ASSUME NEW idx \in DOMAIN known, Takes(pass, item, after, idx)
      PROVE  Len(pass.known) <= Len(after.known)
  BY <1>1, <1>3, <1>4 DEF Takes
<1>5. ASSUME Adds(pass, item, after) PROVE Len(pass.known) <= Len(after.known)
  BY <1>1, <1>5 DEF Adds
<1>6. ASSUME FindsNoRoom(pass, item, after) PROVE Len(pass.known) <= Len(after.known)
  BY <1>1, <1>6 DEF FindsNoRoom
<1> QED
  BY <1>2, <1>4, <1>5, <1>6 DEF after

\* When the loop ends with room to spare, every item has an entry.
LEMMA ReconciledShows ==
    ASSUME TypeOK, NEW snapshot, WellFormed(snapshot),
           Len(Reconciled(snapshot).known) < LP_DISCOVERY_MAX_NEIGHBORS
    PROVE  \A j \in DOMAIN snapshot : ShownIn(Reconciled(snapshot), snapshot[j])
<1> DEFINE n == Len(snapshot)
<1>1. /\ snapshot \in Seq(Neighbor) /\ n \in Nat /\ DOMAIN snapshot = 1 .. n
      /\ \A j, k \in 1 .. n : j # k => Apart(snapshot[j], snapshot[k])
      /\ LP_DISCOVERY_MAX_NEIGHBORS \in Nat
  BY DiscoveryAssumption DEF WellFormed, Platform!WellFormed, Platform!IdentitiesDistinct,
         Platform!Neighbor, Neighbor, Apart
<1>2. PICK acc \in [0 .. n -> Passes] :
         /\ acc[0] = Start
         /\ \A k \in 1 .. n : acc[k] = ReconcileItem(acc[k - 1], snapshot[k])
         /\ acc[n] = Reconciled(snapshot)
  BY <1>1, ReconcileSteps
<1> DEFINE Room(k) == Len(acc[k].known) < LP_DISCOVERY_MAX_NEIGHBORS
           Shown(k) == \A j \in 1 .. k : ShownIn(acc[k], snapshot[j])
           Good == {k \in Nat : k <= n /\ Room(k) => Shown(k)}
<1>3. \A k \in 0 .. n : Len(acc[k].known) \in Nat
  BY <1>2 DEF Passes
<1>4. 0 \in Good
  OBVIOUS
<1>5. ASSUME NEW k \in Good PROVE k + 1 \in Good
  <2> SUFFICES ASSUME k + 1 <= n, Room(k + 1) PROVE Shown(k + 1)
    OBVIOUS
  <2>1. /\ k + 1 \in 1 .. n /\ k \in 0 .. n /\ k + 1 \in 0 .. n /\ k + 1 - 1 = k
        /\ k <= n
    BY <1>1
  <2>2. /\ acc[k] \in Passes /\ snapshot[k + 1] \in Neighbor
        /\ acc[k + 1] = ReconcileItem(acc[k], snapshot[k + 1])
    BY <1>1, <1>2, <2>1
  <2>3. Room(k)
    <3>1. Len(acc[k].known) <= Len(acc[k + 1].known)
      BY <2>2, ItemNeverShrinks
    <3> QED
      BY <1>1, <1>3, <2>1, <3>1
  <2>4. Shown(k)
    BY <2>1, <2>3
  <2> HIDE DEF Good
  <2>5. ShownIn(acc[k + 1], snapshot[k + 1])
    BY <2>2, ItemIsShown
  <2>6. ASSUME NEW j \in 1 .. k PROVE ShownIn(acc[k + 1], snapshot[j])
    <3>1. j \in 1 .. n /\ j # k + 1 /\ k + 1 \in 1 .. n
      BY <1>1, <2>1
    <3>2. Apart(snapshot[j], snapshot[k + 1]) /\ snapshot[j] \in Neighbor
      BY <1>1, <3>1
    <3> QED
      BY <2>2, <2>4, <3>2, ItemKeepsShown
  <2>7. \A j \in 1 .. k + 1 : j = k + 1 \/ j \in 1 .. k
    BY <2>1
  <2>8. \A j \in 1 .. k + 1 : ShownIn(acc[k + 1], snapshot[j])
    BY <2>5, <2>6, <2>7
  <2> QED
    BY <2>8
<1>6. Good = Nat
  <2>1. Good \in SUBSET Nat
    OBVIOUS
  <2> HIDE DEF Good
  <2> QED
    BY <1>4, <1>5, <2>1, Reconciling!Induction
<1>7. n \in Good /\ Room(n)
  BY <1>1, <1>2, <1>6
<1>8. Shown(n)
  BY <1>1, <1>7
<1> QED
  BY <1>1, <1>2, <1>8

\* A poll shows its snapshot: the entries it took or added are active and are
\* not given up.
LEMMA PollShowsSnapshot ==
    ASSUME TypeOK, NEW snapshot, WellFormed(snapshot), PollWith(snapshot)
    PROVE  SnapshotShown'
<1> DEFINE pass == Reconciled(snapshot)
<1>1. /\ known' = pass.known
      /\ active' = [idx \in DOMAIN pass.known |-> pass.active[idx] /\ ~GivenUp(pass, idx)]
      /\ current' = snapshot
  BY DEF PollWith
<1> SUFFICES ASSUME Len(known') < LP_DISCOVERY_MAX_NEIGHBORS, NEW item \in ToSet(current')
             PROVE  \E idx \in DOMAIN known' : known'[idx] = item /\ active'[idx]
  BY DEF SnapshotShown
<1>2. PICK j \in DOMAIN snapshot : item = snapshot[j]
  BY <1>1 DEF ToSet
<1>3. ShownIn(pass, item)
  BY <1>1, <1>2, ReconciledShows
<1> HIDE DEF pass
<1>4. PICK idx \in DOMAIN pass.known :
         pass.known[idx] = item /\ pass.active[idx] /\ idx \in pass.seen
  BY <1>3 DEF ShownIn
<1>5. ~GivenUp(pass, idx)
  BY <1>4 DEF GivenUp
<1> QED
  BY <1>1, <1>4, <1>5

\* A failed poll and a step of something else say nothing new.
LEMMA OthersKeepShown ==
    ASSUME SnapshotShown, PollFails \/ UNCHANGED vars
    PROVE  SnapshotShown'
<1>1. CASE PollFails
  BY <1>1 DEF SnapshotShown, PollFails
<1>2. CASE UNCHANGED vars
  BY <1>2 DEF SnapshotShown, vars, discovery
<1> QED
  BY <1>1, <1>2

\* Before the first poll no snapshot is claimed to be shown.
LEMMA NothingToShow == Init => SnapshotShown
  BY DEF Init, SnapshotShown

\* Every device of the last snapshot is active in the core's list, with exactly
\* its address and MAC, unless the list is full (discovery.c:73-97).
THEOREM SnapshotIsShown == Spec => []SnapshotShown
<1>1. TypeOK /\ SnapshotShown /\ [Next]_vars => (TypeOK /\ SnapshotShown)'
  <2> SUFFICES ASSUME TypeOK, SnapshotShown, [Next]_vars PROVE TypeOK' /\ SnapshotShown'
    OBVIOUS
  <2>1. CASE Poll
    <3>1. PICK snapshot \in Snapshots : PollWith(snapshot)
      BY <2>1 DEF Poll
    <3>2. WellFormed(snapshot) /\ snapshot \in Seq(Neighbor)
      BY DiscoveryAssumption, SnapshotsWellFormed
    <3> QED
      BY <3>1, <3>2, PollKeepsType, PollShowsSnapshot
  <2>2. CASE PollFails \/ UNCHANGED vars
    BY <2>2, OthersKeepType, OthersKeepShown
  <2> QED
    BY <2>1, <2>2 DEF Next
<1> QED
  BY <1>1, InitialType, NothingToShow, PTL DEF Spec

-----------------------------------------------------------------------------
(* The sweep that takes the snapshots.                                     *)

\* The lists a sweep builds: no address twice, no more entries than fit.
Lists == {list \in Seq(Neighbor) :
             /\ Len(list) <= LP_DISCOVERY_MAX_NEIGHBORS
             /\ \A j, k \in DOMAIN list : j # k => list[j].ip # list[k].ip}

Reading == INSTANCE FoldFacts WITH
               Items <- Platform!Row, Values <- Lists, Step <- Platform!AddRow

\* A place of the window that nobody was asked at may be this machine's own
\* address; it has no answer.
Answer == {answer \in [ip : Ips \cup Own, mac : Macs \cup {NoMac}] :
              answer.mac # NoMac => answer.ip \in Ips}

Collecting == INSTANCE FoldFacts WITH
                  Items <- Answer, Values <- Lists, Step <- Platform!AddAnswer

\* A list that an address is not in, and that has room, can take an entry for it.
LEMMA ListGrows ==
    ASSUME NEW list \in Lists, NEW entry \in Neighbor, ~Platform!HasIp(list, entry.ip),
           Len(list) < LP_DISCOVERY_MAX_NEIGHBORS
    PROVE  Append(list, entry) \in Lists
<1>1. list \in Seq(Neighbor) /\ Len(list) \in Nat /\ LP_DISCOVERY_MAX_NEIGHBORS \in Nat
  BY DiscoveryAssumption DEF Lists
<1> DEFINE longer == Append(list, entry)
<1>2. /\ longer \in Seq(Neighbor) /\ Len(longer) = Len(list) + 1
      /\ DOMAIN longer = 1 .. Len(list) + 1
      /\ \A k \in 1 .. Len(list) : longer[k] = list[k]
      /\ longer[Len(list) + 1] = entry
  BY <1>1
<1> HIDE DEF longer
<1>3. \A k \in 1 .. Len(list) : longer[k].ip # entry.ip
  BY <1>2 DEF Platform!HasIp
<1>4. \A j, k \in 1 .. Len(list) : j # k => longer[j].ip # longer[k].ip
  BY <1>1, <1>2 DEF Lists
<1>5. \A k \in DOMAIN longer : k \in 1 .. Len(list) \/ k = Len(list) + 1
  BY <1>1, <1>2
<1>6. \A j, k \in DOMAIN longer : j # k => longer[j].ip # longer[k].ip
  BY <1>2, <1>3, <1>4, <1>5
<1>7. Len(longer) <= LP_DISCOVERY_MAX_NEIGHBORS
  BY <1>1, <1>2
<1>8. longer \in Lists
  BY <1>2, <1>6, <1>7 DEF Lists
<1> QED
  BY <1>8 DEF longer

\* A row of the neighbor table, and an answer, lead from one list to another.
LEMMA RowKeepsLists == Reading!Closed
<1> SUFFICES ASSUME NEW list \in Lists, NEW row \in Platform!Row
             PROVE  Platform!AddRow(list, row) \in Lists
  BY DEF Reading!Closed
<1> DEFINE entry == [ip |-> row.ip, mac |-> row.mac]
<1>1. entry \in Neighbor /\ entry.ip = row.ip
  BY DEF Platform!Row, Neighbor
<1>2. Platform!AddRow(list, row) =
         IF Len(list) < LP_DISCOVERY_MAX_NEIGHBORS /\ row.live /\ ~Platform!HasIp(list, row.ip)
         THEN Append(list, entry) ELSE list
  BY DEF Platform!AddRow
<1> HIDE DEF entry
<1> QED
  BY <1>1, <1>2, ListGrows

\* An answered probe is added to a list or left out, as a row of the table is.
LEMMA AnswerKeepsLists == Collecting!Closed
<1> SUFFICES ASSUME NEW list \in Lists, NEW answer \in Answer
             PROVE  Platform!AddAnswer(list, answer) \in Lists
  BY DEF Collecting!Closed
<1> DEFINE entry == [ip |-> answer.ip, mac |-> answer.mac]
<1>1. answer.mac # NoMac => entry \in Neighbor /\ entry.ip = answer.ip
  BY DEF Answer, Neighbor
<1>2. \/ Platform!AddAnswer(list, answer) = list
      \/ /\ answer.mac # NoMac
         /\ Len(list) < LP_DISCOVERY_MAX_NEIGHBORS /\ ~Platform!HasIp(list, answer.ip)
         /\ Platform!AddAnswer(list, answer) = Append(list, entry)
  <2>1. Len(list) \in Nat /\ LP_DISCOVERY_MAX_NEIGHBORS \in Nat
    BY DiscoveryAssumption DEF Lists
  <2> QED
    BY <2>1 DEF Platform!AddAnswer, Platform!append_active_neighbor
<1> HIDE DEF entry
<1> QED
  BY <1>1, <1>2, ListGrows

\* Which network is next, and the list so far.
SweepOK ==
    /\ at \in Nat
    /\ out \in Lists
    /\ g_active_probe_offset \in Nat
    /\ probes_sent \in Nat

\* The empty list is one.
LEMMA NothingListed == << >> \in Lists
<1>1. << >> \in Seq(Neighbor) /\ Len(<< >>) = 0 /\ DOMAIN << >> = {}
  OBVIOUS
<1>2. 0 <= LP_DISCOVERY_MAX_NEIGHBORS
  BY DiscoveryAssumption
<1> QED
  BY <1>1, <1>2 DEF Lists

\* The addresses of a window are addresses of the network.
LEMMA CandidatesType ==
    ASSUME SweepOK, at \in DOMAIN Subnets, Subnets[at] # << >>
    PROVE  /\ Len(Subnets[at]) \in Nat \ {0}
           /\ Platform!Candidates(Subnets[at]) \in Seq(Ips \cup Own)
<1> DEFINE hosts == Subnets[at]
           n == Len(hosts)
           size == Platform!Smaller(n, LP_ACTIVE_SCAN_MAX_PROBES)
<1>1. hosts \in Seq(Ips \cup Own) /\ hosts # << >>
  BY DiscoveryThreadAssumption
<1>2. n \in Nat \ {0} /\ \A k \in 1 .. n : hosts[k] \in Ips \cup Own
  BY <1>1
<1>3. size \in Nat
  BY <1>2, DiscoveryThreadAssumption DEF Platform!Smaller
<1>4. Platform!Start(hosts) \in Nat
  BY <1>2 DEF Platform!Start, SweepOK
<1> DEFINE place(k) == 1 + ((Platform!Start(hosts) + k - 1) % n)
<1>5. ASSUME NEW k \in 1 .. size PROVE place(k) \in 1 .. n
  <2>1. Platform!Start(hosts) + k - 1 \in Nat
    BY <1>3, <1>4
  <2> HIDE DEF n, size
  <2>2. (Platform!Start(hosts) + k - 1) % n \in 0 .. n - 1
    BY <1>2, <2>1
  <2> QED
    BY <1>2, <2>2
<1>6. Platform!Candidates(hosts) = [k \in 1 .. size |-> hosts[place(k)]]
  BY DEF Platform!Candidates
<1> HIDE DEF hosts, n, size, place
<1>7. \A k \in 1 .. size : hosts[place(k)] \in Ips \cup Own
  BY <1>2, <1>5
<1> QED
  BY <1>2, <1>3, <1>6, <1>7 DEF hosts, n

\* What is asked for is a set of places in the window, none of this machine's.
LEMMA AskedType ==
    ASSUME SweepOK, at \in DOMAIN Subnets, Subnets[at] # << >>
    PROVE  /\ IsFiniteSet(Platform!Asked(Subnets[at]))
           /\ Cardinality(Platform!Asked(Subnets[at])) \in Nat
           /\ Platform!Asked(Subnets[at]) \subseteq DOMAIN Platform!Candidates(Subnets[at])
           /\ \A k \in Platform!Asked(Subnets[at]) : Platform!Candidates(Subnets[at])[k] \in Ips
<1> DEFINE candidates == Platform!Candidates(Subnets[at])
           asked == Platform!Asked(Subnets[at])
<1>1. candidates \in Seq(Ips \cup Own)
  BY CandidatesType
<1>2. asked \subseteq DOMAIN candidates /\ \A k \in asked : candidates[k] \notin Own
  BY DEF Platform!Asked
<1> HIDE DEF candidates, asked
<1>3. DOMAIN candidates = 1 .. Len(candidates) /\ Len(candidates) \in Nat
  BY <1>1
<1>4. IsFiniteSet(DOMAIN candidates)
  BY <1>3, FS_Interval
<1>5. IsFiniteSet(asked) /\ Cardinality(asked) \in Nat
  BY <1>2, <1>4, FS_Subset, FS_CardinalityType
<1>6. \A k \in asked : candidates[k] \in Ips
  BY <1>1, <1>2, <1>3
<1> QED
  BY <1>2, <1>5, <1>6 DEF candidates, asked

\* The sweep counts as everybody does.
LEMMA SameCount == \A S : Platform!Cardinality(S) = Cardinality(S)
  BY DEF Platform!Cardinality, Cardinality

\* The answers of one network, one per place of its window.
LEMMA AnswersType ==
    ASSUME SweepOK, at \in DOMAIN Subnets, Subnets[at] # << >>,
           NEW outcome \in Platform!Outcomes(Platform!Asked(Subnets[at]))
    PROVE  Platform!Answers(Subnets[at], outcome) \in Seq(Answer)
<1> DEFINE candidates == Platform!Candidates(Subnets[at])
           asked == Platform!Asked(Subnets[at])
           answer(k) == [ip |-> candidates[k],
                         mac |-> IF k \in DOMAIN outcome THEN outcome[k] ELSE NoMac]
<1>1. candidates \in Seq(Ips \cup Own)
  BY CandidatesType
<1>2. asked \subseteq DOMAIN candidates /\ \A k \in asked : candidates[k] \in Ips
  BY AskedType
<1>3. outcome \in [asked -> Macs \cup {NoMac}]
  BY DEF Platform!Outcomes
<1>4. Platform!Answers(Subnets[at], outcome) = [k \in DOMAIN candidates |-> answer(k)]
  BY DEF Platform!Answers
<1> HIDE DEF candidates, asked
<1>5. DOMAIN candidates = 1 .. Len(candidates) /\ Len(candidates) \in Nat
  BY <1>1
<1>6. ASSUME NEW k \in DOMAIN candidates PROVE answer(k) \in Answer
  <2>1. candidates[k] \in Ips \cup Own
    BY <1>1, <1>5
  <2>2. CASE k \in asked
    <3>1. outcome[k] \in Macs \cup {NoMac} /\ k \in DOMAIN outcome /\ candidates[k] \in Ips
      BY <1>2, <1>3, <2>2
    <3> QED
      BY <2>1, <3>1 DEF Answer
  <2>3. CASE k \notin asked
    <3>1. k \notin DOMAIN outcome
      BY <1>3, <2>3
    <3> QED
      BY <2>1, <3>1 DEF Answer
  <2> QED
    BY <2>2, <2>3
<1> HIDE DEF answer
<1> QED
  BY <1>4, <1>5, <1>6

\* Every step of the sweep leads from one list to another.
LEMMA SweepKeepsOK ==
    ASSUME SweepOK, Platform!Sweeps \/ Platform!Returns \/ UNCHANGED sweep
    PROVE  SweepOK'
<1>1. CASE Platform!ReadsTable
  <2>1. PICK table \in Tables : out' = Reading!Loop(<< >>, table)
    BY <1>1 DEF Platform!ReadsTable, Platform!FoldLeft, Platform!MapThenFoldSet, Platform!Max,
                Reading!Loop, Reading!FoldLeft, Reading!MapThenFoldSet, Reading!Max
  <2>2. table \in Seq(Platform!Row)
    BY DiscoveryThreadAssumption
  <2>3. out' = Reading!Loop(<< >>, table)
    BY <2>1
  <2>4. PICK acc \in [0 .. Len(table) -> Lists] : acc[Len(table)] = Reading!Loop(<< >>, table)
    BY <2>2, NothingListed, RowKeepsLists, Reading!FoldLeftSteps
  <2>5. Len(table) \in 0 .. Len(table)
    BY <2>2
  <2>6. out' \in Lists
    BY <2>3, <2>4, <2>5
  <2> QED
    BY <1>1, <2>6 DEF Platform!ReadsTable, SweepOK
<1>2. CASE Platform!PassesOver
  BY <1>2 DEF Platform!PassesOver, SweepOK
<1>3. CASE Platform!ProbesSubnet
  <2> DEFINE hosts == Subnets[at]
             asked == Platform!Asked(hosts)
  <2>1. at \in DOMAIN Subnets /\ hosts # << >>
    BY <1>3 DEF Platform!ProbesSubnet, Platform!PassedOver
  <2>2. PICK outcome \in Platform!Outcomes(asked) :
           /\ out' = Platform!WithAnswers(hosts, outcome)
           /\ probes_sent' = probes_sent + Cardinality(asked)
           /\ at' \in {Platform!Finished, at + 1}
           /\ g_active_probe_offset' \in {g_active_probe_offset,
                                         Platform!Advance(hosts, asked)}
    BY <1>3, SameCount DEF Platform!ProbesSubnet
  <2>3. Platform!Answers(hosts, outcome) \in Seq(Answer)
    BY <2>1, AnswersType
  <2>4. Len(hosts) \in Nat \ {0} /\ Cardinality(asked) \in Nat
    BY <2>1, CandidatesType, AskedType
  <2> DEFINE answers == Platform!Answers(hosts, outcome)
  <2>5. out' = Collecting!Loop(out, answers)
    <3>1. Platform!WithAnswers(hosts, outcome) = Collecting!Loop(out, answers)
      BY DEF Platform!WithAnswers, Platform!FoldLeft, Platform!MapThenFoldSet, Platform!Max,
             Collecting!Loop, Collecting!FoldLeft, Collecting!MapThenFoldSet, Collecting!Max
    <3> QED
      BY <2>2, <3>1
  <2>6. answers \in Seq(Answer) /\ out \in Lists
    BY <2>3 DEF SweepOK
  <2> HIDE DEF answers, asked, hosts
  <2>7. PICK acc \in [0 .. Len(answers) -> Lists] :
           acc[Len(answers)] = Collecting!Loop(out, answers)
    BY <2>6, AnswerKeepsLists, Collecting!FoldLeftSteps
  <2>8. Len(answers) \in 0 .. Len(answers)
    BY <2>6
  <2>9. out' \in Lists
    BY <2>5, <2>7, <2>8
  <2>10. at' \in Nat
    <3>1. Platform!Finished \in Nat
      BY DiscoveryThreadAssumption DEF Platform!Finished
    <3> QED
      BY <2>2, <3>1 DEF SweepOK
  <2>11. g_active_probe_offset' \in Nat
    <3>1. Platform!Start(hosts) \in Nat
      BY <2>4 DEF Platform!Start, SweepOK
    <3>2. Platform!Start(hosts) + Cardinality(asked) \in Nat
      BY <2>4, <3>1
    <3>3. Platform!Advance(hosts, asked) \in Nat
      <4> DEFINE reached == Platform!Start(hosts) + Cardinality(asked)
                 n == Len(hosts)
      <4>1. reached \in Nat /\ n \in Nat \ {0}
        BY <2>4, <3>2
      <4>2. Platform!Advance(hosts, asked) = reached % n
        BY DEF Platform!Advance
      <4> HIDE DEF reached, n
      <4> QED
        BY <4>1, <4>2
    <3> QED
      BY <2>2, <3>3 DEF SweepOK
  <2>12. probes_sent' \in Nat
    BY <2>2, <2>4 DEF SweepOK
  <2> QED
    BY <2>9, <2>10, <2>11, <2>12 DEF SweepOK
<1>4. CASE Platform!Returns
  BY <1>4, NothingListed DEF Platform!Returns, SweepOK
<1>5. CASE UNCHANGED sweep
  BY <1>5 DEF SweepOK, sweep
<1> QED
  BY <1>1, <1>2, <1>3, <1>4, <1>5 DEF Platform!Sweeps

\* Blanking the MACs that addresses share leaves identities that are distinct.
LEMMA BlankingSeparates ==
    ASSUME NEW list \in Lists
    PROVE  WellFormed(Platform!clear_ambiguous_macs(list))
<1> DEFINE shared(k) == \E other \in DOMAIN list \ {k} : list[other].mac = list[k].mac
           blank == Platform!clear_ambiguous_macs(list)
<1>1. list \in Seq(Neighbor) /\ DOMAIN list = 1 .. Len(list) /\ Len(list) \in Nat
  BY DEF Lists
<1>2. blank = [k \in DOMAIN list |-> IF shared(k) THEN [list[k] EXCEPT !.mac = NoMac] ELSE list[k]]
  BY DEF Platform!clear_ambiguous_macs
<1>3. \A k \in DOMAIN list : list[k] \in Neighbor
  BY <1>1
<1> HIDE DEF blank
<1>4. ASSUME NEW k \in DOMAIN list
      PROVE  /\ blank[k] \in Neighbor
             /\ blank[k].ip = list[k].ip
             /\ blank[k].mac = IF shared(k) THEN NoMac ELSE list[k].mac
  <2>1. list[k] \in Neighbor
    BY <1>3
  <2>2. blank[k] = IF shared(k) THEN [list[k] EXCEPT !.mac = NoMac] ELSE list[k]
    BY <1>2
  <2> HIDE DEF shared
  <2>3. CASE shared(k)
    BY <2>1, <2>2, <2>3 DEF Neighbor
  <2>4. CASE ~shared(k)
    BY <2>1, <2>2, <2>4
  <2> QED
    BY <2>3, <2>4
<1>5. blank \in Seq(Neighbor) /\ Len(blank) = Len(list) /\ DOMAIN blank = DOMAIN list
  BY <1>1, <1>2, <1>4
<1>6. ASSUME NEW j \in DOMAIN list, NEW k \in DOMAIN list, j # k
      PROVE  /\ blank[j].ip # blank[k].ip
             /\ blank[j].mac = blank[k].mac => blank[j].mac = NoMac
  <2>1. list[j].ip # list[k].ip
    BY <1>6 DEF Lists
  <2>2. list[j].mac = list[k].mac => shared(j) /\ shared(k)
    BY <1>6
  <2> HIDE DEF shared
  <2> QED
    BY <1>4, <2>1, <2>2
<1>7. Len(blank) <= LP_DISCOVERY_MAX_NEIGHBORS
  BY <1>5 DEF Lists
<1>8. blank \in Seq(Platform!Neighbor)
  BY <1>5 DEF Neighbor, Platform!Neighbor
<1>9. Platform!IdentitiesDistinct(blank)
  BY <1>5, <1>6 DEF Platform!IdentitiesDistinct
<1> QED
  BY <1>7, <1>8, <1>9 DEF WellFormed, Platform!WellFormed, blank

\* Between sweeps the list is empty.
LEMMA SweepBegins == Platform!Init => SweepOK
  BY NothingListed DEF Platform!Init, SweepOK

\* What a sweep hands over is what the core relies on.
LEMMA SweepPromises == SweepOK => WellFormed(Platform!Snapshot)
  BY BlankingSeparates DEF SweepOK, Platform!Snapshot

\* A step of the discovery thread is one of the sweep or none, and one of the
\* core, with a snapshot of the sweep, or none.
LEMMA ThreadSteps ==
    ASSUME [ThreadNext]_all
    PROVE  /\ Platform!Sweeps \/ Platform!Returns \/ UNCHANGED sweep
           /\ PollWith(Platform!Snapshot) \/ PollFails \/ UNCHANGED vars
<1>1. CASE Sweeps
  BY <1>1 DEF Sweeps
<1>2. CASE PollsSnapshot
  BY <1>2 DEF PollsSnapshot
<1>3. CASE SnapshotFails
  BY <1>3 DEF SnapshotFails
<1>4. CASE UNCHANGED all
  BY <1>4 DEF all
<1> QED
  BY <1>1, <1>2, <1>3, <1>4 DEF ThreadNext

\* However requests, answers and late answers mix, the snapshot of a sweep has no
\* address and no MAC twice and no more entries than fit (lp_net_neighbor_snapshot
\* and probe_active_subnets, discovery_win32.c:508-715).
THEOREM SnapshotsKeepPromise == ThreadSpec => []SnapshotsAsPromised
<1>1. ThreadInit => SweepOK
  BY SweepBegins DEF ThreadInit
<1>2. SweepOK /\ [ThreadNext]_all => SweepOK'
  BY ThreadSteps, SweepKeepsOK
<1>3. SweepOK => SnapshotsAsPromised
  BY SweepPromises DEF SnapshotsAsPromised, Platform!SnapshotsAsPromised, WellFormed
<1> QED
  BY <1>1, <1>2, <1>3, PTL DEF ThreadSpec

\* So on its own platform the core shows every device of every sweep, whatever
\* the tables and the answers were (discovery_thread_proc, tray_win32.c:327-336).
THEOREM SweepsAreShown == ThreadSpec => [](TypeOK /\ SnapshotShown)
<1>1. ThreadInit => SweepOK /\ TypeOK /\ SnapshotShown
  BY SweepBegins, InitialType, NothingToShow DEF ThreadInit
<1>2. SweepOK /\ TypeOK /\ SnapshotShown /\ [ThreadNext]_all
         => (SweepOK /\ TypeOK /\ SnapshotShown)'
  <2> SUFFICES ASSUME SweepOK, TypeOK, SnapshotShown, [ThreadNext]_all
               PROVE  SweepOK' /\ TypeOK' /\ SnapshotShown'
    OBVIOUS
  <2>1. SweepOK'
    BY ThreadSteps, SweepKeepsOK
  <2>2. CASE PollWith(Platform!Snapshot)
    <3> DEFINE snapshot == Platform!Snapshot
    <3>1. WellFormed(snapshot)
      BY SweepPromises
    <3>2. snapshot \in Seq(Neighbor)
      BY <3>1 DEF WellFormed, Platform!WellFormed, Platform!Neighbor, Neighbor
    <3>3. PollWith(snapshot)
      BY <2>2
    <3> HIDE DEF snapshot
    <3> QED
      BY <2>1, <3>1, <3>2, <3>3, PollKeepsType, PollShowsSnapshot
  <2>3. CASE PollFails \/ UNCHANGED vars
    BY <2>1, <2>3, OthersKeepType, OthersKeepShown
  <2> QED
    BY <2>2, <2>3, ThreadSteps
<1> QED
  BY <1>1, <1>2, PTL DEF ThreadSpec

\* The core alone, given every snapshot that is well-formed, allows all that the
\* thread does: what holds of Discovery holds on the platform.
THEOREM ThreadImplementsCore ==
    ASSUME \A list : WellFormed(list) => list \in Snapshots
    PROVE  ThreadSpec => Spec
<1>1. ThreadInit => SweepOK /\ Init
  BY SweepBegins DEF ThreadInit
<1>2. SweepOK /\ [ThreadNext]_all => SweepOK' /\ [Next]_vars
  <2> SUFFICES ASSUME SweepOK, [ThreadNext]_all PROVE SweepOK' /\ [Next]_vars
    OBVIOUS
  <2>1. SweepOK'
    BY ThreadSteps, SweepKeepsOK
  <2>2. CASE PollWith(Platform!Snapshot)
    <3>1. Platform!Snapshot \in Snapshots
      BY SweepPromises
    <3> QED
      BY <2>1, <2>2, <3>1 DEF Next, Poll
  <2>3. CASE PollFails \/ UNCHANGED vars
    BY <2>1, <2>3 DEF Next
  <2> QED
    BY <2>2, <2>3, ThreadSteps
<1> QED
  BY <1>1, <1>2, PTL DEF ThreadSpec, Spec

-----------------------------------------------------------------------------
(* What a listener hears on a network whose devices can be told apart.     *)

\* Every entry is a device of its own.
KnownOK ==
    /\ \A idx \in DOMAIN known : known[idx] \in Sighted
    /\ \A j, k \in DOMAIN known : j # k => known[j] # known[k]

\* On such a network two neighbors match only if they are the same.
LEMMA MatchIsSame ==
    ASSUME StableNetwork, NEW a \in Sighted, NEW b \in Sighted, neighbors_match(a, b)
    PROVE  a = b
  BY DEF StableNetwork, neighbors_match, Identity

\* Different devices that leave one out are fewer than there are devices.
LEMMA LeftOut ==
    ASSUME NEW D, IsFiniteSet(D), NEW x \in D, NEW n \in Nat,
           NEW f \in [1 .. n -> D \ {x}], \A j, k \in 1 .. n : j # k => f[j] # f[k]
    PROVE  n < Cardinality(D)
<1>1. Cardinality(D) \in Nat
  BY FS_CardinalityType
<1>2. IsFiniteSet(D \ {x}) /\ Cardinality(D \ {x}) = Cardinality(D) - 1
  BY FS_RemoveElement
<1>3. f \in Injection(1 .. n, D \ {x})
  BY DEF Injection, IsInjective
<1>4. Cardinality(1 .. n) <= Cardinality(D \ {x})
  BY <1>2, <1>3, FS_Injection
<1>5. Cardinality(1 .. n) = n
  BY FS_Interval
<1> QED
  BY <1>1, <1>2, <1>4, <1>5

\* A list of events in which no device occurs twice, and only those in D do.
Telling(list, D) ==
    /\ \A e \in DOMAIN list : list[e].neighbor \in D
    /\ \A e, f \in DOMAIN list : e # f => list[e].neighbor # list[f].neighbor

Tells(type, x) == [type |-> type, neighbor |-> x]

\* The events of a poll in which the devices in D come or go: none that is not
\* due, and all that are if there is room for as many as there are devices.
Reports(list, told, D) ==
    /\ list \in EventLists
    /\ ToSet(list) \subseteq told
    /\ Cardinality(D) <= LP_DISCOVERY_MAX_EVENTS => Telling(list, D) /\ ToSet(list) = told

\* There is room for an event about a device that has none yet.
LEMMA RoomToTell ==
    ASSUME NEW D, IsFiniteSet(D), Cardinality(D) <= LP_DISCOVERY_MAX_EVENTS,
           NEW list \in EventLists, Telling(list, D),
           NEW x \in D, \A e \in DOMAIN list : list[e].neighbor # x
    PROVE  Len(list) < LP_DISCOVERY_MAX_EVENTS
<1>1. /\ list \in Seq(Event) /\ Len(list) \in Nat
      /\ DOMAIN list = 1 .. Len(list)
  BY DEF EventLists
<1> DEFINE about == [e \in 1 .. Len(list) |-> list[e].neighbor]
<1>2. about \in [1 .. Len(list) -> D \ {x}]
  BY <1>1 DEF Telling
<1>3. \A j, k \in 1 .. Len(list) : j # k => about[j] # about[k]
  BY <1>1 DEF Telling
<1> HIDE DEF about
<1>4. Len(list) < Cardinality(D) /\ Cardinality(D) \in Nat
  BY <1>1, <1>2, <1>3, LeftOut, FS_CardinalityType
<1> QED
  BY <1>1, <1>4, DiscoveryAssumption

\* One event more.
LEMMA ReportAdds ==
    ASSUME NEW D, IsFiniteSet(D), NEW told, NEW list, Reports(list, told, D),
           NEW type \in {"JOINED", "LEFT"}, NEW x \in D, x \in Neighbor,
           \A event \in told : event.neighbor # x
    PROVE  Reports(Emit(list, type, x), told \cup {Tells(type, x)}, D)
<1>1. /\ list \in Seq(Event) /\ Len(list) \in Nat /\ list \in EventLists
      /\ DOMAIN list = 1 .. Len(list) /\ ToSet(list) \subseteq told
  BY DEF Reports, EventLists
<1> DEFINE longer == Append(list, Tells(type, x))
<1>2. \A e \in DOMAIN list : list[e].neighbor # x
  BY <1>1 DEF ToSet
<1>3. Tells(type, x).neighbor = x /\ Tells(type, x) \in Event
  BY DEF Tells, Event
<1>4. /\ DOMAIN longer = 1 .. Len(list) + 1
      /\ \A e \in 1 .. Len(list) : longer[e] = list[e]
      /\ longer[Len(list) + 1] = Tells(type, x)
  BY <1>1, <1>3
<1>5. Emit(list, type, x) \in EventLists
  BY <1>1, EmitType
<1>6. CASE Len(list) < LP_DISCOVERY_MAX_EVENTS
  <2>1. Emit(list, type, x) = longer
    BY <1>6 DEF Emit, Tells
  <2> HIDE DEF longer
  <2>2. \A e \in DOMAIN longer : e \in 1 .. Len(list) \/ e = Len(list) + 1
    BY <1>1, <1>4
  <2>3. ToSet(longer) = ToSet(list) \cup {Tells(type, x)}
    <3>1. \A e \in 1 .. Len(list) : e \in DOMAIN longer
      BY <1>1, <1>4
    <3>2. Len(list) + 1 \in DOMAIN longer
      BY <1>1, <1>4
    <3> QED
      BY <1>1, <1>4, <2>2, <3>1, <3>2 DEF ToSet
  <2>4. ASSUME Telling(list, D) PROVE Telling(longer, D)
    <3>1. \A e \in DOMAIN longer : longer[e].neighbor \in D
      BY <1>1, <1>3, <1>4, <2>2, <2>4 DEF Telling
    <3>2. \A e \in 1 .. Len(list) : longer[e].neighbor # longer[Len(list) + 1].neighbor
      BY <1>1, <1>2, <1>3, <1>4
    <3>3. \A e, f \in 1 .. Len(list) : e # f => longer[e].neighbor # longer[f].neighbor
      BY <1>1, <1>4, <2>4 DEF Telling
    <3>4. \A e, f \in DOMAIN longer : e # f => longer[e].neighbor # longer[f].neighbor
      BY <2>2, <3>2, <3>3
    <3> QED
      BY <3>1, <3>4 DEF Telling
  <2> QED
    BY <1>1, <1>5, <2>1, <2>3, <2>4 DEF Reports
<1>7. CASE ~(Len(list) < LP_DISCOVERY_MAX_EVENTS)
  <2>1. Emit(list, type, x) = list
    BY <1>7 DEF Emit
  <2>2. ~(Cardinality(D) <= LP_DISCOVERY_MAX_EVENTS)
    BY <1>1, <1>2, <1>7, RoomToTell DEF Reports
  <2> QED
    BY <1>1, <2>1, <2>2 DEF Reports
<1> QED
  BY <1>6, <1>7

\* The devices the list shows as active.
ActiveSet == {known[idx] : idx \in {k \in DOMAIN known : active[k]}}

\* The first loop, when it has gone through the devices in S: old entries stay
\* where they are; every device in S has an entry, and those are the seen ones;
\* the active ones are these and those that were; and exactly the devices that
\* were not active are announced.
EntriesOK(pass, S) ==
    /\ \A idx \in DOMAIN known : pass.known[idx] = known[idx]
    /\ \A idx \in DOMAIN pass.known : pass.known[idx] \in Sighted
    /\ \A j, k \in DOMAIN pass.known : j # k => pass.known[j] # pass.known[k]
    /\ \A idx \in DOMAIN pass.known : idx \in pass.seen <=> pass.known[idx] \in S
    /\ \A x \in S : \E idx \in DOMAIN pass.known : pass.known[idx] = x

FlagsOK(pass) ==
    \A idx \in DOMAIN pass.known :
        pass.active[idx] <=> idx \in pass.seen \/ (idx \in DOMAIN known /\ active[idx])

News(S) == IF has_baseline THEN S \ ActiveSet ELSE {}

Joined(S) == {Tells("JOINED", x) : x \in News(S)}

JoinsOK(pass, S, D) == Reports(pass.events, Joined(S), D)

\* The event of one item, when its entry says whether it was active.
LEMMA JoinIsTold ==
    ASSUME NEW pass, NEW S, NEW D, IsFiniteSet(D), JoinsOK(pass, S, D),
           NEW item \in Neighbor, item \notin S, News(S \cup {item}) \subseteq D,
           NEW idx, Joins(pass, idx) <=> item \notin ActiveSet
    PROVE  Reports(JoinedEvents(pass, item, idx), Joined(S \cup {item}), D)
<1>1. Reports(pass.events, Joined(S), D)
  BY DEF JoinsOK
<1>2. \A event \in Joined(S) : event.neighbor # item
  BY DEF Joined, News, Tells
<1>3. CASE has_baseline /\ Joins(pass, idx)
  <2>1. JoinedEvents(pass, item, idx) = Emit(pass.events, "JOINED", item)
    BY <1>3 DEF JoinedEvents
  <2>2. News(S \cup {item}) = News(S) \cup {item}
    BY <1>3 DEF News
  <2>3. Joined(S \cup {item}) = Joined(S) \cup {Tells("JOINED", item)}
    BY <2>2 DEF Joined
  <2>4. item \in D
    BY <2>2
  <2>5. Reports(Emit(pass.events, "JOINED", item), Joined(S) \cup {Tells("JOINED", item)}, D)
    BY <1>1, <1>2, <2>4, ReportAdds
  <2> QED
    BY <2>1, <2>3, <2>5
<1>4. CASE ~(has_baseline /\ Joins(pass, idx))
  <2>1. JoinedEvents(pass, item, idx) = pass.events
    BY <1>4 DEF JoinedEvents
  <2>2. News(S \cup {item}) = News(S)
    BY <1>4 DEF News
  <2> QED
    BY <1>1, <2>1, <2>2 DEF Joined
<1> QED
  BY <1>3, <1>4

\* An item whose device has an entry takes that entry over.
LEMMA TakenKeepsLoop ==
    ASSUME StableNetwork, TypeOK, KnownOK, NEW pass \in Passes, NEW S \in SUBSET Sighted,
           EntriesOK(pass, S), FlagsOK(pass), NEW D, IsFiniteSet(D), JoinsOK(pass, S, D),
           NEW item \in Sighted, item \in Neighbor, item \notin S,
           News(S \cup {item}) \subseteq D,
           NEW after, NEW idx \in DOMAIN known, Takes(pass, item, after, idx)
    PROVE  /\ EntriesOK(after, S \cup {item}) /\ FlagsOK(after)
           /\ JoinsOK(after, S \cup {item}, D)
<1>1. /\ pass.known \in Seq(Neighbor) /\ pass.active \in Seq(BOOLEAN)
      /\ Len(pass.active) = Len(pass.known) /\ Len(pass.known) \in Nat
      /\ DOMAIN pass.known = 1 .. Len(pass.known) /\ DOMAIN pass.active = DOMAIN pass.known
      /\ Len(known) \in Nat /\ DOMAIN known = 1 .. Len(known) /\ Len(known) <= Len(pass.known)
  BY DEF Passes, PassOK, TypeOK
<1>2. idx \in DOMAIN pass.known /\ idx # 0
  BY <1>1
<1>3. pass.known[idx] = item /\ known[idx] = item
  <2>1. pass.known[idx] \in Sighted /\ pass.known[idx] = known[idx]
    BY <1>2 DEF EntriesOK
  <2> QED
    BY <2>1, MatchIsSame DEF Takes
<1>4. after.known = pass.known
  BY <1>1, <1>2, <1>3 DEF Takes
<1>5. after.seen = pass.seen \cup {idx} /\ after.active = [pass.active EXCEPT ![idx] = TRUE]
  BY DEF Takes
<1>6. EntriesOK(after, S \cup {item})
  <2>1. ASSUME NEW k \in DOMAIN pass.known
        PROVE  k \in after.seen <=> pass.known[k] \in S \cup {item}
    <3>1. k = idx <=> pass.known[k] = item
      BY <1>2, <1>3 DEF EntriesOK
    <3> QED
      BY <1>5, <3>1 DEF EntriesOK
  <2>2. \A x \in S \cup {item} : \E k \in DOMAIN pass.known : pass.known[k] = x
    BY <1>2, <1>3 DEF EntriesOK
  <2> QED
    BY <1>4, <2>1, <2>2 DEF EntriesOK
<1>7. FlagsOK(after)
  <2> SUFFICES ASSUME NEW k \in DOMAIN pass.known
               PROVE  after.active[k] <=> k \in after.seen \/ (k \in DOMAIN known /\ active[k])
    BY <1>4 DEF FlagsOK
  <2>1. CASE k = idx
    BY <1>1, <1>5, <2>1
  <2>2. CASE k # idx
    <3>1. after.active[k] = pass.active[k] /\ (k \in after.seen <=> k \in pass.seen)
      BY <1>1, <1>5, <2>2
    <3> QED
      BY <3>1 DEF FlagsOK
  <2> QED
    BY <2>1, <2>2
<1>8. Joins(pass, idx) <=> item \notin ActiveSet
  <2>1. item \in ActiveSet <=> active[idx]
    BY <1>3 DEF ActiveSet, KnownOK
  <2>2. idx \notin pass.seen
    BY <1>2, <1>3 DEF EntriesOK
  <2>3. pass.active[idx] <=> active[idx]
    BY <1>2, <2>2 DEF FlagsOK
  <2> QED
    BY <1>2, <2>1, <2>3 DEF Joins
<1>9. JoinsOK(after, S \cup {item}, D)
  <2>1. after.events = JoinedEvents(pass, item, idx)
    BY DEF Takes
  <2> QED
    BY <1>8, <2>1, JoinIsTold DEF JoinsOK
<1> QED
  BY <1>6, <1>7, <1>9

\* An item whose device has no entry yet does not have one among those the loop
\* has added either, which are all seen; so there is room for it.
LEMMA NewHasRoom ==
    ASSUME StableNetwork, TypeOK, NEW pass \in Passes, NEW S \in SUBSET Sighted,
           EntriesOK(pass, S), NEW item \in Sighted, item \notin S,
           \A idx \in DOMAIN known : ~neighbors_match(pass.known[idx], item)
    PROVE  /\ \A k \in DOMAIN pass.known : pass.known[k] # item
           /\ Len(pass.known) < LP_DISCOVERY_MAX_NEIGHBORS
<1>1. /\ pass.known \in Seq(Neighbor) /\ Len(pass.known) \in Nat
      /\ DOMAIN pass.known = 1 .. Len(pass.known)
      /\ (DOMAIN pass.known) \ (DOMAIN known) \subseteq pass.seen
  BY DEF Passes, PassOK
<1>2. neighbors_match(item, item)
  BY DEF neighbors_match
<1>3. ASSUME NEW k \in DOMAIN pass.known PROVE pass.known[k] # item
  <2>1. CASE k \in DOMAIN known
    BY <1>2, <2>1
  <2>2. CASE k \notin DOMAIN known
    BY <1>1, <2>2 DEF EntriesOK
  <2> QED
    BY <2>1, <2>2
<1> DEFINE f == [k \in 1 .. Len(pass.known) |-> pass.known[k]]
<1>4. f \in [1 .. Len(pass.known) -> Sighted \ {item}]
  BY <1>1, <1>3 DEF EntriesOK
<1>5. \A j, k \in 1 .. Len(pass.known) : j # k => f[j] # f[k]
  BY <1>1 DEF EntriesOK
<1> HIDE DEF f
<1>6. IsFiniteSet(Sighted) /\ Cardinality(Sighted) \in Nat
  BY FS_CardinalityType DEF StableNetwork
<1>7. Len(pass.known) < Cardinality(Sighted)
  BY <1>1, <1>4, <1>5, <1>6, LeftOut
<1>8. Len(pass.known) < LP_DISCOVERY_MAX_NEIGHBORS
  BY <1>1, <1>6, <1>7, DiscoveryAssumption DEF StableNetwork
<1> QED
  BY <1>3, <1>8

\* An item whose device has no entry gets one at the end.
LEMMA AddedKeepsLoop ==
    ASSUME StableNetwork, TypeOK, KnownOK, NEW pass \in Passes, NEW S \in SUBSET Sighted,
           EntriesOK(pass, S), FlagsOK(pass), NEW D, IsFiniteSet(D), JoinsOK(pass, S, D),
           NEW item \in Sighted, item \in Neighbor, item \notin S,
           News(S \cup {item}) \subseteq D,
           NEW after, Adds(pass, item, after)
    PROVE  /\ EntriesOK(after, S \cup {item}) /\ FlagsOK(after)
           /\ JoinsOK(after, S \cup {item}, D)
<1> DEFINE last == Len(pass.known) + 1
           flag == TRUE
<1>1. /\ pass.known \in Seq(Neighbor) /\ pass.active \in Seq(BOOLEAN)
      /\ Len(pass.active) = Len(pass.known) /\ Len(pass.known) \in Nat
      /\ DOMAIN pass.known = 1 .. Len(pass.known) /\ DOMAIN pass.active = DOMAIN pass.known
      /\ Len(known) \in Nat /\ DOMAIN known = 1 .. Len(known) /\ Len(known) <= Len(pass.known)
      /\ pass.seen \subseteq DOMAIN pass.known
  BY DEF Passes, PassOK, TypeOK
<1>2. \A k \in DOMAIN pass.known : pass.known[k] # item
  BY NewHasRoom DEF Adds
<1>3. /\ after.known = Append(pass.known, item) /\ after.active = Append(pass.active, flag)
      /\ after.seen = pass.seen \cup {last} /\ flag \in BOOLEAN
  BY DEF Adds
<1> HIDE DEF flag
<1>4. /\ DOMAIN after.known = 1 .. last
      /\ \A k \in DOMAIN pass.known : after.known[k] = pass.known[k]
      /\ after.known[last] = item
  BY <1>1, <1>3
<1>5. /\ \A k \in DOMAIN pass.known : after.active[k] = pass.active[k]
      /\ after.active[last] = flag
  BY <1>1, <1>3
<1>6. /\ \A k \in DOMAIN after.known : k \in DOMAIN pass.known \/ k = last
      /\ last \notin DOMAIN pass.known /\ last \in DOMAIN after.known
      /\ last \notin DOMAIN known /\ last \notin pass.seen
      /\ \A k \in DOMAIN pass.known : k \in DOMAIN after.known
      /\ \A k \in DOMAIN known : k \in DOMAIN pass.known
  BY <1>1, <1>4
<1> HIDE DEF last
<1>7. EntriesOK(after, S \cup {item})
  <2>1. \A k \in DOMAIN known : after.known[k] = known[k]
    BY <1>4, <1>6 DEF EntriesOK
  <2>2. \A k \in DOMAIN after.known : after.known[k] \in Sighted
    BY <1>4, <1>6 DEF EntriesOK
  <2>3. ASSUME NEW j \in DOMAIN after.known, NEW k \in DOMAIN after.known, j # k
        PROVE  after.known[j] # after.known[k]
    <3>1. CASE j \in DOMAIN pass.known /\ k \in DOMAIN pass.known
      BY <1>4, <2>3, <3>1 DEF EntriesOK
    <3>2. CASE j = last \/ k = last
      BY <1>2, <1>4, <1>6, <2>3, <3>2
    <3> QED
      BY <1>6, <3>1, <3>2
  <2>4. ASSUME NEW k \in DOMAIN after.known
        PROVE  k \in after.seen <=> after.known[k] \in S \cup {item}
    <3>1. CASE k = last
      BY <1>3, <1>4, <3>1
    <3>2. CASE k \in DOMAIN pass.known
      <4>1. after.known[k] = pass.known[k] /\ pass.known[k] # item /\ k # last
        BY <1>2, <1>4, <1>6, <3>2
      <4> QED
        BY <1>3, <3>2, <4>1 DEF EntriesOK
    <3> QED
      BY <1>6, <3>1, <3>2
  <2>5. ASSUME NEW x \in S \cup {item}
        PROVE  \E k \in DOMAIN after.known : after.known[k] = x
    <3>1. CASE x = item
      BY <1>4, <1>6, <3>1
    <3>2. CASE x \in S
      <4>1. PICK k \in DOMAIN pass.known : pass.known[k] = x
        BY <3>2 DEF EntriesOK
      <4> QED
        BY <1>4, <1>6, <4>1
    <3> QED
      BY <3>1, <3>2
  <2> QED
    BY <2>1, <2>2, <2>3, <2>4, <2>5 DEF EntriesOK
<1>8. FlagsOK(after)
  <2> SUFFICES ASSUME NEW k \in DOMAIN after.known
               PROVE  after.active[k] <=> k \in after.seen \/ (k \in DOMAIN known /\ active[k])
    BY DEF FlagsOK
  <2>1. CASE k = last
    BY <1>3, <1>5, <2>1 DEF flag
  <2>2. CASE k \in DOMAIN pass.known
    <3>1. after.active[k] = pass.active[k] /\ (k \in after.seen <=> k \in pass.seen)
      BY <1>3, <1>5, <1>6, <2>2
    <3> QED
      BY <2>2, <3>1 DEF FlagsOK
  <2> QED
    BY <1>6, <2>1, <2>2
<1>9. Joins(pass, 0) <=> item \notin ActiveSet
  <2>1. item \notin ActiveSet
    <3>1. \A k \in DOMAIN known : known[k] # item
      BY <1>2, <1>6 DEF EntriesOK
    <3> QED
      BY <3>1 DEF ActiveSet
  <2> QED
    BY <2>1 DEF Joins
<1>10. JoinsOK(after, S \cup {item}, D)
  <2>1. after.events = JoinedEvents(pass, item, 0)
    BY DEF Adds
  <2> QED
    BY <1>9, <2>1, JoinIsTold DEF JoinsOK
<1> QED
  BY <1>7, <1>8, <1>10

\* The first loop as a whole.
LEMMA ReconciledMeans ==
    ASSUME StableNetwork, TypeOK, KnownOK, NEW snapshot \in Snapshots,
           NEW D, IsFiniteSet(D), News(ToSet(snapshot)) \subseteq D
    PROVE  /\ Reconciled(snapshot) \in Passes
           /\ EntriesOK(Reconciled(snapshot), ToSet(snapshot))
           /\ FlagsOK(Reconciled(snapshot))
           /\ JoinsOK(Reconciled(snapshot), ToSet(snapshot), D)
<1> DEFINE n == Len(snapshot)
           Upto(k) == {snapshot[j] : j \in 1 .. k}
<1>1. /\ snapshot \in Seq(Neighbor) /\ n \in Nat /\ DOMAIN snapshot = 1 .. n
      /\ \A j, k \in 1 .. n : j # k => snapshot[j].ip # snapshot[k].ip
      /\ \A j \in 1 .. n : snapshot[j] \in Sighted /\ snapshot[j] \in Neighbor
  BY DiscoveryAssumption DEF Sighted, ToSet
<1>2. PICK acc \in [0 .. n -> Passes] :
         /\ acc[0] = Start
         /\ \A k \in 1 .. n : acc[k] = ReconcileItem(acc[k - 1], snapshot[k])
         /\ acc[n] = Reconciled(snapshot)
  BY <1>1, ReconcileSteps
<1> DEFINE LoopOK(pass, S) == EntriesOK(pass, S) /\ FlagsOK(pass) /\ JoinsOK(pass, S, D)
           Good == {k \in Nat : k <= n => LoopOK(acc[k], Upto(k))}
<1>3. 0 \in Good
  <2>1. Upto(0) = {}
    OBVIOUS
  <2>2. acc[0] = Start /\ Start.known = known /\ Start.active = active
        /\ Start.seen = {} /\ Start.events = << >>
    BY <1>2 DEF Start
  <2>3. EntriesOK(Start, {})
    BY <2>2 DEF EntriesOK, KnownOK
  <2>4. FlagsOK(Start)
    BY <2>2 DEF FlagsOK
  <2>5. << >> \in EventLists /\ DOMAIN << >> = {}
    <3>1. << >> \in Seq(Event) /\ Len(<< >>) = 0
      OBVIOUS
    <3> QED
      BY <3>1, DiscoveryAssumption DEF EventLists
  <2>6. ToSet(<< >>) = {} /\ Telling(<< >>, D)
    BY <2>5 DEF Telling, ToSet
  <2>7. JoinsOK(Start, {}, D)
    <3>1. Joined({}) = {}
      BY DEF News, Joined
    <3> QED
      BY <2>2, <2>5, <2>6, <3>1 DEF JoinsOK, Reports
  <2> QED
    BY <2>1, <2>2, <2>3, <2>4, <2>7
<1>4. ASSUME NEW k \in Good PROVE k + 1 \in Good
  <2> SUFFICES ASSUME k + 1 <= n PROVE LoopOK(acc[k + 1], Upto(k + 1))
    OBVIOUS
  <2> DEFINE pass == acc[k]
             item == snapshot[k + 1]
             after == ReconcileItem(pass, item)
             S == Upto(k)
  <2>1. /\ k \in Nat /\ k + 1 \in 1 .. n /\ k \in 0 .. n /\ k + 1 - 1 = k /\ k <= n
        /\ \A j \in 1 .. k : j \in 1 .. n /\ j # k + 1
    BY <1>1
  <2>2. LoopOK(pass, S)
    BY <2>1
  <2>3. pass \in Passes /\ acc[k + 1] = after
    BY <1>2, <2>1
  <2>4. item \in Sighted /\ item \in Neighbor /\ S \in SUBSET Sighted /\ item \notin S
    BY <1>1, <2>1
  <2>5. Upto(k + 1) = S \cup {item}
    <3>1. \A j : j \in 1 .. k + 1 <=> j \in 1 .. k \/ j = k + 1
      BY <2>1
    <3> QED
      BY <3>1
  <2>9. News(S \cup {item}) \subseteq D
    <3>1. S \cup {item} \subseteq ToSet(snapshot)
      BY <1>1, <2>1 DEF ToSet
    <3> QED
      BY <3>1 DEF News
  <2> HIDE DEF pass, item, after, S, Upto, Good
  <2>6. \/ \E idx \in DOMAIN known : Takes(pass, item, after, idx)
        \/ Adds(pass, item, after)
        \/ FindsNoRoom(pass, item, after)
    BY <2>3, <2>4, ItemEffect DEF after
  <2>7. ~FindsNoRoom(pass, item, after)
    <3>1. Len(pass.known) \in Nat /\ LP_DISCOVERY_MAX_NEIGHBORS \in Nat
      BY <2>3, DiscoveryAssumption DEF Passes
    <3> QED
      BY <2>2, <2>3, <2>4, <3>1, NewHasRoom DEF FindsNoRoom
  <2>8. LoopOK(after, S \cup {item})
    BY <2>2, <2>3, <2>4, <2>6, <2>7, <2>9, TakenKeepsLoop, AddedKeepsLoop
  <2> QED
    BY <2>3, <2>5, <2>8
<1>5. Good = Nat
  <2>1. Good \in SUBSET Nat
    OBVIOUS
  <2> HIDE DEF Good
  <2> QED
    BY <1>3, <1>4, <2>1, Reconciling!Induction
<1>6. LoopOK(acc[n], Upto(n)) /\ acc[n] \in Passes
  <2>1. n \in Good
    BY <1>1, <1>5
  <2>2. LoopOK(acc[n], Upto(n))
    BY <1>1, <2>1
  <2>3. acc[n] \in Passes
    BY <1>1, <1>2
  <2> QED
    BY <2>2, <2>3
<1>7. Upto(n) = ToSet(snapshot)
  BY <1>1 DEF ToSet
<1> HIDE DEF Upto
<1> QED
  BY <1>2, <1>6, <1>7

\* The devices that the second loop has found to be gone.
Leavers(pass, k) == {known[idx] : idx \in {j \in 1 .. k : Departs(pass, j) /\ has_baseline}}

Told(pass, S, k) == Joined(S) \cup {Tells("LEFT", x) : x \in Leavers(pass, k)}

\* What one old entry adds to the events.
LEMMA EntryIsTold ==
    ASSUME TypeOK, KnownOK, NEW S, NEW pass \in Passes, EntriesOK(pass, S),
           NEW k \in Nat, k + 1 \in DOMAIN known,
           NEW D, IsFiniteSet(D), Leavers(pass, k + 1) \subseteq D,
           NEW list, Reports(list, Told(pass, S, k), D)
    PROVE  Reports(EmitLeft(list, OldEntries(pass)[k + 1]), Told(pass, S, k + 1), D)
<1> DEFINE idx == k + 1
           entry == OldEntries(pass)[idx]
           gone == Departs(pass, idx) /\ has_baseline
<1>1. /\ known \in Seq(Neighbor) /\ DOMAIN known = 1 .. Len(known) /\ Len(known) \in Nat
      /\ Len(known) <= Len(pass.known) /\ DOMAIN pass.known = 1 .. Len(pass.known)
      /\ Len(pass.known) \in Nat
  BY DEF TypeOK, Passes, PassOK
<1>2. entry.neighbor = known[idx] /\ (entry.departs <=> gone)
  BY DEF OldEntries, EntriesOK
<1>3. idx \in DOMAIN pass.known /\ idx \in DOMAIN known
  BY <1>1
<1>4. \A j : j \in 1 .. k + 1 <=> j \in 1 .. k \/ j = k + 1
  OBVIOUS
<1> HIDE DEF entry
<1>5. CASE gone
  <2>1. Leavers(pass, k + 1) = Leavers(pass, k) \cup {known[idx]}
    BY <1>4, <1>5 DEF Leavers
  <2>2. known[idx] \in D /\ known[idx] \in Neighbor
    BY <1>1, <1>3, <2>1
  <2>3. known[idx] \notin S
    <3>1. idx \notin pass.seen
      BY <1>5 DEF Departs, GivenUp
    <3> QED
      BY <1>3, <3>1 DEF EntriesOK
  <2>4. known[idx] \notin Leavers(pass, k)
    <3>1. \A j \in 1 .. k : j \in DOMAIN known /\ j # idx
      BY <1>1, <1>3
    <3> QED
      BY <1>3, <3>1 DEF Leavers, KnownOK
  <2>5. \A event \in Told(pass, S, k) : event.neighbor # known[idx]
    BY <2>3, <2>4 DEF Told, Joined, News, Tells
  <2>6. EmitLeft(list, entry) = Emit(list, "LEFT", known[idx])
    BY <1>2, <1>5 DEF EmitLeft
  <2>7. Told(pass, S, k + 1) = Told(pass, S, k) \cup {Tells("LEFT", known[idx])}
    BY <2>1 DEF Told
  <2> DEFINE told == Told(pass, S, k)
             x == known[idx]
  <2> HIDE DEF told, x
  <2>8. Reports(Emit(list, "LEFT", x), told \cup {Tells("LEFT", x)}, D)
    BY <2>2, <2>5, ReportAdds DEF told, x
  <2> QED
    BY <2>6, <2>7, <2>8 DEF entry, told, x
<1>6. CASE ~gone
  <2>1. Leavers(pass, k + 1) = Leavers(pass, k)
    BY <1>4, <1>6 DEF Leavers
  <2>2. EmitLeft(list, entry) = list
    BY <1>2, <1>6 DEF EmitLeft
  <2> QED
    BY <2>1, <2>2 DEF entry, Told
<1> QED
  BY <1>5, <1>6

\* The second loop as a whole: to the joined devices it adds the gone ones.
LEMMA DeparturesMean ==
    ASSUME TypeOK, KnownOK, NEW S, NEW pass \in Passes, EntriesOK(pass, S),
           NEW D, IsFiniteSet(D), Leavers(pass, Len(known)) \subseteq D, JoinsOK(pass, S, D)
    PROVE  Reports(WithDepartures(pass), Told(pass, S, Len(known)), D)
<1> DEFINE n == Len(known)
<1>1. n \in Nat /\ DOMAIN known = 1 .. n
  BY DEF TypeOK
<1>2. PICK acc \in [0 .. n -> EventLists] :
         /\ acc[0] = pass.events
         /\ \A k \in 1 .. n : acc[k] = EmitLeft(acc[k - 1], OldEntries(pass)[k])
         /\ acc[n] = WithDepartures(pass)
  BY DepartureSteps
<1> DEFINE Good == {k \in Nat : k <= n => Reports(acc[k], Told(pass, S, k), D)}
<1>3. 0 \in Good
  <2>1. Leavers(pass, 0) = {}
    BY DEF Leavers
  <2>2. Told(pass, S, 0) = Joined(S)
    BY <2>1 DEF Told
  <2> QED
    BY <1>2, <2>2 DEF JoinsOK
<1>4. ASSUME NEW k \in Good PROVE k + 1 \in Good
  <2> SUFFICES ASSUME k + 1 <= n PROVE Reports(acc[k + 1], Told(pass, S, k + 1), D)
    OBVIOUS
  <2>1. k \in Nat /\ k + 1 \in 1 .. n /\ k + 1 - 1 = k /\ k <= n
    BY <1>1
  <2>2. Reports(acc[k], Told(pass, S, k), D)
    BY <2>1
  <2>3. acc[k + 1] = EmitLeft(acc[k], OldEntries(pass)[k + 1])
    BY <1>2, <2>1
  <2>4. Leavers(pass, k + 1) \subseteq D
    <3>1. \A j \in 1 .. k + 1 : j \in 1 .. n
      BY <1>1, <2>1
    <3> QED
      BY <3>1 DEF Leavers
  <2> HIDE DEF Good
  <2> QED
    BY <1>1, <2>1, <2>2, <2>3, <2>4, EntryIsTold
<1>5. Good = Nat
  <2>1. Good \in SUBSET Nat
    OBVIOUS
  <2> HIDE DEF Good
  <2> QED
    BY <1>3, <1>4, <2>1, Reconciling!Induction
<1>6. Reports(acc[n], Told(pass, S, n), D)
  BY <1>1, <1>5
<1> QED
  BY <1>2, <1>6

\* An old entry the poll did not see, and what becomes of it.
Missed(idx) ==
    /\ idx \in DOMAIN known
    /\ IF missing_polls[idx] + 1 >= LP_DISCOVERY_MISSING_POLLS_BEFORE_LEFT
       THEN ~active'[idx]
       ELSE (active'[idx] <=> active[idx]) /\ missing_polls'[idx] = missing_polls[idx] + 1

\* What a poll does to the entries: old ones keep their devices, every device of
\* the snapshot has an active one, and the others have missed one poll more.
PollsEntries(S) ==
    /\ \A idx \in DOMAIN known : idx \in DOMAIN known' /\ known'[idx] = known[idx]
    /\ \A x \in S : \E idx \in DOMAIN known' : known'[idx] = x
    /\ \A idx \in DOMAIN known' : known'[idx] \in S => active'[idx] /\ missing_polls'[idx] = 0
    /\ \A idx \in DOMAIN known' : known'[idx] \notin S => Missed(idx)

\* The two loops together do this to the entries.
LEMMA PollMovesEntries ==
    ASSUME StableNetwork, TypeOK, KnownOK, NEW snapshot \in Snapshots, PollWith(snapshot)
    PROVE  KnownOK' /\ PollsEntries(ToSet(snapshot))
<1> DEFINE pass == Reconciled(snapshot)
           S == ToSet(snapshot)
<1>1. pass \in Passes /\ EntriesOK(pass, S) /\ FlagsOK(pass)
  <2>1. News(S) \subseteq Sighted
    BY DEF News, Sighted
  <2>2. IsFiniteSet(Sighted)
    BY DEF StableNetwork
  <2> HIDE DEF Sighted
  <2> QED
    BY <2>1, <2>2, ReconciledMeans
<1>2. /\ known' = pass.known
      /\ active' = [idx \in DOMAIN pass.known |-> pass.active[idx] /\ ~GivenUp(pass, idx)]
      /\ missing_polls' = [idx \in DOMAIN pass.known |-> MissingAfter(pass, idx)]
  BY DEF PollWith
<1> HIDE DEF pass, S
<1>3. /\ DOMAIN known = 1 .. Len(known) /\ Len(known) \in Nat
      /\ DOMAIN pass.known = 1 .. Len(pass.known) /\ Len(pass.known) \in Nat
      /\ Len(known) <= Len(pass.known)
      /\ (DOMAIN pass.known) \ (DOMAIN known) \subseteq pass.seen
  BY <1>1 DEF TypeOK, Passes, PassOK
<1>4. KnownOK'
  BY <1>1, <1>2 DEF EntriesOK, KnownOK
<1>5. \A idx \in DOMAIN known : idx \in DOMAIN known' /\ known'[idx] = known[idx]
  <2>1. \A idx \in DOMAIN known : idx \in DOMAIN pass.known
    BY <1>3
  <2> QED
    BY <1>1, <1>2, <2>1 DEF EntriesOK
<1>6. ASSUME NEW idx \in DOMAIN pass.known, pass.known[idx] \in S
      PROVE  active'[idx] /\ missing_polls'[idx] = 0
  <2>1. idx \in pass.seen
    BY <1>1, <1>6 DEF EntriesOK
  <2>2. ~GivenUp(pass, idx) /\ MissingAfter(pass, idx) = 0
    BY <2>1 DEF GivenUp, MissingAfter
  <2> QED
    BY <1>1, <1>2, <2>1, <2>2 DEF FlagsOK
<1>7. ASSUME NEW idx \in DOMAIN pass.known, pass.known[idx] \notin S
      PROVE  Missed(idx)
  <2>1. idx \notin pass.seen
    BY <1>1, <1>7 DEF EntriesOK
  <2>2. idx \in DOMAIN known
    BY <1>3, <2>1
  <2>3. pass.active[idx] <=> active[idx]
    BY <1>1, <2>1, <2>2 DEF FlagsOK
  <2>4. GivenUp(pass, idx)
           <=> missing_polls[idx] + 1 >= LP_DISCOVERY_MISSING_POLLS_BEFORE_LEFT
    BY <2>1 DEF GivenUp
  <2>5. CASE GivenUp(pass, idx)
    BY <1>2, <2>2, <2>4, <2>5 DEF Missed
  <2>6. CASE ~GivenUp(pass, idx)
    <3>1. MissingAfter(pass, idx) = missing_polls[idx] + 1
      BY <2>1, <2>6 DEF MissingAfter
    <3> QED
      BY <1>2, <2>2, <2>3, <2>4, <2>6, <3>1 DEF Missed
  <2> QED
    BY <2>5, <2>6
<1>8. \A x \in S : \E idx \in DOMAIN known' : known'[idx] = x
  BY <1>1, <1>2 DEF EntriesOK
<1>9. PollsEntries(S)
  BY <1>2, <1>5, <1>6, <1>7, <1>8 DEF PollsEntries
<1> QED
  BY <1>4, <1>9 DEF S

\* The devices that come and go in a poll.
Gone == IF has_baseline THEN ActiveSet \ ActiveSet' ELSE {}
Due(S) == Joined(S) \cup {Tells("LEFT", x) : x \in Gone}

\* The devices that a poll finds to be gone are the active ones it makes
\* inactive, so that the events tell the difference it makes.
LEMMA PollTells ==
    ASSUME StableNetwork, TypeOK, KnownOK, NEW snapshot \in Snapshots, PollWith(snapshot),
           NEW D, IsFiniteSet(D), News(ToSet(snapshot)) \subseteq D, Gone \subseteq D
    PROVE  Reports(events', Due(ToSet(snapshot)), D)
<1> DEFINE pass == Reconciled(snapshot)
           S == ToSet(snapshot)
<1>1. pass \in Passes /\ EntriesOK(pass, S) /\ FlagsOK(pass) /\ JoinsOK(pass, S, D)
  BY ReconciledMeans
<1>2. events' = WithDepartures(pass)
  BY DEF PollWith
<1>4. /\ known' = pass.known
      /\ active' = [idx \in DOMAIN pass.known |-> pass.active[idx] /\ ~GivenUp(pass, idx)]
  BY DEF PollWith
<1> HIDE DEF pass, S
<1>5. /\ DOMAIN known = 1 .. Len(known) /\ Len(known) \in Nat
      /\ \A idx \in DOMAIN known : idx \in DOMAIN pass.known
  BY <1>1 DEF TypeOK, Passes, PassOK
<1>6. ASSUME has_baseline PROVE Leavers(pass, Len(known)) = ActiveSet \ ActiveSet'
  <2>1. ASSUME NEW idx \in DOMAIN known
        PROVE  /\ Departs(pass, idx) <=> active[idx] /\ ~active'[idx]
               /\ active'[idx] => known[idx] \in ActiveSet'
    <3>1. idx \in DOMAIN pass.known /\ known'[idx] = known[idx]
      BY <1>1, <1>4, <1>5 DEF EntriesOK
    <3>2. active'[idx] <=> pass.active[idx] /\ ~GivenUp(pass, idx)
      BY <1>4, <3>1
    <3>3. GivenUp(pass, idx) => (pass.active[idx] <=> active[idx])
      BY <1>1, <3>1 DEF GivenUp, FlagsOK
    <3>4. active[idx] => pass.active[idx]
      BY <1>1, <3>1 DEF FlagsOK
    <3>5. idx \in DOMAIN known'
      BY <1>4, <3>1
    <3> QED
      BY <3>1, <3>2, <3>3, <3>4, <3>5 DEF Departs, ActiveSet
  <2>2. ASSUME NEW idx \in DOMAIN known, known[idx] \in ActiveSet'
        PROVE  active'[idx]
    <3>1. PICK j \in DOMAIN known' : known'[j] = known[idx] /\ active'[j]
      BY <2>2 DEF ActiveSet
    <3>2. idx \in DOMAIN pass.known /\ pass.known[idx] = known[idx]
      BY <1>1, <1>5 DEF EntriesOK
    <3>3. j = idx
      BY <1>1, <1>4, <3>1, <3>2 DEF EntriesOK
    <3> QED
      BY <3>1, <3>3
  <2>3. ASSUME NEW x \in Leavers(pass, Len(known)) PROVE x \in ActiveSet \ ActiveSet'
    <3>1. PICK idx \in DOMAIN known : x = known[idx] /\ Departs(pass, idx)
      BY <1>5 DEF Leavers
    <3>2. active[idx] /\ ~active'[idx]
      BY <2>1, <3>1
    <3>3. x \in ActiveSet
      BY <3>1, <3>2 DEF ActiveSet
    <3>4. x \notin ActiveSet'
      BY <2>2, <3>1, <3>2
    <3> QED
      BY <3>3, <3>4
  <2>4. ASSUME NEW x \in ActiveSet \ ActiveSet' PROVE x \in Leavers(pass, Len(known))
    <3>1. PICK idx \in DOMAIN known : x = known[idx] /\ active[idx]
      BY DEF ActiveSet
    <3>2. Departs(pass, idx)
      BY <2>1, <3>1
    <3> QED
      BY <1>5, <1>6, <3>1, <3>2 DEF Leavers
  <2> QED
    BY <2>3, <2>4
<1>7. ASSUME ~has_baseline PROVE Leavers(pass, Len(known)) = {}
  BY <1>7 DEF Leavers
<1>8. Leavers(pass, Len(known)) = Gone
  BY <1>6, <1>7 DEF Gone
<1>9. Told(pass, S, Len(known)) = Due(S)
  BY <1>8 DEF Told, Due
<1>10. Reports(WithDepartures(pass), Told(pass, S, Len(known)), D)
  BY <1>1, <1>8, DeparturesMean
<1> QED
  BY <1>2, <1>9, <1>10 DEF S

\* What the listener calls the devices in S.
Names(S) == {Identity(x) : x \in S}

\* Every entry is one of the network's devices, and devices go by their names.
LEMMA NamedApart ==
    ASSUME StableNetwork, NEW a \in Sighted, NEW b \in Sighted, Identity(a) = Identity(b)
    PROVE  a = b
  BY DEF StableNetwork

\* The MAC or the address of a neighbor is one of the devices.
LEMMA NameIsDevice == \A x \in Neighbor : Identity(x) \in Devices
  BY DEF Neighbor, Identity, Devices

\* The two readings of the list: its entries, and the names they go by.
LEMMA ActiveByName ==
    /\ ActiveDevices = Names(ActiveSet)
    /\ ActiveDevices' = Names(ActiveSet')
  BY DEF ActiveDevices, Names, ActiveSet

\* The names of the devices in the snapshot.
LEMMA CurrentByName ==
    ASSUME NEW snapshot, current' = snapshot
    PROVE  Identities(current') = Names(ToSet(snapshot))
  BY DEF Identities, Names, ToSet

\* Counting names is counting devices.
LEMMA NamesCount ==
    ASSUME StableNetwork, NEW D \in SUBSET Sighted
    PROVE  /\ IsFiniteSet(D) /\ IsFiniteSet(Names(D))
           /\ Cardinality(D) <= Cardinality(Names(D))
           /\ Cardinality(Names(D)) \in Nat
<1>1. IsFiniteSet(D)
  BY FS_Subset DEF StableNetwork
<1> DEFINE f == [x \in D |-> Identity(x)]
<1>2. f \in Surjection(D, Names(D))
  BY DEF Surjection, Names
<1>3. IsFiniteSet(Names(D))
  BY <1>1, <1>2, FS_Surjection
<1>4. f \in Injection(D, Names(D))
  BY NamedApart DEF Injection, IsInjective, Names
<1>5. Cardinality(D) <= Cardinality(Names(D))
  BY <1>3, <1>4, FS_Injection
<1> QED
  BY <1>1, <1>3, <1>5, FS_CardinalityType

\* What a poll makes of the active devices.
LEMMA PollMovesActive ==
    ASSUME StableNetwork, TypeOK, KnownOK, NEW snapshot \in Snapshots, PollWith(snapshot)
    PROVE  /\ ToSet(snapshot) \subseteq ActiveSet'
           /\ ActiveSet' \subseteq ActiveSet \cup ToSet(snapshot)
<1> DEFINE S == ToSet(snapshot)
<1>1. PollsEntries(S)
  BY PollMovesEntries
<1> HIDE DEF S
<1>2. ASSUME NEW x \in S PROVE x \in ActiveSet'
  <2>1. PICK idx \in DOMAIN known' : known'[idx] = x
    BY <1>1 DEF PollsEntries
  <2>2. active'[idx]
    BY <1>1, <2>1 DEF PollsEntries
  <2> QED
    BY <2>1, <2>2 DEF ActiveSet
<1>3. ASSUME NEW x \in ActiveSet' PROVE x \in ActiveSet \cup S
  <2>1. PICK idx \in DOMAIN known' : known'[idx] = x /\ active'[idx]
    BY DEF ActiveSet
  <2>2. CASE x \notin S
    <3>1. Missed(idx) /\ idx \in DOMAIN known
      BY <1>1, <2>1, <2>2 DEF PollsEntries, Missed
    <3>2. active[idx] /\ known[idx] = x
      BY <1>1, <2>1, <3>1 DEF Missed, PollsEntries
    <3> QED
      BY <3>1, <3>2 DEF ActiveSet
  <2> QED
    BY <2>2
<1> QED
  BY <1>2, <1>3 DEF S

\* What comes and goes, by name.
LEMMA ChangesCounted ==
    ASSUME StableNetwork, TypeOK, KnownOK, NEW snapshot \in Snapshots, PollWith(snapshot)
    PROVE  /\ Changes = Names((ActiveSet' \ ActiveSet) \cup (ActiveSet \ ActiveSet'))
           /\ Cardinality(Changes) \in Nat
<1> DEFINE Before == ActiveSet
           After == ActiveSet'
<1>1. Before \subseteq Sighted /\ After \subseteq Sighted
  <2>1. KnownOK'
    BY PollMovesEntries
  <2> QED
    BY <2>1 DEF KnownOK, ActiveSet
<1>2. Changes = (Names(After) \ Names(Before)) \cup (Names(Before) \ Names(After))
  BY ActiveByName DEF Changes
<1> HIDE DEF Before, After
<1>3. \A x \in Before, y \in After : Identity(x) = Identity(y) => x = y
  BY <1>1, NamedApart
<1>4. /\ Names(After) \ Names(Before) = Names(After \ Before)
      /\ Names(Before) \ Names(After) = Names(Before \ After)
  BY <1>3 DEF Names
<1>5. Changes = Names((After \ Before) \cup (Before \ After))
  BY <1>2, <1>4 DEF Names
<1>6. (After \ Before) \cup (Before \ After) \in SUBSET Sighted
  BY <1>1
<1>7. Cardinality(Names((After \ Before) \cup (Before \ After))) \in Nat
  BY <1>6, NamesCount
<1> QED
  BY <1>5, <1>7 DEF Before, After

\* The names in the events of a poll: no others than those that come and go,
\* and all of them unless they are more than the events a poll may have.
LEMMA PollAnnounces ==
    ASSUME StableNetwork, TypeOK, KnownOK, NEW snapshot \in Snapshots, PollWith(snapshot)
    PROVE  /\ Announced("JOINED")' \subseteq Names(News(ToSet(snapshot)))
           /\ has_baseline /\ Cardinality(Changes) <= LP_DISCOVERY_MAX_EVENTS =>
                 /\ Announced("JOINED")' = Names(News(ToSet(snapshot)))
                 /\ Announced("LEFT")' = Names(Gone)
<1> DEFINE S == ToSet(snapshot)
           D == News(S) \cup Gone
           list == events'
           AboutJ == {k \in DOMAIN list : list[k].type = "JOINED"}
           AboutL == {k \in DOMAIN list : list[k].type = "LEFT"}
<1>0. ActiveSet \subseteq Sighted /\ ActiveSet' \subseteq Sighted
  <2>1. KnownOK'
    BY PollMovesEntries
  <2> QED
    BY <2>1 DEF KnownOK, ActiveSet
<1>1. D \in SUBSET Sighted
  BY <1>0 DEF News, Gone, Sighted
<1>2. IsFiniteSet(D)
  BY <1>1, NamesCount
<1>3. Reports(list, Due(S), D)
  <2> HIDE DEF D
  <2>1. News(S) \subseteq D /\ Gone \subseteq D
    BY DEF D
  <2> QED
    BY <1>2, <2>1, PollTells
<1>4. has_baseline => Changes = Names(D)
  <2> SUFFICES ASSUME has_baseline PROVE Changes = Names(D)
    OBVIOUS
  <2>1. News(S) = ActiveSet' \ ActiveSet /\ Gone = ActiveSet \ ActiveSet'
    BY PollMovesActive DEF News, Gone
  <2>2. Changes = Names((ActiveSet' \ ActiveSet) \cup (ActiveSet \ ActiveSet'))
    BY ChangesCounted
  <2> QED
    BY <2>1, <2>2
<1>5. has_baseline /\ Cardinality(Changes) <= LP_DISCOVERY_MAX_EVENTS
         => Cardinality(D) <= LP_DISCOVERY_MAX_EVENTS
  <2> HIDE DEF D
  <2>1. /\ Cardinality(D) <= Cardinality(Names(D)) /\ Cardinality(Names(D)) \in Nat
        /\ Cardinality(D) \in Nat
    BY <1>1, <1>2, NamesCount, FS_CardinalityType
  <2> QED
    BY <1>4, <2>1, DiscoveryAssumption
<1>6. /\ Announced("JOINED")' = {Identity(list[k].neighbor) : k \in AboutJ}
      /\ Announced("LEFT")' = {Identity(list[k].neighbor) : k \in AboutL}
  BY DEF Announced, EventsOf
<1> HIDE DEF S, D, list
<1>7. \A type, x : Tells(type, x).type = type /\ Tells(type, x).neighbor = x
  BY DEF Tells
<1>8. \A k \in DOMAIN list :
         \/ \E x \in News(S) : list[k] = Tells("JOINED", x)
         \/ \E x \in Gone : list[k] = Tells("LEFT", x)
  BY <1>3 DEF Reports, Due, Joined, ToSet
<1>9. /\ \A k \in AboutJ : list[k].neighbor \in News(S)
      /\ \A k \in AboutL : list[k].neighbor \in Gone
  BY <1>7, <1>8
<1>10. ASSUME has_baseline, Cardinality(Changes) <= LP_DISCOVERY_MAX_EVENTS
       PROVE  /\ \A x \in News(S) : \E k \in AboutJ : list[k].neighbor = x
              /\ \A x \in Gone : \E k \in AboutL : list[k].neighbor = x
  <2>1. ToSet(list) = Due(S)
    BY <1>3, <1>5, <1>10 DEF Reports
  <2>2. /\ \A x \in News(S) : \E k \in DOMAIN list : list[k] = Tells("JOINED", x)
        /\ \A x \in Gone : \E k \in DOMAIN list : list[k] = Tells("LEFT", x)
    BY <2>1 DEF Due, Joined, ToSet
  <2> QED
    BY <1>7, <2>2
<1>11. {Identity(list[k].neighbor) : k \in AboutJ} \subseteq Names(News(S))
  BY <1>9 DEF Names
<1>12. has_baseline /\ Cardinality(Changes) <= LP_DISCOVERY_MAX_EVENTS =>
          /\ {Identity(list[k].neighbor) : k \in AboutJ} = Names(News(S))
          /\ {Identity(list[k].neighbor) : k \in AboutL} = Names(Gone)
  BY <1>9, <1>10 DEF Names
<1> QED
  BY <1>6, <1>11, <1>12 DEF S

\* The listener and the list.  An active entry has been missed as often as its
\* device was really absent; an inactive one stands for a device that has been
\* absent long enough.
AbsenceCounted(idx) ==
    IF active[idx]
    THEN gone_for[Identity(known[idx])] = missing_polls[idx]
    ELSE gone_for[Identity(known[idx])] >= LP_DISCOVERY_MISSING_POLLS_BEFORE_LEFT

CountsOK ==
    /\ gone_for \in [Devices -> 0 .. GONE_CAP]
    /\ \A idx \in DOMAIN known : AbsenceCounted(idx)

ListenerInv ==
    /\ TypeOK
    /\ KnownOK
    /\ CountsOK
    /\ ~has_baseline => known = << >>
    /\ ListenerSeesTheMap

\* The first list, or the events, take the listener from one map to the next,
\* as long as no poll has more to tell than it may.
LEMMA ListenerFollows ==
    ASSUME StableNetwork, ListenerInv, NEW snapshot \in Snapshots, PollWith(snapshot), Listen,
           ~lost'
    PROVE  believed' = ActiveDevices'
<1> DEFINE S == ToSet(snapshot)
<1>1. TypeOK /\ KnownOK /\ S \subseteq Sighted
  BY DEF ListenerInv, Sighted
<1>2. /\ S \subseteq ActiveSet'
      /\ ActiveSet' \subseteq ActiveSet \cup S
  BY <1>1, PollMovesActive
<1>3. ActiveSet \subseteq Sighted
  BY <1>1 DEF KnownOK, ActiveSet
<1>4. has_baseline =>
         /\ Announced("JOINED")' = Names(News(S))
         /\ Announced("LEFT")' = Names(Gone)
  <2> SUFFICES ASSUME has_baseline
               PROVE  Cardinality(Changes) <= LP_DISCOVERY_MAX_EVENTS
    BY <1>1, PollAnnounces
  <2>1. Cardinality(Changes) \in Nat
    BY <1>1, ChangesCounted
  <2>2. ~(Cardinality(Changes) > LP_DISCOVERY_MAX_EVENTS)
    BY DEF Listen
  <2> QED
    BY <2>1, <2>2, DiscoveryAssumption
<1>5. Identities(current') = Names(S)
  <2>1. current' = snapshot
    BY DEF PollWith
  <2> QED
    BY <2>1, CurrentByName
<1> HIDE DEF S
<1>6. CASE ~has_baseline
  <2>1. believed' = Names(S)
    BY <1>5, <1>6 DEF Listen
  <2>2. ActiveSet = {}
    <3>1. known = << >>
      BY <1>6 DEF ListenerInv
    <3> QED
      BY <3>1 DEF ActiveSet
  <2>3. ActiveSet' = S
    BY <1>2, <2>2
  <2> QED
    BY <2>1, <2>3, ActiveByName
<1>7. CASE has_baseline
  <2>1. believed = Names(ActiveSet)
    <3>1. ~lost
      BY DEF Listen
    <3> QED
      BY <1>7, <3>1, ActiveByName DEF ListenerInv, ListenerSeesTheMap
  <2>2. believed' = (Names(ActiveSet) \cup Names(S \ ActiveSet)) \ Names(ActiveSet \ ActiveSet')
    BY <1>4, <1>7, <2>1 DEF Listen, News, Gone
  <2>3. ASSUME NEW d \in believed' PROVE d \in Names(ActiveSet')
    <3>1. PICK x \in ActiveSet \cup S : d = Identity(x)
      BY <2>2 DEF Names
    <3>2. x \in ActiveSet'
      BY <1>2, <2>2, <3>1 DEF Names
    <3> QED
      BY <3>1, <3>2 DEF Names
  <2>4. ASSUME NEW x \in ActiveSet' PROVE Identity(x) \in believed'
    <3>1. Identity(x) \in Names(ActiveSet) \cup Names(S \ ActiveSet)
      BY <1>2, <2>4 DEF Names
    <3>2. ASSUME NEW y \in ActiveSet \ ActiveSet', Identity(x) = Identity(y) PROVE FALSE
      <4>1. x \in Sighted /\ y \in Sighted
        BY <1>1, <1>2, <1>3, <2>4
      <4>2. x = y
        BY <3>2, <4>1, NamedApart
      <4> QED
        BY <2>4, <4>2
    <3>3. Identity(x) \notin Names(ActiveSet \ ActiveSet')
      BY <3>2 DEF Names
    <3> QED
      BY <2>2, <3>1, <3>3
  <2>5. believed' = Names(ActiveSet')
    BY <2>3, <2>4 DEF Names
  <2> QED
    BY <2>5, ActiveByName
<1> QED
  BY <1>6, <1>7

\* One poll more counts for the devices it missed, and only for those.
LEMMA ListenerCounts ==
    ASSUME StableNetwork, ListenerInv, TypeOK', NEW snapshot \in Snapshots, PollWith(snapshot),
           Listen
    PROVE  CountsOK'
<1> DEFINE S == ToSet(snapshot)
           L == LP_DISCOVERY_MISSING_POLLS_BEFORE_LEFT
<1>1. TypeOK /\ KnownOK /\ CountsOK /\ S \subseteq Sighted
  BY DEF ListenerInv, Sighted
<1>2. KnownOK' /\ PollsEntries(S)
  BY <1>1, PollMovesEntries
<1>3. Identities(current') = Names(S)
  <2>1. current' = snapshot
    BY DEF PollWith
  <2> QED
    BY <2>1, CurrentByName
<1> HIDE DEF S
<1>4. L \in Nat \ {0} /\ GONE_CAP = L + 1
  BY DiscoveryAssumption DEF GONE_CAP
<1>5. \A d \in Devices :
         /\ gone_for[d] \in 0 .. GONE_CAP
         /\ gone_for'[d] = IF d \in Names(S) THEN 0
                           ELSE IF gone_for[d] < GONE_CAP THEN gone_for[d] + 1 ELSE GONE_CAP
  BY <1>1, <1>3 DEF Listen, CountsOK
<1> HIDE DEF L
<1>6. gone_for' \in [Devices -> 0 .. GONE_CAP]
  <2>1. \A d \in Devices : gone_for'[d] \in 0 .. GONE_CAP
    BY <1>4, <1>5
  <2>2. gone_for' = [d \in Devices |-> gone_for'[d]]
    BY DEF Listen
  <2> QED
    BY <2>1, <2>2
<1>7. ASSUME NEW idx \in DOMAIN known' PROVE AbsenceCounted(idx)'
  <2> DEFINE d == Identity(known'[idx])
  <2>1. d \in Devices
    <3>1. known'[idx] \in Neighbor
      BY DEF TypeOK
    <3> QED
      BY <3>1, NameIsDevice
  <2>2. CASE known'[idx] \in S
    <3>1. active'[idx] /\ missing_polls'[idx] = 0
      BY <1>2, <2>2 DEF PollsEntries
    <3>2. d \in Names(S)
      BY <2>2 DEF Names
    <3>3. gone_for'[d] = 0
      BY <1>5, <2>1, <3>2
    <3> QED
      BY <3>1, <3>3 DEF AbsenceCounted
  <2>3. CASE known'[idx] \notin S
    <3>1. Missed(idx) /\ idx \in DOMAIN known
      BY <1>2, <2>3 DEF PollsEntries, Missed
    <3>2. known'[idx] = known[idx]
      BY <1>2, <3>1 DEF PollsEntries
    <3>3. d \notin Names(S)
      <4>1. known'[idx] \in Sighted
        BY <1>2 DEF KnownOK
      <4>2. \A x \in S : Identity(x) # d
        BY <1>1, <2>3, <4>1, NamedApart
      <4> QED
        BY <4>2 DEF Names
    <3>4. AbsenceCounted(idx) /\ missing_polls[idx] \in 0 .. L - 1
      BY <1>1, <3>1 DEF CountsOK, TypeOK, L
    <3>5. IF active[idx] THEN gone_for[d] = missing_polls[idx] ELSE gone_for[d] >= L
      BY <3>2, <3>4 DEF AbsenceCounted, L
    <3>6. /\ gone_for[d] \in 0 .. GONE_CAP
          /\ gone_for'[d] = IF gone_for[d] < GONE_CAP THEN gone_for[d] + 1 ELSE GONE_CAP
      BY <1>5, <2>1, <3>3
    <3>7. IF missing_polls[idx] + 1 >= L
          THEN ~active'[idx]
          ELSE (active'[idx] <=> active[idx]) /\ missing_polls'[idx] = missing_polls[idx] + 1
      BY <3>1 DEF Missed, L
    <3>8. IF active'[idx] THEN gone_for'[d] = missing_polls'[idx] ELSE gone_for'[d] >= L
      <4> HIDE DEF d
      <4>1. CASE active[idx] /\ missing_polls[idx] + 1 < L
        BY <1>4, <3>4, <3>5, <3>6, <3>7, <4>1
      <4>2. CASE active[idx] /\ missing_polls[idx] + 1 >= L
        BY <1>4, <3>4, <3>5, <3>6, <3>7, <4>2
      <4>3. CASE ~active[idx]
        <5>1. ~active'[idx]
          BY <3>7, <4>3
        <5>2. gone_for[d] >= L
          BY <3>5, <4>3
        <5> QED
          BY <1>4, <3>6, <5>1, <5>2
      <4> QED
        BY <1>4, <3>4, <4>1, <4>2, <4>3
    <3> QED
      BY <3>8 DEF AbsenceCounted, L
  <2> QED
    BY <2>2, <2>3
<1> QED
  BY <1>6, <1>7 DEF CountsOK

\* Before the first poll the list is empty, and everything has long been absent.
LEMMA ListenerBegins == ListenerInit => ListenerInv
<1> SUFFICES ASSUME ListenerInit PROVE ListenerInv
  OBVIOUS
<1>1. TypeOK
  BY InitialType DEF ListenerInit
<1>2. known = << >> /\ ~has_baseline /\ DOMAIN << >> = {}
  BY DEF ListenerInit, Init
<1>3. KnownOK /\ ListenerSeesTheMap
  BY <1>2 DEF KnownOK, ListenerSeesTheMap
<1>4. GONE_CAP \in 0 .. GONE_CAP
  BY DiscoveryAssumption DEF GONE_CAP
<1>5. CountsOK
  BY <1>2, <1>4 DEF CountsOK, ListenerInit
<1> QED
  BY <1>1, <1>2, <1>3, <1>5 DEF ListenerInv

\* A poll, a failure and a stutter keep the listener and the list together.
LEMMA ListenerKeepsInv ==
    ASSUME StableNetwork, ListenerInv, [ListenerNext]_audited
    PROVE  ListenerInv'
<1>1. CASE HeardPoll
  <2>1. PICK snapshot \in Snapshots : PollWith(snapshot)
    BY <1>1 DEF HeardPoll, Poll
  <2>2. Listen
    BY <1>1 DEF HeardPoll
  <2>3. TypeOK /\ KnownOK
    BY DEF ListenerInv
  <2>4. snapshot \in Seq(Neighbor)
    BY <2>1, DiscoveryAssumption
  <2>5. TypeOK'
    BY <2>1, <2>3, <2>4, PollKeepsType
  <2>6. KnownOK'
    BY <2>1, <2>3, PollMovesEntries
  <2>7. CountsOK'
    BY <2>1, <2>2, <2>5, ListenerCounts
  <2>8. ~lost' => believed' = ActiveDevices'
    BY <2>1, <2>2, ListenerFollows
  <2>9. has_baseline'
    BY <2>1 DEF PollWith
  <2> QED
    BY <2>5, <2>6, <2>7, <2>8, <2>9 DEF ListenerInv, ListenerSeesTheMap
<1>2. CASE HeardFailure \/ UNCHANGED audited
  <2>1. TypeOK'
    BY <1>2, OthersKeepType DEF HeardFailure, audited, ListenerInv
  <2>2. UNCHANGED <<known, active, missing_polls, has_baseline, believed, gone_for, lost>>
    BY <1>2 DEF HeardFailure, PollFails, audited, vars, discovery, listener
  <2> QED
    BY <2>1, <2>2
       DEF ListenerInv, KnownOK, CountsOK, AbsenceCounted, ListenerSeesTheMap, ActiveDevices
<1> QED
  BY <1>1, <1>2 DEF ListenerNext

\* core/discovery.c over any number of polls, failures among them: a listener
\* that starts from the first list and replays JOINED and LEFT has, after every
\* poll, exactly the devices the list shows as active, until a poll has more to
\* tell than max_events.
THEOREM ReplayGivesTheMap ==
    ASSUME StableNetwork PROVE ListenerSpec => []ListenerSeesTheMap
<1>1. ListenerInit => ListenerInv
  BY ListenerBegins
<1>2. ListenerInv /\ [ListenerNext]_audited => ListenerInv'
  BY ListenerKeepsInv
<1>3. ListenerInv => ListenerSeesTheMap
  BY DEF ListenerInv
<1> QED
  BY <1>1, <1>2, <1>3, PTL DEF ListenerSpec

\* The missing_polls of core/discovery.c tell the truth: a known device is
\* active exactly while it has been absent from fewer successful polls in a row
\* than the limit, whatever polls failed in between and however often it had
\* gone and come back.
THEOREM ThreePollsToLeave ==
    ASSUME StableNetwork PROVE ListenerSpec => []ActiveUntilMissedThrice
<1>1. ListenerInit => ListenerInv
  BY ListenerBegins
<1>2. ListenerInv /\ [ListenerNext]_audited => ListenerInv'
  BY ListenerKeepsInv
<1>3. ListenerInv => ActiveUntilMissedThrice
  <2> SUFFICES ASSUME ListenerInv, NEW device \in KnownDevices
               PROVE  device \in ActiveDevices
                         <=> gone_for[device] < LP_DISCOVERY_MISSING_POLLS_BEFORE_LEFT
    BY DEF ActiveUntilMissedThrice
  <2>1. PICK idx \in DOMAIN known : device = Identity(known[idx])
    BY DEF KnownDevices, Identities
  <2>2. /\ missing_polls[idx] \in 0 .. LP_DISCOVERY_MISSING_POLLS_BEFORE_LEFT - 1
        /\ known[idx] \in Neighbor
    BY <2>1 DEF ListenerInv, TypeOK
  <2>3. device \in Devices /\ gone_for[device] \in 0 .. GONE_CAP
    BY <2>1, <2>2, NameIsDevice DEF ListenerInv, CountsOK
  <2>4. AbsenceCounted(idx)
    BY <2>1 DEF ListenerInv, CountsOK
  <2>5. active[idx] <=> gone_for[device] < LP_DISCOVERY_MISSING_POLLS_BEFORE_LEFT
    BY <2>1, <2>2, <2>3, <2>4, DiscoveryAssumption DEF AbsenceCounted, GONE_CAP
  <2>6. ASSUME device \in ActiveDevices PROVE active[idx]
    <3>1. PICK k \in DOMAIN known : active[k] /\ device = Identity(known[k])
      BY <2>6 DEF ActiveDevices
    <3>2. known[k] \in Sighted /\ known[idx] \in Sighted
      BY DEF ListenerInv, KnownOK
    <3>3. known[k] = known[idx]
      BY <2>1, <3>1, <3>2, NamedApart
    <3>4. k = idx
      BY <3>3 DEF ListenerInv, KnownOK
    <3> QED
      BY <3>1, <3>4
  <2>7. active[idx] => device \in ActiveDevices
    BY <2>1 DEF ActiveDevices
  <2> QED
    BY <2>5, <2>6, <2>7
<1> QED
  BY <1>1, <1>2, <1>3, PTL DEF ListenerSpec

\* No device the listener already has is announced to it as joined: the events
\* of core/discovery.c:81-83 are about devices that are new or had been given up.
THEOREM JoinsAreNews ==
    ASSUME StableNetwork PROVE ListenerSpec => NoRepeatedJoin
<1>1. ListenerInit => ListenerInv
  BY ListenerBegins
<1>2. ListenerInv /\ [ListenerNext]_audited => ListenerInv'
  BY ListenerKeepsInv
<1>3. ASSUME ListenerInv, ListenerNext, has_baseline, status' = "ok", ~lost
      PROVE  Announced("JOINED")' \cap believed = {}
  <2>1. PICK snapshot \in Snapshots : PollWith(snapshot)
    BY <1>3 DEF ListenerNext, HeardPoll, HeardFailure, Poll, PollFails
  <2>2. TypeOK /\ KnownOK
    BY <1>3 DEF ListenerInv
  <2> DEFINE S == ToSet(snapshot)
  <2>3. Announced("JOINED")' \subseteq Names(S \ ActiveSet)
    BY <1>3, <2>1, <2>2, PollAnnounces DEF News
  <2>4. believed = Names(ActiveSet)
    BY <1>3, ActiveByName DEF ListenerInv, ListenerSeesTheMap
  <2>5. S \subseteq Sighted /\ ActiveSet \subseteq Sighted
    BY <2>2 DEF Sighted, KnownOK, ActiveSet
  <2> HIDE DEF S
  <2>6. \A x \in S \ ActiveSet, y \in ActiveSet : Identity(x) # Identity(y)
    BY <2>5, NamedApart
  <2> QED
    BY <2>3, <2>4, <2>6 DEF Names
<1>4. ListenerInv /\ [ListenerNext]_audited
         => [has_baseline /\ status' = "ok" /\ ~lost
                => Announced("JOINED")' \cap believed = {}]_audited
  BY <1>3
<1> QED
  BY <1>1, <1>2, <1>4, PTL DEF ListenerSpec, NoRepeatedJoin
================================================================================
