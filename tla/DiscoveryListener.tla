--------------------------- MODULE DiscoveryListener ---------------------------
(***************************************************************************)
(* What the events of Discovery mean to somebody who listens to them, as   *)
(* the tray's toasts do: a listener that starts from the first snapshot    *)
(* and replays JOINED and LEFT, next to a record of how long each device   *)
(* has really been missing.                                                *)
(***************************************************************************)
EXTENDS Discovery

VARIABLES
    believed,    \* devices the listener believes to be on the network
    gone_for,    \* successful polls in a row each device has been absent from
    lost         \* in some poll more changed than the caller's buffer holds

listener == <<believed, gone_for, lost>>
audited == <<vars, listener>>

Devices == Macs \cup Ips

\* The identity the code's comment names: the MAC, or the address without one.
Identity(neighbor) == IF neighbor.mac # NoMac THEN neighbor.mac ELSE neighbor.ip

Identities(list) == {Identity(list[idx]) : idx \in DOMAIN list}
KnownDevices == Identities(known)
ActiveDevices == {Identity(known[idx]) : idx \in {k \in DOMAIN known : active[k]}}

Announced(type) == {Identity(events[k].neighbor) : k \in EventsOf(type)}

\* The neighbors that may ever be seen.
Sighted == UNION {ToSet(snapshot) : snapshot \in Snapshots}

\* A network whose devices can be told apart: each keeps one address and one
\* identity of its own, and there are no more of them than the list has entries.
\* The properties of this module are about such a network.
StableNetwork ==
    /\ IsFiniteSet(Sighted)
    /\ \A a, b \in Sighted : a # b => a.ip # b.ip /\ Identity(a) # Identity(b)
    /\ Cardinality(Sighted) <= LP_DISCOVERY_MAX_NEIGHBORS

\* As long as nobody has to count further than the limit, one more is enough.
GONE_CAP == LP_DISCOVERY_MISSING_POLLS_BEFORE_LEFT + 1

ListenerInit ==
    /\ Init
    /\ believed = {}
    /\ gone_for = [device \in Devices |-> GONE_CAP]
    /\ lost = FALSE

\* The devices that come and go in a step.
Changes == (ActiveDevices' \ ActiveDevices) \cup (ActiveDevices \ ActiveDevices')

\* After a poll that succeeded: the first one gives the listener its list, the
\* later ones give it events.
Listen ==
    /\ believed' = IF has_baseline
                   THEN (believed \cup Announced("JOINED")') \ Announced("LEFT")'
                   ELSE Identities(current')
    /\ gone_for' = [device \in Devices |->
                       IF device \in Identities(current') THEN 0
                       ELSE IF gone_for[device] < GONE_CAP THEN gone_for[device] + 1
                       ELSE GONE_CAP]
    /\ lost' = (lost \/ (has_baseline /\ Cardinality(Changes) > LP_DISCOVERY_MAX_EVENTS))

HeardPoll == Poll /\ Listen
HeardFailure == PollFails /\ UNCHANGED listener

ListenerNext == HeardPoll \/ HeardFailure

\* The tray's discovery thread polls for as long as it runs, and the platform
\* call succeeds again and again.
ListenerSpec == ListenerInit /\ [][ListenerNext]_audited
FairListenerSpec == ListenerSpec /\ WF_audited(HeardPoll)

-----------------------------------------------------------------------------
\* Replaying the events gives the network map: the listener believes exactly
\* the devices whose entries are active, as every join is announced in the very
\* poll that finds it (architecture.md:129, "emits a joined event immediately")
\* and every departure in the poll that gives the device up.  That ends with the
\* first poll that has more to tell than max_events: the rest is never told.
ListenerSeesTheMap == has_baseline /\ ~lost => believed = ActiveDevices

\* A known device is active exactly while it has been missing for fewer than
\* LP_DISCOVERY_MISSING_POLLS_BEFORE_LEFT successful polls in a row; polls
\* that failed do not count (architecture.md:129).
ActiveUntilMissedThrice ==
    \A device \in KnownDevices :
        device \in ActiveDevices <=> gone_for[device] < LP_DISCOVERY_MISSING_POLLS_BEFORE_LEFT

\* A device is announced as joined only when the listener did not have it,
\* the poll that overflows its buffer included.
NoRepeatedJoin ==
    [][has_baseline /\ status' = "ok" /\ ~lost
          => Announced("JOINED")' \cap believed = {}]_audited

\* If every device goes away for good, the listener is eventually told that
\* all of them have left, unless more happened at once than a poll may tell.
DeparturesAnnounced == <>[](current = << >>) => <>[](believed = {}) \/ <>lost
=============================================================================
