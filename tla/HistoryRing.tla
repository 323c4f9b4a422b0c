----------------------------- MODULE HistoryRing -----------------------------
(***************************************************************************)
(* The rolling sample history inside lp_sampler_t (core/sampler.c): an     *)
(* array of LP_SAMPLER_HISTORY_CAP slots, the index of the oldest sample   *)
(* and the number of samples held.  push_history appends, and              *)
(* lp_sampler_history copies the newest samples out, oldest first.         *)
(* Slots are numbered from 0, as in the code.                              *)
(***************************************************************************)
EXTENDS HistoryCapacity, Sequences

CONSTANTS
    Samples,                  \* the values of lp_rate_sample_t
    ZeroSample                \* what memset leaves in a slot never written

VARIABLES history, history_head, history_count

ring == <<history, history_head, history_count>>

Slots == 0 .. LP_SAMPLER_HISTORY_CAP - 1

Init ==
    /\ history = [slot \in Slots |-> ZeroSample]
    /\ history_head = 0
    /\ history_count = 0

-----------------------------------------------------------------------------
\* Mistake: an index that runs off the end of the array.
Wrap_NoModulo(slot, n) == slot + n

\* The slot that lies n places after the given one, around the ring.
Wrap(slot, n) == (slot + n) % LP_SAMPLER_HISTORY_CAP

NextSlot == Wrap(history_head, history_count)

\* Mistake: the oldest slot is overwritten but stays the oldest.
push_history_HeadStays(sample) ==
    /\ history' = [history EXCEPT ![NextSlot] = sample]
    /\ history_count' =
          IF history_count < LP_SAMPLER_HISTORY_CAP THEN history_count + 1 ELSE history_count
    /\ UNCHANGED history_head

push_history(sample) ==
    /\ history' = [history EXCEPT ![NextSlot] = sample]
    /\ \/ /\ history_count < LP_SAMPLER_HISTORY_CAP
          /\ history_count' = history_count + 1
          /\ UNCHANGED history_head
       \/ /\ history_count = LP_SAMPLER_HISTORY_CAP
          /\ history_head' = Wrap(history_head, 1)
          /\ UNCHANGED history_count

\* Mistake: a short read starts with the oldest sample.
lp_sampler_history_OldestFirst(cap) ==
    LET count == IF history_count < cap THEN history_count ELSE cap
    IN  [i \in 1 .. count |-> history[Wrap(history_head, i - 1)]]

\* lp_sampler_history(sampler, out, cap): the copied samples, in copy order.
lp_sampler_history(cap) ==
    LET count == IF history_count < cap THEN history_count ELSE cap
        start == Wrap(history_head, history_count - count)
    IN  [i \in 1 .. count |-> history[Wrap(start, i - 1)]]

Next == \E sample \in Samples : push_history(sample)

Spec == Init /\ [][Next]_ring

-----------------------------------------------------------------------------
\* The ring's own representation invariant: indices in range, and the head
\* moves only once the ring has filled up (push_history, lines 41-52).
TypeOK ==
    /\ history \in [Slots -> Samples \cup {ZeroSample}]
    /\ history_head \in Slots
    /\ history_count \in 0 .. LP_SAMPLER_HISTORY_CAP
    /\ history_count < LP_SAMPLER_HISTORY_CAP => history_head = 0

\* A reader is never handed a slot that no poll has written: every sample
\* lp_sampler_history copies was pushed (lines 220-235 against 41-52).
OnlyPushedSamples ==
    \A cap \in 1 .. LP_SAMPLER_HISTORY_CAP + 1 :
        \A i \in DOMAIN lp_sampler_history(cap) : lp_sampler_history(cap)[i] \in Samples

\* Asking for fewer samples than are held returns the newest of them: the
\* result for any cap is a suffix of the result for the full capacity.
ShortReadIsNewest ==
    LET all == lp_sampler_history(LP_SAMPLER_HISTORY_CAP)
    IN  \A cap \in 1 .. LP_SAMPLER_HISTORY_CAP + 1 :
            LET few == lp_sampler_history(cap)
            IN  few = SubSeq(all, Len(all) - Len(few) + 1, Len(all))

\* What the ring holds, read through lp_sampler_history, is the bounded log.
Log == INSTANCE SampleLog WITH log <- lp_sampler_history(LP_SAMPLER_HISTORY_CAP)

\* The ring implements the log: every push appends the new sample and drops
\* the oldest one exactly when CAP samples are already held.
ImplementsLog == Log!Spec
=============================================================================
