------------------------------- MODULE ResearchPlan -------------------------------
(***************************************************************************)
(* planDailyResearch: slots are shared out among three buckets by largest  *)
(* remainder, then the slots that a bucket leaves are given to the others. *)
(***************************************************************************)
EXTENDS Integers, Sequences, FiniteSets, SequencesExt

Buckets == <<"new", "watch", "strong">>
Bucket == {"new", "watch", "strong"}

\* A larger value of information first, then the smaller identifier.
Before(left, right) ==
    \/ left.value > right.value
    \/ left.value = right.value /\ left.id < right.id

Eligible(candidates, b) ==
    SetToSortSeq({c \in candidates : c.bucket = b /\ ~c.isFresh}, Before)

TotalQuota(q) == q["new"] + q["watch"] + q["strong"]

\* calculateQuotas.  Remainders are differences of floating-point numbers: of
\* two that are equal, either may come out the larger.
Quotas(slots, allocation) ==
    LET exact(b) == slots * allocation[b]
        remainder(b) == exact(b) % 100 IN
    {q \in [Bucket -> 0..slots] :
        /\ TotalQuota(q) = slots
        /\ \A b \in Bucket : q[b] - exact(b) \div 100 \in {0, 1}
        /\ \A b, c \in Bucket :
             (q[b] > exact(b) \div 100 /\ q[c] = exact(c) \div 100)
               => remainder(b) >= remainder(c)}

\* The first items of each bucket, up to its quota.
FirstPass(candidates, q) ==
    FlattenSeq([n \in 1..3 |->
        LET s == Eligible(candidates, Buckets[n]) IN
        SubSeq(s, 1, IF Len(s) < q[Buckets[n]] THEN Len(s) ELSE q[Buckets[n]])])

\* A bug for the mutants: slots that a bucket cannot fill stay empty.
NothingLeft(candidates, selected) == <<>>

\* What was not selected, bucket by bucket.
LeftOver(candidates, selected) ==
    SelectSeq(FlattenSeq([n \in 1..3 |-> Eligible(candidates, Buckets[n])]),
              LAMBDA c : c \notin ToSet(selected))

\* The plan under the quotas q.
Plan(candidates, slots, q) ==
    LET first == FirstPass(candidates, q)
        all == first \o LeftOver(candidates, first)
        items == SubSeq(all, 1, IF Len(all) < slots THEN Len(all) ELSE slots) IN
    [items |-> items, unfilledSlots |-> slots - Len(items)]
=============================================================================
