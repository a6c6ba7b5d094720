------------------------------- MODULE FanOut -------------------------------
(***************************************************************************)
(* What daily research promises for a research run: it settles on one      *)
(* plan, hands every item of it, and nothing else, to the job queue, is    *)
(* complete only after the last of them, and is reported on only when it   *)
(* is complete.  No attempts, checkpoints or crashes in sight.             *)
(***************************************************************************)
EXTENDS Naturals, Functions

CONSTANTS Run,       \* the research runs
          Item,      \* the candidates a plan can name
          Slots,     \* how many items it names at most
          NoPlan     \* no plan was published

VARIABLES plan,      \* [Run -> the published plan, or NoPlan]
          handled,   \* <<r, i>>: item i was handed to the queue (or turned down)
          complete,  \* the runs that are completed
          reported   \* the runs a digest was asked for

vars == <<plan, handled, complete, reported>>

\* An empty plan is a plan.
Plans == UNION {[1..n -> Item] : n \in 0..Slots}

Planned(r) == plan[r] # NoPlan

Init == /\ plan = [r \in Run |-> NoPlan]
        /\ handled = {} /\ complete = {} /\ reported = {}

Publish(r) == /\ ~Planned(r)
              /\ \E p \in Plans : plan' = [plan EXCEPT ![r] = p]
              /\ UNCHANGED <<handled, complete, reported>>

\* Handing an item out again adds nothing.
Handle(r) == /\ Planned(r)
             /\ \E i \in Range(plan[r]) : handled' = handled \cup {<<r, i>>}
             /\ UNCHANGED <<plan, complete, reported>>

Complete(r) == /\ Planned(r)
               /\ \A i \in Range(plan[r]) : <<r, i>> \in handled
               /\ complete' = complete \cup {r}
               /\ UNCHANGED <<plan, handled, reported>>

Report(r) == /\ r \in complete
             /\ reported' = reported \cup {r}
             /\ UNCHANGED <<plan, handled, complete>>

Next == \E r \in Run : Publish(r) \/ Handle(r) \/ Complete(r) \/ Report(r)

Spec == Init /\ [][Next]_vars
=============================================================================
