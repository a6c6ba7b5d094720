--------------------------- MODULE CandidateScreening ---------------------------
(***************************************************************************)
(* What AI normalization promises for a candidate, with no job, lease,     *)
(* ledger or run in sight: providers are consumed one by one and each at   *)
(* most once, one of them gives the one answer of a generation, and the    *)
(* candidate is decided by that answer, or deferred when there is none.    *)
(***************************************************************************)
EXTENDS Naturals, FiniteSets

CONSTANTS Provider,       \* providers that may be asked
          ProviderLimit,  \* how many of them for one generation
          MaxGeneration   \* bound: rearms of the candidate

VARIABLES generation,  \* candidates.normalization_generation
          state,       \* AI Screening, Waiting or Decided
          consumed,    \* the providers consumed for each generation
          answer,      \* who gave the answer of each generation: one, or nobody
          decision     \* by whose answer each generation was decided

vars == <<generation, state, consumed, answer, decision>>

Generation == 0..MaxGeneration

Init == /\ generation = 0 /\ state = "AI Screening"
        /\ consumed = [g \in Generation |-> {}]
        /\ answer = [g \in Generation |-> {}]
        /\ decision = [g \in Generation |-> {}]

\* A provider is asked, also by whoever has not noticed yet that the generation
\* is over.
Consume(g, p) ==
    /\ g <= generation
    /\ p \notin consumed[g] /\ Cardinality(consumed[g]) < ProviderLimit
    /\ consumed' = [consumed EXCEPT ![g] = @ \cup {p}]
    /\ UNCHANGED <<generation, state, answer, decision>>

\* The first answer is recorded.
Answer(p) ==
    /\ state = "AI Screening"
    /\ p \in consumed[generation] /\ answer[generation] = {}
    /\ answer' = [answer EXCEPT ![generation] = {p}]
    /\ UNCHANGED <<generation, state, consumed, decision>>

Decide ==
    /\ state = "AI Screening" /\ answer[generation] # {}
    /\ state' = "Decided"
    /\ decision' = [decision EXCEPT ![generation] = answer[generation]]
    /\ UNCHANGED <<generation, consumed, answer>>

\* Nothing is given up that was answered.
Defer ==
    /\ state = "AI Screening" /\ answer[generation] = {}
    /\ state' = "Waiting"
    /\ UNCHANGED <<generation, consumed, answer, decision>>

\* A candidate that waits gets another generation; whether it is screened again is
\* left open.
Rearm ==
    /\ state = "Waiting" /\ generation < MaxGeneration
    /\ generation' = generation + 1
    /\ state' \in {"Waiting", "AI Screening"}
    /\ UNCHANGED <<consumed, answer, decision>>

Next == \/ \E p \in Provider : Answer(p) \/ \E g \in Generation : Consume(g, p)
        \/ Decide \/ Defer \/ Rearm

Spec == Init /\ [][Next]_vars
=============================================================================
