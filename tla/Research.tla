--------------------------------- MODULE Research ---------------------------------
(***************************************************************************)
(* The way of the research, in one specification: the import of            *)
(* opportunities, the answers of the pure parts, the paid research of a    *)
(* candidate, the notifications of what was decided.  The parts have no    *)
(* variable in common; a behaviour is one of one part, while the others    *)
(* rest in an initial state.                                               *)
(***************************************************************************)
EXTENDS Naturals

CONSTANTS Upload, MaxRun, MaxAttempts,        \* Import
          MaxVersion, MaxRunning,             \* CandidateResearch
          Note, Sender, Digest, DigestLimit   \* Notifications

ASSUME ResearchAssumption ==
    MaxRun \in Nat /\ MaxAttempts \in Nat /\ MaxVersion \in Nat

VARIABLES part,
          files, imports, upload, job, work, tables, candidate,
          question, answer,
          versions, state, jobs, run,
          rows, told, sender, digest

\* The latest evidence admits every kind of request, or none and the candidate is
\* at purchase review.
Evidence == {[admits |-> {"probe", "deep", "enrich"}, review |-> FALSE],
             [admits |-> {}, review |-> TRUE]}

Csv == INSTANCE Import WITH runs <- imports, attempt <- work
Cases == INSTANCE ResearchCases
Paid == INSTANCE CandidateResearch WITH Version <- Evidence
Notes == INSTANCE Notifications

csv == <<files, imports, upload, job, work, tables, candidate>>
cases == <<question, answer>>
paid == <<versions, state, jobs, run>>
notes == <<rows, told, sender, digest>>
vars == <<part, csv, cases, paid, notes>>

-----------------------------------------------------------------------------
TypeOK == Csv!TypeOK /\ Paid!TypeOK /\ Notes!TypeOK

\* Where a part rests that has several initial states.
Resting == part = "csv" \/ files = "accepted"
Asking == IF part = "cases" THEN Cases!Init
          ELSE question = Cases!Unanswered /\ answer = Cases!Unanswered

Init == /\ part \in {"csv", "cases", "paid", "notes"}
        /\ Csv!Init /\ Resting /\ Asking /\ Paid!Init /\ Notes!Init

Next == /\ UNCHANGED part
        /\ \/ /\ part = "csv" /\ Csv!Next
              /\ UNCHANGED <<cases, paid, notes>>
           \/ /\ part = "cases" /\ Cases!Next
              /\ UNCHANGED <<csv, paid, notes>>
           \/ /\ part = "paid" /\ Paid!Next
              /\ UNCHANGED <<csv, cases, notes>>
           \/ /\ part = "notes" /\ Notes!Next
              /\ UNCHANGED <<csv, cases, paid>>

Spec == Init /\ [][Next]_vars

-----------------------------------------------------------------------------
\* A run that is shown as completed has every row it counts: candidates with their
\* raw rows, and for each a decision, a score and an audit event, however many
\* attempts wrote them and wherever they stopped (Import).
CompletedIsWhole == Csv!CompletedIsWhole

\* The job of a submission, as the queue promises it to whoever enqueues it.
Lifecycle == INSTANCE JobLifecycle WITH
    Job <- {1},
    status <- [j \in {1} |-> job.status],
    attempts <- [j \in {1} |-> job.epoch]

\* However many uploads enqueue the job of a submission and however many attempts
\* overlap, it is one job: enqueued once, taken no more often than it may be, given
\* up only after its last attempt, and untouched once it is settled (Import).
ImplementsLifecycle == Lifecycle!Spec

\* What is planned is what is not known, and gets jobs for that alone; and going on
\* from provider to provider asks each that can serve a request once, and pays only
\* where that is allowed (ResearchCases).
ChoicesSound == Cases!NeedsSound /\ Cases!RoutingSound

\* Nothing is lost or counted twice.  Rows stand where the files have them, the first of
\* a keyword for all of it; a plan fills the slots it can, gives each bucket its share,
\* has nobody twice and prefers candidates of more value; families, micro-niches and
\* price segments account for every product once, sales are not counted twice, and only
\* verified evidence is strong (ResearchCases).
TalliesSound == /\ Cases!RowsAccounted /\ Cases!PlanMeetsShares
                /\ Cases!MarketSound /\ Cases!SeriesSound

\* Scores are percentages, prices fit as far as the rules allow, and only what no rule
\* objects to is screened (ResearchCases).
ScoresSound == Cases!RowScored

\* Purchase review means that nothing is missing, and nothing is paid for when
\* nothing is missing or known costs are too high (ResearchCases).
BusinessSound == Cases!BusinessSound

\* A hold blocks the requests that were queued before it (CandidateResearch).
HoldBlocks == Paid!HoldBlocks

\* No notification is marked as delivered that Telegram was never told, whoever
\* looks at its row at the same time (Notifications).
DeliveredWasTold == Notes!DeliveredWasTold
=============================================================================
