----------------------------- MODULE CandidateResearch -----------------------------
(***************************************************************************)
(* The paid research of one candidate: the business evidence that an       *)
(* administrator appends, the jobs whose keys name the evidence that asked *)
(* for them, the decisions they record, and their follow-ups.              *)
(*                                                                         *)
(* A version of the evidence, with the settings it is judged by, is what   *)
(* ResearchBusiness makes of it: the kinds of job it admits and whether it *)
(* stands at purchase review.  How a paid call is authorized and when a    *)
(* refused one is tried again is left to ApiCalls and Continuation, what   *)
(* becomes of a notification to Notifications.                             *)
(***************************************************************************)
EXTENDS Naturals, Sequences, FiniteSets

CONSTANTS Version,      \* bound: what evidence and settings may come to, records
                        \* of the kinds of job admitted and of purchase review
          MaxVersion,   \* bound: versions of the evidence
          MaxRunning    \* bound: attempts at a time

VARIABLES versions,   \* versions of the evidence, in order
          state,      \* candidates.state
          jobs,       \* the jobs there are, and whether they are done
          run         \* run[j]: the attempt at j

vars == <<versions, state, jobs, run>>

-----------------------------------------------------------------------------
Kind == {"probe", "deep", "enrich"}
State == {"Ready for API Validation", "Waiting for API Budget", "Watch", "Needs Review"}

\* A job of a version, or the resume job of its kind, which names none.
Job == Kind \X (0..MaxVersion)
KindOf(j) == j[1]

IdleRun == [pc |-> "idle", read |-> 0, began |-> 0, from |-> "Watch"]

TypeOK ==
    /\ versions \in Seq(Version) /\ Len(versions) <= MaxVersion
    /\ state \in State
    /\ jobs \in [Job -> {"absent", "queued", "done"}]
    /\ run \in [Job -> [pc : {"idle", "fetching", "deciding", "following", "leaving"},
                        read : 0..MaxVersion, began : 0..MaxVersion, from : State]]

Init == /\ versions = <<>> /\ state = "Ready for API Validation"
        /\ jobs = [j \in Job |-> "absent"] /\ run = [j \in Job |-> IdleRun]

-----------------------------------------------------------------------------
(***************************************************************************)
(* Evidence and the jobs it asks for.                                      *)
(***************************************************************************)

\* Evidence or settings: what admits a request is not at purchase review.
AppendEvidence(v) ==
    /\ Len(versions) < MaxVersion /\ (v.admits # {} => ~v.review)
    /\ versions' = versions \o <<v>>
    /\ UNCHANGED <<state, jobs, run>>

Admits(v, kind) == v # 0 /\ kind \in versions[v].admits
Latest == Len(versions)

\* Jobs of the latest evidence, of the kinds it admits; a key that is taken stays.
Enqueued(kinds) ==
    [j \in Job |-> IF jobs[j] = "absent" /\ Latest # 0 /\ Admits(Latest, KindOf(j))
                      /\ j \in kinds \X {Latest}
                   THEN "queued" ELSE jobs[j]]

\* The daily research enqueues the child that the latest evidence admits.
DailyChild ==
    /\ \E kind \in Kind : jobs' = Enqueued({kind})
    /\ UNCHANGED <<versions, state, run>>

-----------------------------------------------------------------------------
(***************************************************************************)
(* The attempts.                                                           *)
(***************************************************************************)

\* Probes end with their follow-ups, whatever came of them.
Rest(j) == IF KindOf(j) = "probe" THEN "following" ELSE "leaving"

\* A bug for the mutants: an attempt goes by the evidence that asked for its job.
EvidenceOfJob(j) == j[2]

\* loadResearchBusinessAdmissionContext
EvidenceRead(j) == Latest

\* Deep validation and enrichment are of candidates in these states only.
Open(kind) == kind = "probe" \/ state # "Waiting for API Budget"

\* An attempt reads the candidate, then the evidence; what is not admitted ends
\* here, a probe with its follow-ups.
Begin(j) ==
    /\ jobs[j] = "queued" /\ run[j].pc = "idle"
    /\ Cardinality({i \in Job : run[i].pc # "idle"}) < MaxRunning
    /\ run' = [run EXCEPT ![j] =
         IF Open(KindOf(j)) /\ Admits(EvidenceRead(j), KindOf(j))
         THEN [pc |-> "fetching", began |-> Latest, read |-> EvidenceRead(j),
               from |-> IF KindOf(j) = "enrich" THEN state ELSE "Watch"]
         ELSE [IdleRun EXCEPT !.pc = Rest(j)]]
    /\ UNCHANGED <<versions, state, jobs>>

Goto(j, pc) ==
    run' = [run EXCEPT ![j] = IF pc = "deciding" THEN [@ EXCEPT !.pc = pc]
                              ELSE [IdleRun EXCEPT !.pc = pc]]

\* The resume job of its kind.  Those of a probe have a key for each day and each
\* window they wait for; the key of the others may be taken.
Resumed(j) ==
    [jobs EXCEPT ![<<KindOf(j), 0>>] =
        IF KindOf(j) = "probe" \/ @ = "absent" THEN "queued" ELSE @]

\* Blocked by the policy of paid calls, in flight, or over the budget, which a
\* probe makes the state of its candidate.
Refused(j) ==
    /\ run[j].pc = "fetching"
    /\ Goto(j, Rest(j))
    /\ \/ UNCHANGED <<state, jobs>>
       \/ jobs' = Resumed(j) /\ UNCHANGED state
       \/ KindOf(j) = "probe" /\ state' = "Waiting for API Budget" /\ jobs' = Resumed(j)
    /\ UNCHANGED versions

\* The keywords of a deep validation are evidence, and no decision; a page of
\* products (families, relevant ones, micro-niches, a snapshot if the evidence is
\* complete and recent) and the endpoints of an enrichment lead to one.
Answered(j) ==
    /\ run[j].pc = "fetching"
    /\ Goto(j, IF KindOf(j) = "deep" THEN "following" ELSE "deciding")
    /\ UNCHANGED <<versions, state, jobs>>

\* scoreMarketOpportunity: a probe's margin is provisional, and so is that of an
\* enrichment short of purchase review; a strong potential is shown as Watch.
Verdicts(j) ==
    IF KindOf(j) = "enrich" /\ versions[run[j].read].review THEN {"Needs Review", "Watch"}
    ELSE {"Needs Review"}

\* The state of the candidate, whatever it has become meanwhile; an enrichment
\* leaves one that it read as such.
Decide(j) ==
    /\ run[j].pc = "deciding"
    /\ \E verdict \in Verdicts(j) :
         state' = IF KindOf(j) = "enrich" /\ verdict = run[j].from THEN state ELSE verdict
    /\ Goto(j, Rest(j))
    /\ UNCHANGED <<versions, jobs>>

\* enqueueExplicitRequestedFollowups, of the latest evidence, by probes and
\* completed deep validations; then the job is done.
EndJob(j) ==
    /\ run[j].pc \in {"following", "leaving"}
    /\ LET enqueued == IF run[j].pc = "following" THEN Enqueued({"deep", "enrich"}) ELSE jobs
       IN jobs' = [enqueued EXCEPT ![j] = "done"]
    /\ run' = [run EXCEPT ![j] = IdleRun]
    /\ UNCHANGED <<versions, state>>

\* Some write fails, or the worker dies, between any two of these or, having
\* written the state, before the decision is recorded; the job is taken anew.
Dies(j) ==
    /\ run[j].pc # "idle"
    /\ state' \in IF run[j].pc = "deciding" THEN {state} \cup Verdicts(j) ELSE {state}
    /\ run' = [run EXCEPT ![j] = IdleRun]
    /\ UNCHANGED <<versions, jobs>>

Next == \/ \E v \in Version : AppendEvidence(v)
        \/ DailyChild
        \/ \E j \in Job :
             \/ Begin(j) \/ Refused(j) \/ Answered(j) \/ Decide(j) \/ EndJob(j) \/ Dies(j)

Spec == Init /\ [][Next]_vars

-----------------------------------------------------------------------------
\* A hold blocks the requests that were queued before it: an attempt that began
\* after newer evidence pays only for what that evidence admits.
HoldBlocks == \A j \in Job :
    run[j].pc = "fetching" => run[j].read = run[j].began /\ Admits(run[j].began, KindOf(j))
=============================================================================
