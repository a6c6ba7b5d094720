---------------------------- MODULE Normalization ----------------------------
(***************************************************************************)
(* AI normalization of one candidate: the job of each normalization        *)
(* generation, its analysis, the write-ahead ledger of provider attempts,  *)
(* and the coordinator that runs providers, falls back, finalizes or       *)
(* defers.  Several attempts at a job may be at work: all but the last     *)
(* have lost their lease without knowing it.                               *)
(*                                                                         *)
(* The queue appears as much as the fences need it (see JobQueue): an      *)
(* attempt is known by its epoch.  Attempts at providers are known by      *)
(* their place in the ledger of the generation, 0 standing for null.       *)
(***************************************************************************)
EXTENDS Naturals, Sequences, FiniteSets

CONSTANTS Provider,       \* configured providers for niche_normalization
          Payg,           \* those that are paid primaries
          ProviderLimit,  \* providers one analysis may consume (3 in the code)
          MaxAttempts,    \* jobs.max_attempts
          MaxGeneration   \* bound: rearms of the candidate

ASSUME NormalizationAssumption ==
    /\ Payg \subseteq Provider
    /\ IsFiniteSet(Provider)
    /\ ProviderLimit \in Nat \ {0}
    /\ MaxAttempts \in Nat \ {0}
    /\ MaxGeneration \in Nat

VARIABLES candidate,  \* state and normalization_generation of the candidate
          decision,   \* normalized_candidate_finalizations: the winner, by generation
          jobs,       \* the NORMALIZE_OPPORTUNITIES job of each generation
          analyses,   \* the ai_analyses row of each generation
          ledger,     \* provider_attempt_events of each generation
          runs,       \* runs[g][e]: attempt e at job g
          executed    \* history: attempts whose provider may have been consumed

vars == <<candidate, decision, jobs, analyses, ledger, runs, executed>>

-----------------------------------------------------------------------------
Generation == 0..MaxGeneration
Epoch == 1..MaxAttempts

Outcome == {"none",         \* attempt_started only
            "success", "recoverable", "fatal", "cancelled", "notConsumed",
            "unknown"}      \* attempt_unknown_after_crash

\* Classes of failure another provider may be tried after.
Recoverable == {"recoverable", "unknown"}

Pc == {"idle", "loading", "claiming", "reclaiming", "reconciling", "routing",
       "beginning", "executing", "succeeding", "failing", "finalizing",
       "deciding", "deferring", "returning", "throwing"}

Attempt == Nat

Run == [pc       : Pc,
        epoch    : Nat,                        \* analysisLease.epoch
        excluded : SUBSET Provider,
        parent   : Attempt,                    \* fallbackParentAttemptId
        provider : Provider \cup {"none"},
        attempt  : Attempt,                    \* authorizationAttemptId
        outcome  : Outcome]                    \* what is to be appended

Start == [provider : Provider, outcome : Outcome]

TypeOK ==
    /\ candidate \in [state : {"AI Screening", "Waiting", "Decided"},
                      generation : Generation]
    /\ decision \in [Generation -> Attempt]
    /\ jobs \in [Generation ->
                   [status : {"absent", "queued", "running", "completed", "failed"},
                    epoch : {0} \cup Epoch, live : BOOLEAN]]
    /\ analyses \in [Generation ->
                       [status : {"absent", "pending", "completed"},
                        epoch : Nat, live : BOOLEAN,
                        pending : Attempt, winner : Attempt]]
    /\ ledger \in [Generation -> Seq(Start)]
    /\ runs \in [Generation -> [Epoch -> Run]]
    /\ executed \subseteq (Generation \X Attempt)

NoRun == [pc |-> "idle", epoch |-> 0, excluded |-> {}, parent |-> 0,
          provider |-> "none", attempt |-> 0, outcome |-> "none"]

Init == /\ candidate = [state |-> "AI Screening", generation |-> 0]
        /\ decision = [g \in Generation |-> 0]
        /\ jobs = [g \in Generation |-> [status |-> "absent", epoch |-> 0, live |-> FALSE]]
        /\ analyses = [g \in Generation |->
                         [status |-> "absent", epoch |-> 0, live |-> FALSE,
                          pending |-> 0, winner |-> 0]]
        /\ ledger = [g \in Generation |-> <<>>]
        /\ runs = [g \in Generation |-> [e \in Epoch |-> NoRun]]
        /\ executed = {}

-----------------------------------------------------------------------------
(***************************************************************************)
(* The queue and the sweeps.                                               *)
(***************************************************************************)

\* enqueue_initial_candidate_normalization
EnqueueInitial ==
    LET g == candidate.generation IN
    /\ candidate.state = "AI Screening"
    /\ jobs[g].status = "absent"
    /\ jobs' = [jobs EXCEPT ![g].status = "queued"]
    /\ UNCHANGED <<candidate, decision, analyses, ledger, runs, executed>>

\* A bug for the mutants: a job that has deferred the candidate but is not yet
\* completed does not hold up the next one.
RearmableWhileWorking(g) ==
    /\ candidate.state = "Waiting"
    /\ ~(analyses[g].status = "pending" /\ analyses[g].live)

\* What rearm_candidate_normalization demands, some provider being routable.
Rearmable(g) ==
    /\ candidate.state = "Waiting"
    /\ jobs[g].status \notin {"queued", "running"}
    /\ ~(analyses[g].status = "pending" /\ analyses[g].live)

\* rearm_candidate_normalization
Rearm ==
    LET g == candidate.generation IN
    /\ Rearmable(g)
    /\ g < MaxGeneration
    /\ candidate' = [candidate EXCEPT !.generation = g + 1]
    /\ jobs' = [jobs EXCEPT ![g + 1].status = "queued"]
    /\ UNCHANGED <<decision, analyses, ledger, runs, executed>>

\* A bug for the mutants: the attempt limit is off by one.
TakeableOnceTooOften(j) == /\ j.epoch <= MaxAttempts
                           /\ j.status = "queued" \/ (j.status = "running" /\ ~j.live)

Takeable(j) == /\ j.epoch < MaxAttempts
               /\ j.status = "queued" \/ (j.status = "running" /\ ~j.live)

Take(g) ==
    /\ Takeable(jobs[g])
    /\ jobs' = [jobs EXCEPT ![g] = [status |-> "running", epoch |-> @.epoch + 1,
                                    live |-> TRUE]]
    /\ runs' = [runs EXCEPT ![g][jobs'[g].epoch] = [NoRun EXCEPT !.pc = "loading"]]
    /\ UNCHANGED <<candidate, decision, analyses, ledger, executed>>

JobLeaseExpires(g) ==
    /\ jobs[g].live
    /\ jobs' = [jobs EXCEPT ![g].live = FALSE]
    /\ UNCHANGED <<candidate, decision, analyses, ledger, runs, executed>>

\* It is renewed by a timer of its own until then, while status is pending.
AnalysisLeaseExpires(g) ==
    /\ analyses[g].live
    /\ analyses' = [analyses EXCEPT ![g].live = FALSE]
    /\ UNCHANGED <<candidate, decision, jobs, ledger, runs, executed>>

Terminalize(g) ==
    /\ jobs[g].status = "running" /\ ~jobs[g].live /\ jobs[g].epoch = MaxAttempts
    /\ jobs' = [jobs EXCEPT ![g].status = "failed"]
    /\ UNCHANGED <<candidate, decision, analyses, ledger, runs, executed>>

\* assert_current_job_lease
JobHeld(g, e) == jobs[g] = [status |-> "running", epoch |-> e, live |-> TRUE]

\* assert_current_analysis_lease
AnalysisHeld(g, e, status) ==
    /\ analyses[g].status = status
    /\ analyses[g].epoch = runs[g][e].epoch
    /\ analyses[g].live

Fenced(g, e) == JobHeld(g, e) /\ AnalysisHeld(g, e, "pending")

\* A bug for the mutants: a job that failed is tried again for ever.
RetriedStatus(g, e) == IF runs[g][e].pc = "returning" THEN "completed" ELSE "queued"

EndStatus(g, e) == IF runs[g][e].pc = "returning" THEN "completed"
                   ELSE IF e = MaxAttempts THEN "failed" ELSE "queued"

\* The handler is over: completeJob, or failJob.
End(g, e) ==
    /\ runs[g][e].pc \in {"returning", "throwing"}
    /\ jobs' = IF ~JobHeld(g, e) THEN jobs
               ELSE [jobs EXCEPT ![g] =
                       [status |-> EndStatus(g, e), epoch |-> e, live |-> FALSE]]
    /\ runs' = [runs EXCEPT ![g][e] = NoRun]
    /\ UNCHANGED <<candidate, decision, analyses, ledger, executed>>

\* The process dies, or runJob drops the run after a failed heartbeat.
Drop(g, e) ==
    /\ runs[g][e].pc # "idle"
    /\ runs' = [runs EXCEPT ![g][e] = NoRun]
    /\ UNCHANGED <<candidate, decision, jobs, analyses, ledger, executed>>

-----------------------------------------------------------------------------
(***************************************************************************)
(* runNormalizeJob and the coordinator.  Reply says how a run goes on      *)
(* after a call that the database executed: as r, or, if the reply is      *)
(* lost, with an exception.  CallFails is a call that had no effect,       *)
(* because it was lost, its fence rejected it or the run was aborted.      *)
(***************************************************************************)
Update(g, e, r) == runs' = [runs EXCEPT ![g][e] = r]

\* An exception: only that of the append of a success is caught, and then
\* appended as an unclassified failure.
Thrown(r) == IF r.pc = "succeeding" THEN [r EXCEPT !.pc = "failing", !.outcome = "fatal"]
             ELSE [r EXCEPT !.pc = "throwing"]

Reply(g, e, r) == Update(g, e, r) \/ Update(g, e, Thrown(runs[g][e]))

CallFails(g, e) ==
    /\ runs[g][e].pc \notin {"idle", "executing", "returning", "throwing"}
    /\ Update(g, e, Thrown(runs[g][e]))
    /\ UNCHANGED <<candidate, decision, jobs, analyses, ledger, executed>>

Load(g, e) ==
    /\ runs[g][e].pc = "loading"
    /\ candidate.generation = g
    /\ Update(g, e, [runs[g][e] EXCEPT
         !.pc = IF candidate.state = "AI Screening" THEN "claiming" ELSE "returning"])
    /\ UNCHANGED <<candidate, decision, jobs, analyses, ledger, executed>>

\* claim_ai_analysis, which does not look at the job's lease.  A busy analysis
\* makes the run throw (CallFails).
ClaimAnalysis(g, e) ==
    LET a == analyses[g]
        r == runs[g][e]
    IN
    /\ r.pc = "claiming"
    /\ \/ /\ a.status = "completed"
          /\ Reply(g, e, [r EXCEPT !.pc = "reclaiming"])
          /\ UNCHANGED analyses
       \/ /\ a.status # "completed" /\ ~a.live
          /\ analyses' = [analyses EXCEPT ![g] =
                            [a EXCEPT !.status = "pending", !.epoch = @ + 1, !.live = TRUE]]
          /\ Reply(g, e, [r EXCEPT !.pc = "reconciling", !.epoch = a.epoch + 1])
    /\ UNCHANGED <<candidate, decision, jobs, ledger, executed>>

\* claim_completed_ai_analysis_finalization
Reclaim(g, e) ==
    LET r == runs[g][e] IN
    /\ r.pc = "reclaiming"
    /\ JobHeld(g, e)
    /\ \/ /\ decision[g] # 0                          \* already_committed
          /\ decision[g] = analyses[g].winner
          /\ Reply(g, e, [r EXCEPT !.pc = "returning"])
          /\ UNCHANGED analyses
       \/ /\ decision[g] = 0
          /\ analyses[g].status = "completed" /\ ~analyses[g].live
          /\ candidate = [state |-> "AI Screening", generation |-> g]
          /\ analyses' = [analyses EXCEPT ![g].epoch = @ + 1, ![g].live = TRUE]
          /\ Reply(g, e, [r EXCEPT !.pc = "deciding", !.epoch = analyses[g].epoch + 1])
    /\ UNCHANGED <<candidate, decision, jobs, ledger, executed>>

\* Starts nobody appended an outcome to are those of lost runs.
Reconciled(L) ==
    [n \in DOMAIN L |-> IF L[n].outcome = "none" THEN [L[n] EXCEPT !.outcome = "unknown"]
                        ELSE L[n]]

\* A bug for the mutants: a start whose run was lost is taken for one that consumed
\* nothing.
AttemptedKnown(L) ==
    {L[n].provider : n \in {m \in DOMAIN L : L[m].outcome \notin {"notConsumed", "unknown"}}}

\* attempted_provider_ids
Attempted(L) == {L[n].provider : n \in {m \in DOMAIN L : L[m].outcome # "notConsumed"}}

\* fallback_parent_attempt_id: the last start, if it allows another one.
Parent(L) ==
    IF L # <<>> /\ L[Len(L)].outcome \in Recoverable \cup {"notConsumed"}
    THEN Len(L) ELSE 0

\* A bug for the mutants: the pending winner is overlooked.
GoOnForgetful(r, a, L) ==
    LET parent == Parent(L) IN
    [r EXCEPT !.pc = IF Attempted(L) # {} /\ parent = 0 THEN "deferring" ELSE "routing",
              !.excluded = Attempted(L), !.parent = parent]

\* How execute goes on: finalize a pending winner, defer, or route.
GoOn(r, a, L) ==
    LET parent == Parent(L) IN
    IF a.pending # 0 THEN [r EXCEPT !.pc = "finalizing", !.attempt = a.pending]
    ELSE [r EXCEPT !.pc = IF Attempted(L) # {} /\ parent = 0 THEN "deferring" ELSE "routing",
                   !.excluded = Attempted(L), !.parent = parent]

\* reconcile_ai_provider_attempts
Reconcile(g, e) ==
    LET L == Reconciled(ledger[g]) IN
    /\ runs[g][e].pc = "reconciling"
    /\ Fenced(g, e)
    /\ ledger' = [ledger EXCEPT ![g] = L]
    /\ Reply(g, e, GoOn(runs[g][e], analyses[g], L))
    /\ UNCHANGED <<candidate, decision, jobs, analyses, executed>>

\* What routeAiRequest may choose from, were every provider available.  The
\* paid primaries are offered first, to an untouched analysis, and alone.
Pool(r) ==
    IF r.excluded = {} /\ r.parent = 0 /\ Payg # {} THEN Payg
    ELSE (Provider \ Payg) \ r.excluded

\* Which providers are enabled and healthy is not known: any of the pool may
\* be chosen, or none be left.
Route(g, e) ==
    LET r == runs[g][e] IN
    /\ r.pc = "routing"
    /\ \/ Update(g, e, [r EXCEPT !.pc = "deferring"])
       \/ \E p \in Pool(r) : Update(g, e, [r EXCEPT !.pc = "beginning", !.provider = p])
    /\ UNCHANGED <<candidate, decision, jobs, analyses, ledger, executed>>

\* Whether start L[n] is a fit parent for a start of p.
FallsBack(L, n, p) ==
    /\ n = Len(L)
    /\ IF L[n].provider = p
       THEN /\ L[n].outcome = "notConsumed"
            /\ Cardinality({m \in DOMAIN L : L[m].provider = p}) < 2
       ELSE L[n].outcome \in Recoverable

\* A bug for the mutants: the provider limit is not enforced.
StartableUnlimited(L, n, p) ==
    /\ p \in Payg => n = 0
    /\ \A m \in DOMAIN L : L[m].outcome # "none"
    /\ IF n = 0 THEN L = <<>> ELSE FallsBack(L, n, p)
    /\ p \notin Attempted(L)

\* What begin_ai_provider_attempt demands of the ledger L, the parent n and
\* the provider p.
Startable(L, n, p) ==
    /\ p \in Payg => n = 0
    /\ \A m \in DOMAIN L : L[m].outcome # "none"
    /\ IF n = 0 THEN L = <<>> ELSE FallsBack(L, n, p)
    /\ p \notin Attempted(L)
    /\ Cardinality(Attempted(L)) < ProviderLimit \/ \E m \in DOMAIN L : L[m].provider = p

\* begin_ai_provider_attempt: the start is on record before the provider is
\* called.
Begin(g, e) ==
    LET r == runs[g][e] IN
    /\ r.pc = "beginning"
    /\ Fenced(g, e)
    /\ analyses[g].pending = 0
    /\ Startable(ledger[g], r.parent, r.provider)
    /\ ledger' = [ledger EXCEPT ![g] = Append(@, [provider |-> r.provider, outcome |-> "none"])]
    /\ Reply(g, e, [r EXCEPT !.pc = "executing", !.attempt = Len(ledger'[g])])
    /\ UNCHANGED <<candidate, decision, jobs, analyses, executed>>

\* The provider is called, and answers or fails in some way; the run may also
\* be aborted before or during the call.
Execute(g, e) ==
    LET r == runs[g][e] IN
    /\ r.pc = "executing"
    /\ \E o \in Outcome \ {"none", "unknown"} :
         /\ Update(g, e, [r EXCEPT !.pc = IF o = "success" THEN "succeeding" ELSE "failing",
                                   !.outcome = o])
         /\ executed' = IF o = "notConsumed" THEN executed
                        ELSE executed \cup {<<g, r.attempt>>}
    /\ UNCHANGED <<candidate, decision, jobs, analyses, ledger>>

\* A bug for the mutants: a second outcome replaces the first.
AppendableAgain(g, e) == Fenced(g, e)

\* append_ai_provider_attempt_outcome takes one outcome for a start.
Appendable(g, e) == Fenced(g, e) /\ ledger[g][runs[g][e].attempt].outcome = "none"

RecordOutcome(g, n, o) == ledger' = [ledger EXCEPT ![g][n].outcome = o]

Succeed(g, e) ==
    LET r == runs[g][e] IN
    /\ r.pc = "succeeding"
    /\ Appendable(g, e)
    /\ analyses[g].pending = 0
    /\ RecordOutcome(g, r.attempt, "success")
    /\ analyses' = [analyses EXCEPT ![g].pending = r.attempt]
    /\ Reply(g, e, [r EXCEPT !.pc = "finalizing"])
    /\ UNCHANGED <<candidate, decision, jobs, executed>>

\* A failure is appended; whether another provider is tried depends on its
\* class.  (apply_ai_provider_runtime_failure, which also says so for the
\* subscription providers, changes only the provider's own state.)
Fail(g, e) ==
    LET r == runs[g][e] IN
    /\ r.pc = "failing"
    /\ Appendable(g, e)
    /\ RecordOutcome(g, r.attempt, r.outcome)
    /\ Reply(g, e,
         [r EXCEPT !.pc = IF r.outcome \in {"recoverable", "notConsumed"}
                          THEN "routing" ELSE "throwing",
                   !.parent = r.attempt, !.attempt = 0, !.provider = "none",
                   !.outcome = "none",
                   !.excluded = IF r.outcome = "notConsumed" THEN @ ELSE @ \cup {r.provider}])
    /\ UNCHANGED <<candidate, decision, jobs, analyses, executed>>

\* finalize_ai_analysis_from_attempt
FinalizeAnalysis(g, e) ==
    LET r == runs[g][e] IN
    /\ r.pc = "finalizing"
    /\ Fenced(g, e)
    /\ analyses[g].pending = r.attempt
    /\ ledger[g][r.attempt].outcome = "success"
    /\ analyses' = [analyses EXCEPT ![g] =
                      [@ EXCEPT !.status = "completed", !.winner = r.attempt, !.pending = 0]]
    /\ Reply(g, e, [r EXCEPT !.pc = "deciding"])
    /\ UNCHANGED <<candidate, decision, jobs, ledger, executed>>

\* finalize_normalized_candidate
Decide(g, e) ==
    LET r == runs[g][e] IN
    /\ r.pc = "deciding"
    /\ JobHeld(g, e)
    /\ AnalysisHeld(g, e, "completed")
    /\ \/ /\ decision[g] # 0                          \* already_committed
          /\ decision[g] = analyses[g].winner
          /\ UNCHANGED <<candidate, decision>>
       \/ /\ decision[g] = 0
          /\ candidate = [state |-> "AI Screening", generation |-> g]
          /\ candidate' = [candidate EXCEPT !.state = "Decided"]
          /\ decision' = [decision EXCEPT ![g] = analyses[g].winner]
    /\ Reply(g, e, [r EXCEPT !.pc = "returning"])
    /\ UNCHANGED <<jobs, analyses, ledger, executed>>

\* defer_candidate_normalization, which asks only for the job's lease.
Defer(g, e) ==
    LET r == runs[g][e] IN
    /\ r.pc = "deferring"
    /\ JobHeld(g, e)
    /\ \/ candidate.state = "Waiting" /\ UNCHANGED candidate
       \/ /\ candidate = [state |-> "AI Screening", generation |-> g]
          /\ decision[g] = 0
          /\ \A n \in DOMAIN ledger[g] : ledger[g][n].outcome \notin {"none", "success"}
          /\ candidate' = [candidate EXCEPT !.state = "Waiting"]
    /\ Reply(g, e, [r EXCEPT !.pc = "returning"])
    /\ UNCHANGED <<decision, jobs, analyses, ledger, executed>>

-----------------------------------------------------------------------------
RunStep(g, e) ==
    \/ Load(g, e) \/ ClaimAnalysis(g, e) \/ Reclaim(g, e) \/ Reconcile(g, e)
    \/ Route(g, e) \/ Begin(g, e) \/ Execute(g, e) \/ Succeed(g, e) \/ Fail(g, e)
    \/ FinalizeAnalysis(g, e) \/ Decide(g, e) \/ Defer(g, e)
    \/ CallFails(g, e) \/ End(g, e) \/ Drop(g, e)

Next == \/ EnqueueInitial \/ Rearm
        \/ \E g \in Generation : \/ Take(g) \/ Terminalize(g)
                                 \/ JobLeaseExpires(g) \/ AnalysisLeaseExpires(g)
        \/ \E g \in Generation, e \in Epoch : RunStep(g, e)

Spec == Init /\ [][Next]_vars

-----------------------------------------------------------------------------
(***************************************************************************)
(* Properties.                                                             *)
(***************************************************************************)
ExecutedOf(g) == {n \in DOMAIN ledger[g] : <<g, n>> \in executed}

\* Whatever crashes, lost replies and overlapping attempts there are, one
\* analysis consumes no provider twice and at most ProviderLimit of them
\* (begin_ai_provider_attempt; design document, section 17).
ExecutedOnce ==
    \A g \in Generation :
      /\ \A m, n \in ExecutedOf(g) : ledger[g][m].provider = ledger[g][n].provider => m = n
      /\ Cardinality(ExecutedOf(g)) <= ProviderLimit

\* Work on a candidate has one owner and one result: only the job of the
\* current generation is ever queued or running, and what is decided is decided
\* in that generation, by the one answer on record for it, which a provider
\* gave (rearm_candidate_normalization, finalize_normalized_candidate).
DecidedByWinner ==
    \A g \in Generation :
      /\ jobs[g].status \in {"queued", "running"} => g = candidate.generation
      /\ decision[g] # 0 =>
           /\ decision[g] = analyses[g].winner
           /\ candidate = [state |-> "Decided", generation |-> g]
      /\ analyses[g].winner # 0 =>
           /\ ledger[g][analyses[g].winner].outcome = "success"
           /\ <<g, analyses[g].winner>> \in executed
      /\ Cardinality({n \in DOMAIN ledger[g] : ledger[g][n].outcome = "success"}) <= 1

\* A recorded answer is never given up: the candidate is not deferred past it,
\* and the attempt that holds the job does not try to.
AnswerKept ==
    /\ candidate.state = "Waiting" =>
         \A g \in Generation : analyses[g].pending = 0 /\ analyses[g].winner = 0
    /\ \A g \in Generation, e \in Epoch :
         runs[g][e].pc = "deferring" /\ JobHeld(g, e) => analyses[g].pending = 0

\* The outcome of an attempt is final: a run that was given up and the one
\* that reconciles after it never both have a say
\* (provider_attempt_events_one_outcome).
OutcomeFinal ==
    [][\A g \in Generation : \A n \in DOMAIN ledger[g] :
         ledger[g][n].outcome # "none" => ledger'[g][n] = ledger[g][n]]_vars

\* The jobs are of the kind that the queue offers: what the fences of this module
\* assume of it is no more than what JobQueue implements.
Lifecycle == INSTANCE JobLifecycle WITH
    Job <- Generation,
    status <- [g \in Generation |-> jobs[g].status],
    attempts <- [g \in Generation |-> jobs[g].epoch]

ImplementsLifecycle == Lifecycle!Spec

\* Behind two leases, a ledger and overlapping attempts, a candidate is screened as
\* CandidateScreening describes it: one provider after the other, one answer, a
\* decision by it or none.
ProvidersOf(g, attempts) == {ledger[g][n].provider : n \in attempts \cap DOMAIN ledger[g]}

Screening == INSTANCE CandidateScreening WITH
    generation <- candidate.generation,
    state <- candidate.state,
    consumed <- [g \in Generation |-> ProvidersOf(g, ExecutedOf(g))],
    answer <- [g \in Generation |->
                 ProvidersOf(g, {analyses[g].pending, analyses[g].winner})],
    decision <- [g \in Generation |-> ProvidersOf(g, {decision[g]})]

ImplementsScreening == Screening!Spec

\* Leases, ledger and overlapping attempts keep both promises: that of the queue about
\* the jobs, and that of CandidateScreening about the candidate.
ImplementsBoth == ImplementsLifecycle /\ ImplementsScreening

\* What the design document, section 22, promises of a rearm: the candidate is
\* normalized again.  A rearmed job that completes has worked on an analysis.
RearmNormalizes ==
    \A g \in Generation \ {0} :
      jobs[g].status = "completed" => analyses[g].status # "absent"
=============================================================================
