---------------------------- MODULE DailyResearch ----------------------------
(***************************************************************************)
(* Daily research: the research_runs row of one date and mode, the job     *)
(* that works on it, and every attempt at that job that may still be at    *)
(* work.  An attempt publishes a plan unless there is one, enqueues what   *)
(* each planned candidate needs, saves its progress after each of them,    *)
(* completes the run and asks for a digest.                                *)
(*                                                                         *)
(* The attempts name no lease in what they write to the run: an attempt    *)
(* that lost its job goes on writing.  The job is the one JobLifecycle     *)
(* describes, which JobQueue implements.  The normalization jobs that the  *)
(* handler also enqueues belong to Normalization and are left out.         *)
(***************************************************************************)
EXTENDS Naturals, Sequences, FiniteSets, Functions

CONSTANTS Run,          \* research runs of one date and mode
          Item,         \* candidates the planner may select
          Slots,        \* app_settings.daily_api_budget
          NoPlan,       \* no plan was published
          MaxAttempts   \* jobs.max_attempts

ASSUME DailyAssumption ==
    /\ IsFiniteSet(Item)
    /\ Slots \in Nat
    /\ NoPlan \notin Seq(Item)
    /\ MaxAttempts \in Nat \ {0}

VARIABLES
    rows,       \* research_runs
    jobs,       \* the job of each run
    work,       \* work[r][a]: attempt a at the job of run r
    handled,    \* <<r, i>>: the jobs that candidate i needs were enqueued for r
    digests,    \* runs with a SEND_DIGEST job
    summaries   \* runs with a DAILY_SUMMARY notification

vars == <<rows, jobs, work, handled, digests, summaries>>
outputVars == <<handled, digests, summaries>>

-----------------------------------------------------------------------------
\* What planDailyResearch may select.  An empty plan is a plan, and a candidate
\* that moves between the pages read for the plan can appear in it twice.
Plans == UNION {[1..n -> Item] : n \in 0..Slots}

Phase == {"none", "fanout", "fanout_complete"}

\* research_runs.checkpoint: phase, selectedItems, enqueuedCandidateIds.
Checkpoint == [phase : Phase, items : Plans, done : SUBSET Item]

NoCheckpoint == [phase |-> "none", items |-> <<>>, done |-> {}]

ActiveStatus == {"queued", "fanout"}

Row == [source     : {"none", "scheduled", "manual"},
        status     : {"absent", "completed", "needs_attention"} \cup ActiveStatus,
        plan       : Plans,
        checkpoint : Checkpoint]

NoRow == [source |-> "none", status |-> "absent", plan |-> <<>>,
          checkpoint |-> NoCheckpoint]

Attempt == 1..MaxAttempts

Pc == {"idle", "reading", "planning", "rereading", "fanout", "saving",
       "rejected", "digest", "summary", "returning"}

\* An attempt with its local copies of selectedItems and enqueuedCandidateIds.
Work == [pc : Pc, items : Plans, done : SUBSET Item]

NoWork == [pc |-> "idle", items |-> <<>>, done |-> {}]

Job == [status   : {"absent", "queued", "running", "completed", "failed"},
        attempts : 0..MaxAttempts]

TypeOK == /\ rows \in [Run -> Row]
          /\ jobs \in [Run -> Job]
          /\ work \in [Run -> [Attempt -> Work]]
          /\ handled \subseteq Run \X Item
          /\ digests \subseteq Run
          /\ summaries \subseteq Run

Init == /\ rows = [r \in Run |-> NoRow]
        /\ jobs = [r \in Run |-> [status |-> "absent", attempts |-> 0]]
        /\ work = [r \in Run |-> [a \in Attempt |-> NoWork]]
        /\ handled = {} /\ digests = {} /\ summaries = {}

-----------------------------------------------------------------------------
(***************************************************************************)
(* How runs start.                                                         *)
(***************************************************************************)
Exists(r) == rows[r].status # "absent"

IsActive(r) == rows[r].status \in ActiveStatus

\* enqueueDailyResearch, first request: the row, unique for its date.  (The
\* scheduled_run_locks row that follows is never read.)
InsertScheduled(r) ==
    /\ ~Exists(r)
    /\ \A q \in Run : rows[q].source # "scheduled"
    /\ rows' = [rows EXCEPT ![r] = [NoRow EXCEPT !.source = "scheduled",
                                                 !.status = "queued"]]
    /\ UNCHANGED <<jobs, work, outputVars>>

\* Its last request: the job.  A process that died between the two leaves the
\* row alone until the command is run again.
EnqueueScheduled(r) ==
    /\ rows[r].source = "scheduled"
    /\ jobs[r].status = "absent"
    /\ jobs' = [jobs EXCEPT ![r].status = "queued"]
    /\ UNCHANGED <<rows, work, outputVars>>

\* enqueue_manual_research: while a manual run is active it is returned;
\* otherwise run and job are created in one transaction.
EnqueueManual(r) ==
    /\ ~Exists(r)
    /\ \A q \in Run : rows[q].source = "manual" => ~IsActive(q)
    /\ rows' = [rows EXCEPT ![r] = [NoRow EXCEPT !.source = "manual",
                                                 !.status = "queued"]]
    /\ jobs' = [jobs EXCEPT ![r].status = "queued"]
    /\ UNCHANGED <<work, outputVars>>

-----------------------------------------------------------------------------
(***************************************************************************)
(* The job, as the queue hands it out.                                     *)
(***************************************************************************)
Goto(r, a, pc) == work' = [work EXCEPT ![r][a].pc = pc]

\* A bug for the mutants: the attempt limit is off by one.
TakeOnceTooOften(r) ==
    LET a == jobs[r].attempts + 1 IN
    /\ jobs[r].status \in {"queued", "running"}
    /\ jobs[r].attempts \in 0..MaxAttempts
    /\ jobs' = [jobs EXCEPT ![r] = [status |-> "running", attempts |-> a]]
    /\ Goto(r, IF a \in Attempt THEN a ELSE MaxAttempts, "reading")
    /\ UNCHANGED <<rows, outputVars>>

\* claim_jobs
Take(r) ==
    LET a == jobs[r].attempts + 1 IN
    /\ jobs[r].status \in {"queued", "running"}
    /\ a \in Attempt
    /\ jobs' = [jobs EXCEPT ![r] = [status |-> "running", attempts |-> a]]
    /\ Goto(r, a, "reading")
    /\ UNCHANGED <<rows, outputVars>>

\* The lease may be over before anyone takes the job again: what an attempt
\* asks of the queue then fails.
Holds(r, a) == jobs[r].status = "running" /\ jobs[r].attempts = a

\* The handler returns: completeJob.
Return(r, a) ==
    /\ work[r][a].pc = "returning"
    /\ \/ Holds(r, a) /\ jobs' = [jobs EXCEPT ![r].status = "completed"]
       \/ UNCHANGED jobs
    /\ work' = [work EXCEPT ![r][a] = NoWork]
    /\ UNCHANGED <<rows, outputVars>>

\* A bug for the mutants: a failed job is always queued again.
ThrowAlwaysRetries(r, a) ==
    /\ work[r][a].pc # "idle"
    /\ \/ /\ Holds(r, a)
          /\ jobs' = [jobs EXCEPT ![r].status = "queued"]
       \/ UNCHANGED jobs
    /\ work' = [work EXCEPT ![r][a] = NoWork]
    /\ UNCHANGED <<rows, outputVars>>

\* Any call of the handler fails, whether or not it had its effect, or the
\* process dies: failJob, which leaves the research run as it is, or nothing.
Throw(r, a) ==
    /\ work[r][a].pc # "idle"
    /\ \/ /\ Holds(r, a)
          /\ jobs' = [jobs EXCEPT ![r].status =
                        IF a = MaxAttempts THEN "failed" ELSE "queued"]
       \/ UNCHANGED jobs
    /\ work' = [work EXCEPT ![r][a] = NoWork]
    /\ UNCHANGED <<rows, outputVars>>

\* terminalize_expired_exhausted_jobs
Terminalize(r) ==
    /\ Holds(r, MaxAttempts)
    /\ jobs' = [jobs EXCEPT ![r].status = "failed"]
    /\ rows' = [rows EXCEPT ![r].status = IF IsActive(r) THEN "needs_attention" ELSE @]
    /\ UNCHANGED <<work, outputVars>>

-----------------------------------------------------------------------------
(***************************************************************************)
(* An attempt (runDailyResearch).                                          *)
(***************************************************************************)

\* checkpointFromRun: a checkpoint is of use if it agrees with the plan.
Usable(row) == /\ row.checkpoint.phase # "none"
               /\ Len(row.checkpoint.items) = Len(row.plan)
               /\ Range(row.checkpoint.items) \subseteq Range(row.plan)

Unpublished(row) == row.plan = <<>> /\ row.checkpoint.phase = "none"

Loaded(row) == [pc |-> "fanout", items |-> row.checkpoint.items,
                done |-> row.checkpoint.done]

Read(r, a) ==
    /\ work[r][a].pc = "reading"
    /\ \/ /\ Usable(rows[r])
          /\ work' = [work EXCEPT ![r][a] = Loaded(rows[r])]
       \/ /\ ~Usable(rows[r])
          /\ Unpublished(rows[r])
          /\ Goto(r, a, "planning")
    /\ UNCHANGED <<rows, jobs, outputVars>>

\* A bug for the mutants: the plan is published without comparing.
PublishableAlways(row) == row.status \in ActiveStatus

\* The comparison of publish_daily_research_plan.
Publishable(row) == row.status \in ActiveStatus /\ Unpublished(row)

\* A plan is made and published, unless another attempt was faster.
Publish(r, a) ==
    /\ work[r][a].pc = "planning"
    /\ \E p \in Plans :
         rows' = IF Publishable(rows[r])
                 THEN [rows EXCEPT
                        ![r].status = "fanout", ![r].plan = p,
                        ![r].checkpoint = [phase |-> "fanout", items |-> p, done |-> {}]]
                 ELSE rows
    /\ Goto(r, a, "rereading")
    /\ UNCHANGED <<jobs, outputVars>>

\* What was published is read again before anything is enqueued.
Reread(r, a) ==
    /\ work[r][a].pc = "rereading"
    /\ Usable(rows[r])
    /\ work' = [work EXCEPT ![r][a] = Loaded(rows[r])]
    /\ UNCHANGED <<rows, jobs, outputVars>>

\* The positions of the items the loop has still to visit.
Remaining(w) == {n \in DOMAIN w.items : w.items[n] \notin w.done}

\* A bug for the mutants: an item is skipped.
NextItemSkipping(w, n) == n \in Remaining(w)

\* The loop visits them in the order of the plan.
NextItem(w, n) == n \in Remaining(w) /\ \A m \in Remaining(w) : n <= m

\* enqueueDecisionAwareChild for one item; it may find nothing to do.  Done
\* again, it finds the jobs that exist.
EnqueueChildren(r, a) ==
    /\ work[r][a].pc = "fanout"
    /\ \E n \in Remaining(work[r][a]) :
         /\ NextItem(work[r][a], n)
         /\ handled' = handled \cup {<<r, work[r][a].items[n]>>}
         /\ work' = [work EXCEPT ![r][a].pc = "saving",
                                 ![r][a].done = @ \cup {work[r][a].items[n]}]
    /\ UNCHANGED <<rows, jobs, digests, summaries>>

\* advance_daily_research_checkpoint: a closed run takes nothing more, and
\* progress is never taken back.
Closed(row) == row.status = "completed" \/ row.checkpoint.phase = "fanout_complete"

\* A bug for the mutants: progress is not compared.
AcceptsAnyCount(row, status, done) == Closed(row) => status = "completed"

Accepts(row, status, done) ==
    /\ Closed(row) => status = "completed"
    /\ Cardinality(done) >= Cardinality(row.checkpoint.done)

Advanced(row, status, items, done) ==
    IF Closed(row) THEN row
    ELSE [row EXCEPT
            !.status = status,
            !.checkpoint = [phase |-> IF status = "completed" THEN "fanout_complete"
                                                              ELSE "fanout",
                            items |-> items, done |-> done]]

\* persistDailyResearchCheckpoint, its first request.
Advance(r, a, status, next) ==
    LET w == work[r][a] IN
    IF Accepts(rows[r], status, w.done)
    THEN /\ rows' = [rows EXCEPT ![r] = Advanced(@, status, w.items, w.done)]
         /\ Goto(r, a, next)
    ELSE /\ Goto(r, a, "rejected")
         /\ UNCHANGED rows

SaveProgress(r, a) ==
    /\ work[r][a].pc = "saving"
    /\ Advance(r, a, "fanout", "fanout")
    /\ UNCHANGED <<jobs, outputVars>>

Complete(r, a) ==
    /\ work[r][a].pc = "fanout"
    /\ Remaining(work[r][a]) = {}
    /\ Advance(r, a, "completed", "digest")
    /\ UNCHANGED <<jobs, outputVars>>

\* A bug for the mutants: a rejected write is taken for a finished run.
AdoptAny(r, a) ==
    /\ work[r][a].pc = "rejected"
    /\ Goto(r, a, "digest")
    /\ UNCHANGED <<rows, jobs, outputVars>>

\* Its second, after a rejection: the completion of another attempt is
\* adopted; anything else is an error.
Adopt(r, a) ==
    /\ work[r][a].pc = "rejected"
    /\ rows[r].status = "completed"
    /\ rows[r].checkpoint.phase = "fanout_complete" /\ Usable(rows[r])
    /\ Goto(r, a, "digest")
    /\ UNCHANGED <<rows, jobs, outputVars>>

\* enqueueDigestBestEffort: the job, and the notification only if that did not
\* fail.  An enqueue whose answer is lost counts as failed.
EnqueueDigest(r, a) ==
    /\ work[r][a].pc = "digest"
    /\ digests' \in {digests, digests \cup {r}}
    /\ \/ r \in digests' /\ Goto(r, a, "summary")
       \/ Goto(r, a, "returning")
    /\ UNCHANGED <<rows, jobs, handled, summaries>>

RecordSummary(r, a) ==
    /\ work[r][a].pc = "summary"
    /\ summaries' \in {summaries, summaries \cup {r}}
    /\ Goto(r, a, "returning")
    /\ UNCHANGED <<rows, jobs, handled, digests>>

-----------------------------------------------------------------------------
StartStep(r) == InsertScheduled(r) \/ EnqueueScheduled(r) \/ EnqueueManual(r)

JobStep(r) == Take(r) \/ Terminalize(r)

WorkStep(r, a) ==
    \/ Read(r, a) \/ Publish(r, a) \/ Reread(r, a)
    \/ EnqueueChildren(r, a) \/ SaveProgress(r, a) \/ Complete(r, a) \/ Adopt(r, a)
    \/ EnqueueDigest(r, a) \/ RecordSummary(r, a) \/ Return(r, a) \/ Throw(r, a)

Next == \/ \E r \in Run : StartStep(r) \/ JobStep(r)
        \/ \E r \in Run, a \in Attempt : WorkStep(r, a)

Spec == Init /\ [][Next]_vars

-----------------------------------------------------------------------------
(***************************************************************************)
(* Properties.                                                             *)
(***************************************************************************)
PlanOf(r) == IF rows[r].checkpoint.phase = "none" THEN NoPlan ELSE rows[r].plan

\* Whatever attempts run side by side, crash and start again, each run keeps
\* its first plan, enqueues the candidates of that plan and no others, is
\* completed only after all of them, and is reported on only when completed.
Promise == INSTANCE FanOut WITH
               plan <- [r \in Run |-> PlanOf(r)],
               complete <- {r \in Run : rows[r].status = "completed"},
               reported <- digests \cup summaries

ImplementsFanOut == Promise!Spec

HandledOf(r) == {i \in Item : <<r, i>> \in handled}

\* What a checkpoint or an attempt counts as done was enqueued, and is a first
\* part of the plan: counting is enough to compare two attempts' progress
\* (advance_daily_research_checkpoint compares lengths only).
IsPrefixOfPlan(r, done) ==
    \E n \in 0..Len(rows[r].plan) : done = {rows[r].plan[m] : m \in 1..n}

ProgressIsPrefix ==
    \A r \in Run :
      /\ \A done \in {rows[r].checkpoint.done} \cup {work[r][a].done : a \in Attempt} :
           IsPrefixOfPlan(r, done) /\ done \subseteq HandledOf(r)

\* Progress that was saved is never taken back, and a completed run stays
\* completed, also by an attempt that lost its job long ago.
NoRegression ==
    [][\A r \in Run :
         /\ rows[r].checkpoint.done \subseteq rows'[r].checkpoint.done
         /\ rows[r].status = "completed" => rows'[r] = rows[r]]_vars

\* A job that is completed leaves its run completed (runDailyResearch returns
\* only a checkpoint that is in the database).
JobDoneRunDone ==
    \A r \in Run : jobs[r].status = "completed" => rows[r].status = "completed"

\* A run that a manual request would be given instead of a new one is a run
\* that somebody works on or will work on.  The roadmap has it that Research
\* Now is available at any time.
ResearchNowAvailable ==
    \A r \in Run : rows[r].source = "manual" /\ IsActive(r) =>
      \/ jobs[r].status \in {"queued", "running"}
      \/ \E a \in Attempt : work[r][a].pc # "idle"

\* To those who enqueue it, the job behaves as the queue promises.
Lifecycle == INSTANCE JobLifecycle WITH
                 Job <- Run,
                 status <- [r \in Run |-> jobs[r].status],
                 attempts <- [r \in Run |-> jobs[r].attempts]

ImplementsLifecycle == Lifecycle!Spec
=============================================================================
