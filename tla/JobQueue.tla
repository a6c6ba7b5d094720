------------------------------ MODULE JobQueue ------------------------------
(***************************************************************************)
(* The durable job queue: the rows of public.jobs, the SQL functions that  *)
(* are the only way to change them, and the worker processes that call     *)
(* these functions over a connection that can lose a call or its reply.    *)
(*                                                                         *)
(* Time appears only through its effects: a lease that was live has        *)
(* expired, a retry delay is over.  A checkpoint is abstracted to its      *)
(* author: the number of the attempt that last advanced it (0 = none).     *)
(***************************************************************************)
EXTENDS Naturals, FiniteSets

CONSTANTS Job,          \* jobs, named by their idempotency key
          DailyJob,     \* those of type DAILY_RESEARCH, with a research run
          Worker,       \* WORKER_ID values; a restarted worker keeps its own
          NoWorker,     \* leased_by is null
          MaxAttempts,  \* jobs.max_attempts
          ClaimLimit,   \* jobs a worker takes per claim (claimLimit)
          MaxOrphans    \* bound: calls in flight that nobody waits for

ASSUME QueueAssumption ==
    /\ DailyJob \subseteq Job
    /\ NoWorker \notin Worker
    /\ MaxAttempts \in Nat \ {0}
    /\ ClaimLimit \in Nat \ {0}
    /\ MaxOrphans \in Nat

VARIABLES
    jobs,       \* the table: one row per job
    research,   \* status of the research run a daily job works on
    proc,       \* where each worker's runWorkerLoop is
    stopping,   \* signal.aborted of each worker
    runs,       \* runs[w][j]: the runJob invocation of w for j
    calls,      \* queue calls on their way to the database
    reported    \* history: <<j, e>> logged as "Completed job" by attempt e

vars == <<jobs, research, proc, stopping, runs, calls, reported>>
queueVars == <<jobs, research>>
workerVars == <<proc, stopping, runs>>

-----------------------------------------------------------------------------
Epoch == 0..MaxAttempts

Row == [status     : {"absent", "queued", "running", "completed", "failed"},
        available  : BOOLEAN,                    \* available_at <= clock
        leasedBy   : Worker \cup {NoWorker},
        lease      : {"none", "live", "expired"},  \* leased_until vs. clock
        attempts   : Epoch,
        checkpoint : Epoch]

ResearchStatus == {"none", "active", "completed", "needs_attention"}

ProcState == {"down", "top", "claiming", "batch", "draining"}

RunPc == {"idle", "handling", "saving", "completing", "failing"}

Run == [pc         : RunPc,
        epoch      : Epoch,      \* job.leaseIdentity.epoch
        checkpoint : Epoch,      \* the local variable checkpoint
        hbFailed   : BOOLEAN]    \* heartbeatFailure is set

Op == {"heartbeat", "checkpoint", "complete", "fail"}

Call == [op : Op, owner : Worker, job : Job, epoch : Epoch, checkpoint : Epoch]

NoRow == [status |-> "absent", available |-> FALSE, leasedBy |-> NoWorker,
          lease |-> "none", attempts |-> 0, checkpoint |-> 0]

NoRun == [pc |-> "idle", epoch |-> 0, checkpoint |-> 0, hbFailed |-> FALSE]

TypeOK == /\ jobs \in [Job -> Row]
          /\ research \in [Job -> ResearchStatus]
          /\ proc \in [Worker -> ProcState]
          /\ stopping \in [Worker -> BOOLEAN]
          /\ runs \in [Worker -> [Job -> Run]]
          /\ calls \subseteq Call
          /\ reported \subseteq (Job \X Epoch)

Init == /\ jobs = [j \in Job |-> NoRow]
        /\ research = [j \in Job |-> "none"]
        /\ proc = [w \in Worker |-> "down"]
        /\ stopping = [w \in Worker |-> FALSE]
        /\ runs = [w \in Worker |-> [j \in Job |-> NoRun]]
        /\ calls = {}
        /\ reported = {}

-----------------------------------------------------------------------------
(***************************************************************************)
(* The table.                                                              *)
(***************************************************************************)
Settled(j) == jobs[j].status \in {"completed", "failed"}

Active(w, j) == runs[w][j].pc # "idle"

Idle(w) == \A j \in Job : ~Active(w, j)

\* Whether a run still waits for the answer to this call.
Awaited(c) ==
    LET r == runs[c.owner][c.job] IN
    /\ r.pc # "idle"
    /\ r.epoch = c.epoch
    /\ CASE c.op = "heartbeat"  -> ~r.hbFailed
         [] c.op = "checkpoint" -> r.pc = "saving"
         [] c.op = "complete"   -> r.pc = "completing"
         [] c.op = "fail"       -> r.pc = "failing"

Orphans == {c \in calls : ~Awaited(c)}

\* Enqueue a job, now or for later.  A second insert with the same
\* idempotency key finds the existing row and leaves it as it is.
Enqueue(j) ==
    /\ jobs[j].status = "absent"
    /\ \E a \in BOOLEAN :
         jobs' = [jobs EXCEPT ![j] = [@ EXCEPT !.status = "queued", !.available = a]]
    /\ research' = [research EXCEPT ![j] = IF j \in DailyJob THEN "active" ELSE @]
    /\ UNCHANGED <<workerVars, calls, reported>>

\* available_at passes.
BecomeAvailable(j) ==
    /\ jobs[j].status = "queued"
    /\ ~jobs[j].available
    /\ jobs' = [jobs EXCEPT ![j].available = TRUE]
    /\ UNCHANGED <<research, workerVars, calls, reported>>

\* leased_until passes.
LeaseExpires(j) ==
    /\ jobs[j].lease = "live"
    /\ jobs' = [jobs EXCEPT ![j].lease = "expired"]
    /\ UNCHANGED <<research, workerVars, calls, reported>>

\* A bug for the mutants: an expired lease is never taken over.
EligibleQueuedOnly(j) ==
    /\ jobs[j].attempts < MaxAttempts
    /\ jobs[j].status = "queued" /\ jobs[j].available

\* A bug for the mutants: the attempt limit is off by one.
EligibleOnceTooOften(j) ==
    /\ jobs[j].attempts <= MaxAttempts
    /\ \/ jobs[j].status = "queued" /\ jobs[j].available
       \/ jobs[j].status = "running" /\ jobs[j].lease = "expired"

\* The rows claim_jobs may take.
Eligible(j) ==
    /\ jobs[j].attempts < MaxAttempts
    /\ \/ jobs[j].status = "queued" /\ jobs[j].available
       \/ jobs[j].status = "running" /\ jobs[j].lease = "expired"

\* Which of them one call takes: the order by priority and the rows skipped
\* because another transaction has them locked leave any small enough batch.
Batches == {S \in SUBSET {j \in Job : Eligible(j)} : Cardinality(S) <= ClaimLimit}

\* A bug for the mutants: a takeover keeps the attempt number, so the old and
\* the new attempt of a worker that kept its name look the same.
TakenWithoutEpoch(r, w) ==
    [r EXCEPT !.status = "running", !.leasedBy = w, !.lease = "live",
              !.attempts = IF r.status = "running" THEN @ ELSE @ + 1]

\* A row after claim_jobs hands it to w.
Taken(r, w) ==
    [r EXCEPT !.status = "running", !.leasedBy = w, !.lease = "live",
              !.attempts = @ + 1]

\* The rows terminalize_expired_exhausted_jobs gives up.
Exhausted(j) == /\ jobs[j].status = "running"
                /\ jobs[j].lease = "expired"
                /\ jobs[j].attempts >= MaxAttempts

\* The research runs that terminalizing the jobs S leaves in need of attention.
Attention(S) ==
    [j \in Job |-> IF j \in S \cap DailyJob /\ research[j] = "active"
                   THEN "needs_attention" ELSE research[j]]

\* A bug for the mutants: the fence compares the owner only, so an attempt of
\* a former incarnation of the same worker passes it.
HeldByOwnerOnly(c) == /\ jobs[c.job].status = "running"
                      /\ jobs[c.job].leasedBy = c.owner
                      /\ jobs[c.job].lease = "live"

\* The fence of every write of a worker: the row is running under a live
\* lease of this owner and this attempt.
Held(c) == /\ jobs[c.job].status = "running"
           /\ jobs[c.job].leasedBy = c.owner
           /\ jobs[c.job].attempts = c.epoch
           /\ jobs[c.job].lease = "live"

Released(r) == [r EXCEPT !.leasedBy = NoWorker, !.lease = "none"]

\* A bug for the mutants: a failed job is always queued again.
WrittenAlwaysRetry(r, c) ==
    CASE c.op = "heartbeat"  -> [r EXCEPT !.lease = "live"]
      [] c.op = "checkpoint" -> [r EXCEPT !.lease = "live", !.checkpoint = c.checkpoint]
      [] c.op = "complete"   -> Released([r EXCEPT !.status = "completed",
                                                   !.checkpoint = c.checkpoint])
      [] c.op = "fail"       -> Released([r EXCEPT !.status = "queued",
                                                   !.available = FALSE,
                                                   !.checkpoint = c.checkpoint])

\* What heartbeat_job, checkpoint_job, complete_job and fail_job make of a
\* row that passes the fence.
Written(r, c) ==
    CASE c.op = "heartbeat"  -> [r EXCEPT !.lease = "live"]
      [] c.op = "checkpoint" -> [r EXCEPT !.lease = "live", !.checkpoint = c.checkpoint]
      [] c.op = "complete"   -> Released([r EXCEPT !.status = "completed",
                                                   !.checkpoint = c.checkpoint])
      [] c.op = "fail"       ->
           Released([r EXCEPT
             !.status = IF r.attempts >= MaxAttempts THEN "failed" ELSE "queued",
             !.available = IF r.attempts >= MaxAttempts THEN @ ELSE FALSE,
             !.checkpoint = c.checkpoint])

-----------------------------------------------------------------------------
(***************************************************************************)
(* The worker loop (runWorkerLoop, main).                                  *)
(***************************************************************************)

\* The service manager starts the process; the same WORKER_ID is used again.
Start(w) ==
    /\ proc[w] = "down"
    /\ proc' = [proc EXCEPT ![w] = "top"]
    /\ stopping' = [stopping EXCEPT ![w] = FALSE]
    /\ UNCHANGED <<queueVars, runs, calls, reported>>

\* SIGINT or SIGTERM.
Stop(w) ==
    /\ proc[w] # "down"
    /\ ~stopping[w]
    /\ stopping' = [stopping EXCEPT ![w] = TRUE]
    /\ UNCHANGED <<queueVars, proc, runs, calls, reported>>

\* The first call of an iteration: terminalizeExpiredExhaustedJobs.
Terminalize(w) ==
    /\ proc[w] = "top"
    /\ ~stopping[w]
    /\ LET dead == {j \in Job : Exhausted(j)} IN
         /\ jobs' = [j \in Job |-> IF j \in dead
                                   THEN Released([jobs[j] EXCEPT !.status = "failed"])
                                   ELSE jobs[j]]
         /\ research' = Attention(dead)
    /\ proc' = [proc EXCEPT ![w] = "claiming"]
    /\ UNCHANGED <<stopping, runs, calls, reported>>

\* The second call: claimJobs.  With nothing to claim the loop sleeps and
\* starts again; otherwise runJob starts for every claimed job.  The signal is
\* not looked at again: a stop between the two calls still claims a batch.
Claim(w) ==
    /\ proc[w] = "claiming"
    /\ \E S \in Batches :
         /\ S = {} => \A j \in Job : ~Eligible(j)
         /\ jobs' = [j \in Job |-> IF j \in S THEN Taken(jobs[j], w) ELSE jobs[j]]
         /\ runs' = [runs EXCEPT ![w] = [j \in Job |->
                       IF j \in S
                       THEN [pc |-> "handling", epoch |-> jobs'[j].attempts,
                             checkpoint |-> jobs[j].checkpoint, hbFailed |-> FALSE]
                       ELSE runs[w][j]]]
         /\ proc' = [proc EXCEPT ![w] = IF S = {} THEN "top" ELSE "batch"]
    /\ UNCHANGED <<research, stopping, calls, reported>>

\* Promise.all of the batch resolves; the loop looks at the signal again.
BatchDone(w) ==
    /\ proc[w] = "batch"
    /\ Idle(w)
    /\ proc' = [proc EXCEPT ![w] = "top"]
    /\ UNCHANGED <<queueVars, stopping, runs, calls, reported>>

\* The process ends: the loop saw the signal, or it was rejected and the runs
\* it left behind are over.
Exit(w) ==
    /\ \/ proc[w] = "top" /\ stopping[w]
       \/ proc[w] = "draining" /\ Idle(w)
    /\ proc' = [proc EXCEPT ![w] = "down"]
    /\ UNCHANGED <<queueVars, stopping, runs, calls, reported>>

\* The process dies (kill, power, or a terminalize or claim call that throws).
\* Rows it leased stay leased; calls it had sent may still arrive.
Crash(w) ==
    /\ proc[w] # "down"
    /\ proc' = [proc EXCEPT ![w] = "down"]
    /\ runs' = [runs EXCEPT ![w] = [j \in Job |-> NoRun]]
    /\ \E late \in SUBSET {c \in calls : c.owner = w} :
         calls' = {c \in calls : c.owner # w} \cup late
    /\ Cardinality(Orphans') <= MaxOrphans
    /\ UNCHANGED <<queueVars, stopping, reported>>

-----------------------------------------------------------------------------
(***************************************************************************)
(* One runJob invocation.                                                  *)
(***************************************************************************)
CallOf(w, j, op, data) ==
    [op |-> op, owner |-> w, job |-> j, epoch |-> runs[w][j].epoch,
     checkpoint |-> data]

\* The heartbeat timer fires; it keeps firing until runJob is over.
Heartbeat(w, j) ==
    /\ Active(w, j)
    /\ CallOf(w, j, "heartbeat", 0) \notin calls
    /\ calls' = calls \cup {CallOf(w, j, "heartbeat", 0)}
    /\ UNCHANGED <<queueVars, workerVars, reported>>

\* The handler calls setCheckpoint: only the run's own variable changes.
SetCheckpoint(w, j) ==
    /\ runs[w][j].pc = "handling"
    /\ runs' = [runs EXCEPT ![w][j].checkpoint = runs[w][j].epoch]
    /\ UNCHANGED <<queueVars, proc, stopping, calls, reported>>

\* The handler awaits saveCheckpoint.
SaveCheckpoint(w, j) ==
    /\ runs[w][j].pc = "handling"
    /\ calls' = calls \cup {CallOf(w, j, "checkpoint", runs[w][j].epoch)}
    /\ runs' = [runs EXCEPT ![w][j].pc = "saving"]
    /\ UNCHANGED <<queueVars, proc, stopping, reported>>

\* A daily handler saves the progress of its research run, or finishes it, in
\* a transaction of its own that does not look at the job's lease: a handler
\* that lost the job may still revive a run that asked for attention.
AdvanceResearch(w, j) ==
    /\ runs[w][j].pc = "handling"
    /\ research[j] \in {"active", "needs_attention"}
    /\ \E s \in {"active", "completed"} : research' = [research EXCEPT ![j] = s]
    /\ UNCHANGED <<jobs, workerVars, calls, reported>>

\* The run is over, or, if no heartbeat failed, goes on to make the call op.
EndsWith(w, j, op, pc, cs) ==
    IF runs[w][j].hbFailed
    THEN /\ runs' = [runs EXCEPT ![w][j] = NoRun]
         /\ calls' = cs
    ELSE /\ runs' = [runs EXCEPT ![w][j].pc = pc]
         /\ calls' = cs \cup {CallOf(w, j, op, runs[w][j].checkpoint)}

\* The handler returns: completeJob.
Return(w, j) ==
    /\ runs[w][j].pc = "handling"
    /\ EndsWith(w, j, "complete", "completing", calls)
    /\ UNCHANGED <<queueVars, proc, stopping, reported>>

\* The handler throws (also because its signal was aborted): failJob.
Throw(w, j) ==
    /\ runs[w][j].pc = "handling"
    /\ EndsWith(w, j, "fail", "failing", calls)
    /\ UNCHANGED <<queueVars, proc, stopping, reported>>

\* A bug for the mutants: a call that changed no row counts as done.
ReportsAnyReply(c) ==
    IF c.op = "complete" THEN {<<c.job, c.epoch>>} ELSE {}

\* What runJob logs when the answer to c arrives: completeJob throws
\* JobLeaseLostError unless it changed the row.
Reports(c) ==
    IF c.op = "complete" /\ Held(c) THEN {<<c.job, c.epoch>>} ELSE {}

\* The run of c after the answer: a heartbeat or a checkpoint that kept the
\* lease lets it go on, every other answer ends it.
Answered(r, c) ==
    CASE c.op = "heartbeat" -> [r EXCEPT !.hbFailed = ~Held(c)]
      [] c.op = "checkpoint" /\ Held(c) -> [r EXCEPT !.pc = "handling",
                                                     !.checkpoint = c.checkpoint]
      [] OTHER -> NoRun

\* The database executes a call in flight, and the run that waits for the
\* answer gets it.  A failJob that lost the lease throws out of runJob: the
\* batch is rejected and the process ends once the other runs are over.
Deliver(c) ==
    /\ calls' = calls \ {c}
    /\ jobs' = IF Held(c) THEN [jobs EXCEPT ![c.job] = Written(@, c)] ELSE jobs
    /\ IF Awaited(c)
       THEN /\ runs' = [runs EXCEPT ![c.owner][c.job] = Answered(@, c)]
            /\ reported' = reported \cup Reports(c)
            /\ proc' = IF c.op = "fail" /\ ~Held(c)
                       THEN [proc EXCEPT ![c.owner] = "draining"] ELSE proc
       ELSE UNCHANGED <<runs, reported, proc>>
    /\ UNCHANGED <<research, stopping>>

\* The caller sees a transport error; the call itself is lost or still on its
\* way.  A failed heartbeat aborts the run, a failed saveCheckpoint throws into
\* the handler, a failed completeJob leads to failJob, a failed failJob throws
\* out of runJob.
TransportError(c) ==
    LET w == c.owner
        j == c.job
    IN
    /\ Awaited(c)
    /\ \E rest \in {calls, calls \ {c}} :
         CASE c.op = "heartbeat"  -> /\ runs' = [runs EXCEPT ![w][j].hbFailed = TRUE]
                                     /\ calls' = rest
                                     /\ UNCHANGED proc
           [] c.op = "checkpoint" -> /\ runs' = [runs EXCEPT ![w][j].pc = "handling"]
                                     /\ calls' = rest
                                     /\ UNCHANGED proc
           [] c.op = "complete"   -> /\ EndsWith(w, j, "fail", "failing", rest)
                                     /\ UNCHANGED proc
           [] c.op = "fail"       -> /\ runs' = [runs EXCEPT ![w][j] = NoRun]
                                     /\ calls' = rest
                                     /\ proc' = [proc EXCEPT ![w] = "draining"]
    /\ Cardinality(Orphans') <= MaxOrphans
    /\ UNCHANGED <<queueVars, stopping, reported>>

-----------------------------------------------------------------------------
LoopStep(w) == Start(w) \/ Terminalize(w) \/ Claim(w) \/ BatchDone(w) \/ Exit(w)

RunStep(w, j) == \/ Heartbeat(w, j) \/ SetCheckpoint(w, j) \/ SaveCheckpoint(w, j)
                 \/ AdvanceResearch(w, j) \/ Return(w, j) \/ Throw(w, j)

Next == \/ \E j \in Job : Enqueue(j) \/ BecomeAvailable(j) \/ LeaseExpires(j)
        \/ \E w \in Worker : LoopStep(w) \/ Stop(w) \/ Crash(w)
        \/ \E w \in Worker, j \in Job : RunStep(w, j)
        \/ \E c \in calls : Deliver(c) \/ TransportError(c)

Spec == Init /\ [][Next]_vars

-----------------------------------------------------------------------------
(***************************************************************************)
(* Safety.                                                                 *)
(***************************************************************************)

\* The queue keeps its promise to those who enqueue: leases, takeovers, lost
\* replies and restarts are all hidden behind JobLifecycle.
Lifecycle == INSTANCE JobLifecycle WITH
                 status <- [j \in Job |-> jobs[j].status],
                 attempts <- [j \in Job |-> jobs[j].attempts]

ImplementsLifecycle == Lifecycle!Spec

\* Attempts are fencing tokens: two invocations of runJob for one job never
\* have the same epoch, and one that has the epoch of the row is the lease's
\* owner or lost the row for good (claim_jobs, mapJob's leaseIdentity).
EpochsFence ==
    \A v, w \in Worker, j \in Job :
      Active(w, j) =>
        /\ runs[w][j].epoch \in 1..jobs[j].attempts
        /\ Active(v, j) /\ runs[v][j].epoch = runs[w][j].epoch => v = w
        /\ runs[w][j].epoch = jobs[j].attempts /\ jobs[j].status = "running"
             => jobs[j].leasedBy = w

\* A job the worker logs as completed is completed, by that very attempt, and
\* stays so: no attempt that lost its lease believes that it won
\* (DurableQueue.completeJob, runJob).
ReportedIsCompleted ==
    \A r \in reported : /\ jobs[r[1]].status = "completed"
                        /\ jobs[r[1]].attempts = r[2]

\* The checkpoint a retry resumes from is the work of the attempt that holds
\* the job, or what that attempt found: a late write of an earlier attempt
\* never gets in (checkpoint_job, complete_job, fail_job).
OnlyHolderCheckpoints ==
    [][\A j \in Job :
         jobs'[j].checkpoint # jobs[j].checkpoint =>
           jobs[j].attempts \in {jobs[j].checkpoint, jobs'[j].checkpoint}]_vars

-----------------------------------------------------------------------------
(***************************************************************************)
(* Liveness.  Assumed fair: the clock; the service manager that restarts   *)
(* the worker (Restart=always); each loop call, even if the process is     *)
(* stopped or killed again and again, as long as it sometimes gets through *)
(* (strong fairness); a handler that ends, and an answer or an error to    *)
(* every call that is awaited.  Nothing is assumed of heartbeats, of calls *)
(* nobody waits for, or of what a handler or a stop does.                  *)
(***************************************************************************)
Abandoned(j) == ~\E w \in Worker : Active(w, j) /\ runs[w][j].epoch = jobs[j].attempts

Answers(w, j) == \E c \in calls : /\ c.owner = w /\ c.job = j
                                  /\ c.op # "heartbeat" /\ Awaited(c)
                                  /\ Deliver(c) \/ TransportError(c)

Fairness ==
    /\ \A j \in Job : /\ WF_vars(BecomeAvailable(j))
                      /\ WF_vars(Abandoned(j) /\ LeaseExpires(j))
    /\ \A w \in Worker : /\ WF_vars(Start(w) \/ BatchDone(w) \/ Exit(w))
                         /\ SF_vars(Terminalize(w)) /\ SF_vars(Claim(w))
    /\ \A w \in Worker, j \in Job : /\ SF_vars(Return(w, j) \/ Throw(w, j))
                                    /\ WF_vars(Answers(w, j))

FairSpec == Spec /\ Fairness

\* Every job that was enqueued is settled in the end, whatever crashes, lost
\* leases and lost replies happen on the way.
EventuallySettled == \A j \in Job : jobs[j].status = "queued" ~> Settled(j)
=============================================================================
