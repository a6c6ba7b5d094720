--------------------------- MODULE JobQueueProofs ---------------------------
(***************************************************************************)
(* What holds of the job queue for any number of jobs, workers, attempts   *)
(* and calls in flight.                                                    *)
(***************************************************************************)
EXTENDS JobQueue, TLAPS

-----------------------------------------------------------------------------
(***************************************************************************)
(* Rows.                                                                   *)
(***************************************************************************)

\* A call that passes the fence leaves a row a row and its attempt number and,
\* unless it settles or requeues it, its owner alone.
LEMMA WrittenRow ==
    ASSUME TypeOK, NEW c \in Call, Held(c)
    PROVE  LET old == jobs[c.job]
               new == Written(old, c)
           IN /\ new \in Row
              /\ new.attempts = old.attempts
              /\ new.status = "running" => new.leasedBy = old.leasedBy
              /\ new.status = CASE c.op \in {"heartbeat", "checkpoint"} -> "running"
                                [] c.op = "complete" -> "completed"
                                [] c.op = "fail" -> IF old.attempts >= MaxAttempts
                                                    THEN "failed" ELSE "queued"
<1> DEFINE old == jobs[c.job]
<1>1. old \in Row /\ old.status = "running"
  BY DEF TypeOK, Call, Held
<1>2. CASE c.op = "heartbeat"
  BY <1>1, <1>2 DEF Written, Row
<1>3. CASE c.op = "checkpoint"
  BY <1>1, <1>3 DEF Written, Row, Call
<1>4. CASE c.op = "complete"
  BY <1>1, <1>4 DEF Written, Row, Call, Released
<1>5. CASE c.op = "fail"
  BY <1>1, <1>5 DEF Written, Row, Call, Released
<1>6. QED
  BY <1>2, <1>3, <1>4, <1>5 DEF Call, Op

\* A row that claim_jobs hands out is a row with the next attempt number.
LEMMA TakenRow ==
    ASSUME TypeOK, NEW w \in Worker, NEW j \in Job, Eligible(j)
    PROVE  /\ Taken(jobs[j], w) \in Row
           /\ Taken(jobs[j], w).attempts = jobs[j].attempts + 1
           /\ Taken(jobs[j], w).status = "running"
           /\ Taken(jobs[j], w).leasedBy = w
<1>1. jobs[j] \in Row /\ jobs[j].attempts < MaxAttempts
  BY DEF TypeOK, Eligible
<1>2. jobs[j].attempts + 1 \in Epoch
  BY <1>1, QueueAssumption DEF Row, Epoch
<1>3. QED
  BY <1>1, <1>2 DEF Row, Taken

\* Replacing one run by a run keeps the runs typed.
LEMMA RunsUpdate ==
    ASSUME TypeOK, NEW w \in Worker, NEW j \in Job, NEW r \in Run
    PROVE  [runs EXCEPT ![w][j] = r] \in [Worker -> [Job -> Run]]
<1>1. runs[w] \in [Job -> Run]
  BY DEF TypeOK
<1>2. [runs[w] EXCEPT ![j] = r] \in [Job -> Run]
  BY <1>1
<1>3. QED
  BY <1>2 DEF TypeOK

\* So does moving one run on.
LEMMA RunPcUpdate ==
    ASSUME TypeOK, NEW w \in Worker, NEW j \in Job, NEW pc \in RunPc
    PROVE  [runs EXCEPT ![w][j].pc = pc] \in [Worker -> [Job -> Run]]
<1>1. runs[w] \in [Job -> Run] /\ runs[w][j] \in Run
  BY DEF TypeOK
<1>2. [runs[w][j] EXCEPT !.pc = pc] \in Run
  BY <1>1 DEF Run
<1>3. [runs[w] EXCEPT ![j].pc = pc] \in [Job -> Run]
  BY <1>1, <1>2
<1>4. QED
  BY <1>3 DEF TypeOK

\* So does setting the heartbeatFailure of one run.
LEMMA RunHbUpdate ==
    ASSUME TypeOK, NEW w \in Worker, NEW j \in Job
    PROVE  [runs EXCEPT ![w][j].hbFailed = TRUE] \in [Worker -> [Job -> Run]]
<1>1. runs[w] \in [Job -> Run] /\ runs[w][j] \in Run
  BY DEF TypeOK
<1>2. [runs[w][j] EXCEPT !.hbFailed = TRUE] \in Run
  BY <1>1 DEF Run
<1>3. [runs[w] EXCEPT ![j].hbFailed = TRUE] \in [Job -> Run]
  BY <1>1, <1>2
<1>4. QED
  BY <1>3 DEF TypeOK

\* The calls a run makes are calls.
LEMMA CallOfCall ==
    ASSUME TypeOK, NEW w \in Worker, NEW j \in Job, NEW op \in Op, NEW e \in Epoch
    PROVE  CallOf(w, j, op, e) \in Call
BY DEF TypeOK, CallOf, Call, Run

\* A run that ends or goes on to another call keeps runs and calls typed.
LEMMA EndsWithType ==
    ASSUME TypeOK, NEW w \in Worker, NEW j \in Job, NEW op \in Op, NEW pc \in RunPc,
           NEW cs \in SUBSET Call, EndsWith(w, j, op, pc, cs)
    PROVE  runs' \in [Worker -> [Job -> Run]] /\ calls' \subseteq Call
<1>1. NoRun \in Run
  BY QueueAssumption DEF NoRun, Run, RunPc, Epoch
<1>2. runs[w][j].checkpoint \in Epoch
  BY DEF TypeOK, Run
<1>3. CASE runs[w][j].hbFailed
  BY <1>1, <1>3, RunsUpdate DEF EndsWith
<1>4. CASE ~runs[w][j].hbFailed
  <2>1. CallOf(w, j, op, runs[w][j].checkpoint) \in Call
    BY <1>2, CallOfCall
  <2>2. [runs EXCEPT ![w][j].pc = pc] \in [Worker -> [Job -> Run]]
    BY RunPcUpdate
  <2>3. /\ runs' = [runs EXCEPT ![w][j].pc = pc]
        /\ calls' = cs \cup {CallOf(w, j, op, runs[w][j].checkpoint)}
    BY <1>4 DEF EndsWith
  <2>4. QED
    BY <2>1, <2>2, <2>3
<1>5. QED
  BY <1>3, <1>4

-----------------------------------------------------------------------------
(***************************************************************************)
(* Type correctness.                                                       *)
(***************************************************************************)

\* Every variable keeps its type, whatever happens to rows, runs and calls.
THEOREM TypeCorrect == Spec => []TypeOK
<1>1. Init => TypeOK
  BY QueueAssumption
  DEF Init, TypeOK, NoRow, Row, NoRun, Run, RunPc, Epoch, ProcState, ResearchStatus
<1>2. TypeOK /\ [Next]_vars => TypeOK'
  <2> SUFFICES ASSUME TypeOK, [Next]_vars PROVE TypeOK'
    OBVIOUS
  <2> USE QueueAssumption
  <2>1. ASSUME NEW j \in Job, Enqueue(j) \/ BecomeAvailable(j) \/ LeaseExpires(j)
        PROVE  TypeOK'
    <3>1. CASE Enqueue(j)
      <4>1. PICK a \in BOOLEAN :
              jobs' = [jobs EXCEPT ![j] = [@ EXCEPT !.status = "queued", !.available = a]]
        BY <3>1 DEF Enqueue
      <4>2. [jobs[j] EXCEPT !.status = "queued", !.available = a] \in Row
        BY DEF TypeOK, Row
      <4>3. jobs' \in [Job -> Row]
        BY <4>1, <4>2 DEF TypeOK
      <4>4. QED
        BY <3>1, <4>3 DEF Enqueue, TypeOK, ResearchStatus, workerVars
    <3>2. CASE BecomeAvailable(j)
      <4>1. [jobs[j] EXCEPT !.available = TRUE] \in Row
        BY DEF TypeOK, Row
      <4>2. jobs' = [jobs EXCEPT ![j] = [jobs[j] EXCEPT !.available = TRUE]]
        BY <3>2 DEF BecomeAvailable, TypeOK
      <4>3. jobs' \in [Job -> Row]
        BY <4>1, <4>2 DEF TypeOK
      <4>4. QED
        BY <3>2, <4>3 DEF BecomeAvailable, TypeOK, workerVars
    <3>3. CASE LeaseExpires(j)
      <4>1. [jobs[j] EXCEPT !.lease = "expired"] \in Row
        BY DEF TypeOK, Row
      <4>2. jobs' = [jobs EXCEPT ![j] = [jobs[j] EXCEPT !.lease = "expired"]]
        BY <3>3 DEF LeaseExpires, TypeOK
      <4>3. jobs' \in [Job -> Row]
        BY <4>1, <4>2 DEF TypeOK
      <4>4. QED
        BY <3>3, <4>3 DEF LeaseExpires, TypeOK, workerVars
    <3>4. QED
      BY <2>1, <3>1, <3>2, <3>3
  <2>2. ASSUME NEW w \in Worker, Start(w) \/ Stop(w) \/ BatchDone(w) \/ Exit(w)
        PROVE  TypeOK'
    BY <2>2 DEF TypeOK, Start, Stop, BatchDone, Exit, ProcState, queueVars
  <2>3. ASSUME NEW w \in Worker, Terminalize(w)
        PROVE  TypeOK'
    <3>1. \A j \in Job : Released([jobs[j] EXCEPT !.status = "failed"]) \in Row
      BY DEF TypeOK, Released, Row
    <3>2. jobs' \in [Job -> Row] /\ research' \in [Job -> ResearchStatus]
      BY <2>3, <3>1 DEF Terminalize, Attention, TypeOK, ResearchStatus
    <3>3. proc' \in [Worker -> ProcState]
      BY <2>3 DEF Terminalize, TypeOK, ProcState
    <3>4. QED
      BY <2>3, <3>2, <3>3 DEF Terminalize, TypeOK
  <2>4. ASSUME NEW w \in Worker, Claim(w)
        PROVE  TypeOK'
    <3>1. PICK S \in Batches :
            /\ jobs' = [j \in Job |-> IF j \in S THEN Taken(jobs[j], w) ELSE jobs[j]]
            /\ runs' = [runs EXCEPT ![w] = [j \in Job |->
                          IF j \in S
                          THEN [pc |-> "handling", epoch |-> jobs'[j].attempts,
                                checkpoint |-> jobs[j].checkpoint, hbFailed |-> FALSE]
                          ELSE runs[w][j]]]
            /\ proc' = [proc EXCEPT ![w] = IF S = {} THEN "top" ELSE "batch"]
      BY <2>4 DEF Claim
    <3>2. \A j \in S : j \in Job /\ Taken(jobs[j], w) \in Row
      BY <3>1, TakenRow DEF Batches
    <3>3. jobs' \in [Job -> Row]
      BY <3>1, <3>2 DEF TypeOK
    <3>4. \A j \in Job :
            [pc |-> "handling", epoch |-> jobs'[j].attempts,
             checkpoint |-> jobs[j].checkpoint, hbFailed |-> FALSE] \in Run
      BY <3>3 DEF TypeOK, Row, Run, RunPc
    <3>5. runs' \in [Worker -> [Job -> Run]]
      BY <3>1, <3>4 DEF TypeOK
    <3>6. proc' \in [Worker -> ProcState]
      BY <3>1 DEF TypeOK, ProcState
    <3>7. QED
      BY <2>4, <3>3, <3>5, <3>6 DEF Claim, TypeOK
  <2>5. ASSUME NEW w \in Worker, Crash(w)
        PROVE  TypeOK'
    <3>1. NoRun \in Run
      BY DEF NoRun, Run, RunPc, Epoch
    <3>2. QED
      BY <2>5, <3>1 DEF Crash, TypeOK, ProcState, queueVars
  <2>6. ASSUME NEW w \in Worker, NEW j \in Job, RunStep(w, j)
        PROVE  TypeOK'
    <3>1. runs[w][j] \in Run /\ runs[w][j].epoch \in Epoch /\ 0 \in Epoch
      BY DEF TypeOK, Run, Epoch
    <3>2. CASE Heartbeat(w, j)
      BY <3>1, <3>2, CallOfCall DEF Heartbeat, TypeOK, Op, queueVars, workerVars
    <3>3. CASE SetCheckpoint(w, j)
      BY <3>1, <3>3 DEF SetCheckpoint, TypeOK, Run, queueVars
    <3>4. CASE SaveCheckpoint(w, j)
      <4>1. runs' \in [Worker -> [Job -> Run]]
        BY <3>4, RunPcUpdate DEF SaveCheckpoint, RunPc
      <4>2. QED
        BY <3>1, <3>4, <4>1, CallOfCall DEF SaveCheckpoint, TypeOK, Op, queueVars
    <3>5. CASE AdvanceResearch(w, j)
      BY <3>5 DEF AdvanceResearch, TypeOK, ResearchStatus, workerVars
    <3>6. CASE Return(w, j)
      BY <3>6, EndsWithType DEF Return, TypeOK, Op, RunPc, queueVars
    <3>7. CASE Throw(w, j)
      BY <3>7, EndsWithType DEF Throw, TypeOK, Op, RunPc, queueVars
    <3>8. QED
      BY <2>6, <3>2, <3>3, <3>4, <3>5, <3>6, <3>7 DEF RunStep
  <2>7. ASSUME NEW c \in calls, Deliver(c)
        PROVE  TypeOK'
    <3>1. c \in Call /\ c.job \in Job /\ c.owner \in Worker /\ c.epoch \in Epoch
          /\ c.checkpoint \in Epoch
      BY DEF TypeOK, Call
    <3>2. jobs' \in [Job -> Row]
      BY <2>7, <3>1, WrittenRow DEF Deliver, TypeOK
    <3>3. Answered(runs[c.owner][c.job], c) \in Run
      <4>1. runs[c.owner][c.job] \in Run /\ NoRun \in Run
        BY <3>1 DEF TypeOK, NoRun, Run, RunPc, Epoch
      <4>2. Held(c) \in BOOLEAN
        BY DEF Held
      <4>3. CASE c.op = "heartbeat"
        BY <4>1, <4>2, <4>3 DEF Answered, Run
      <4>4. CASE c.op = "checkpoint" /\ Held(c)
        BY <3>1, <4>1, <4>4 DEF Answered, Run, RunPc
      <4>5. CASE c.op # "heartbeat" /\ ~(c.op = "checkpoint" /\ Held(c))
        BY <4>1, <4>5 DEF Answered
      <4>6. QED
        BY <4>3, <4>4, <4>5
    <3>4. runs' \in [Worker -> [Job -> Run]]
      <4>1. runs' \in {runs, [runs EXCEPT ![c.owner][c.job] =
                                        Answered(runs[c.owner][c.job], c)]}
        BY <2>7 DEF Deliver
      <4>2. [runs EXCEPT ![c.owner][c.job] = Answered(runs[c.owner][c.job], c)]
              \in [Worker -> [Job -> Run]]
        BY <3>1, <3>3, RunsUpdate
      <4>3. QED
        BY <4>1, <4>2 DEF TypeOK
    <3>5. proc' \in [Worker -> ProcState]
      BY <2>7, <3>1 DEF Deliver, TypeOK, ProcState
    <3>6. Reports(c) \subseteq Job \X Epoch
      BY <3>1 DEF Reports
    <3>7. QED
      BY <2>7, <3>2, <3>4, <3>5, <3>6 DEF Deliver, TypeOK
  <2>8. ASSUME NEW c \in calls, TransportError(c)
        PROVE  TypeOK'
    <3>1. c \in Call /\ c.job \in Job /\ c.owner \in Worker /\ c.op \in Op
      BY DEF TypeOK, Call
    <3>2. NoRun \in Run
      BY DEF NoRun, Run, RunPc, Epoch
    <3>3. PICK rest \in {calls, calls \ {c}} :
           CASE c.op = "heartbeat"  -> /\ runs' = [runs EXCEPT ![c.owner][c.job].hbFailed = TRUE]
                                       /\ calls' = rest
                                       /\ UNCHANGED proc
             [] c.op = "checkpoint" -> /\ runs' = [runs EXCEPT ![c.owner][c.job].pc = "handling"]
                                       /\ calls' = rest
                                       /\ UNCHANGED proc
             [] c.op = "complete"   -> /\ EndsWith(c.owner, c.job, "fail", "failing", rest)
                                       /\ UNCHANGED proc
             [] c.op = "fail"       -> /\ runs' = [runs EXCEPT ![c.owner][c.job] = NoRun]
                                       /\ calls' = rest
                                       /\ proc' = [proc EXCEPT ![c.owner] = "draining"]
      BY <2>8 DEF TransportError
    <3>4. rest \in SUBSET Call
      BY DEF TypeOK
    <3>5. UNCHANGED <<jobs, research, stopping, reported>>
      BY <2>8 DEF TransportError, queueVars
    <3>6. CASE c.op = "heartbeat"
      <4>1. /\ runs' = [runs EXCEPT ![c.owner][c.job].hbFailed = TRUE]
            /\ calls' = rest
            /\ UNCHANGED proc
        BY <3>3, <3>6
      <4>2. runs' \in [Worker -> [Job -> Run]]
        BY <3>1, <4>1, RunHbUpdate
      <4>3. QED
        BY <3>4, <3>5, <4>1, <4>2 DEF TypeOK
    <3>7. CASE c.op = "checkpoint"
      <4>1. /\ runs' = [runs EXCEPT ![c.owner][c.job].pc = "handling"]
            /\ calls' = rest
            /\ UNCHANGED proc
        BY <3>3, <3>7
      <4>2. runs' \in [Worker -> [Job -> Run]]
        BY <3>1, <4>1, RunPcUpdate DEF RunPc
      <4>3. QED
        BY <3>4, <3>5, <4>1, <4>2 DEF TypeOK
    <3>8. CASE c.op = "complete"
      <4>1. EndsWith(c.owner, c.job, "fail", "failing", rest) /\ UNCHANGED proc
        BY <3>3, <3>8
      <4>2. runs' \in [Worker -> [Job -> Run]] /\ calls' \subseteq Call
        BY <3>1, <3>4, <4>1, EndsWithType DEF Op, RunPc
      <4>3. QED
        BY <3>5, <4>1, <4>2 DEF TypeOK
    <3>9. CASE c.op = "fail"
      <4>1. /\ runs' = [runs EXCEPT ![c.owner][c.job] = NoRun]
            /\ calls' = rest
            /\ proc' = [proc EXCEPT ![c.owner] = "draining"]
        BY <3>3, <3>9
      <4>2. runs' \in [Worker -> [Job -> Run]]
        BY <3>1, <3>2, <4>1, RunsUpdate
      <4>3. QED
        BY <3>1, <3>4, <3>5, <4>1, <4>2 DEF TypeOK, ProcState
    <3>10. QED
      BY <3>1, <3>6, <3>7, <3>8, <3>9 DEF Op
  <2>9. CASE UNCHANGED vars
    BY <2>9 DEF TypeOK, vars
  <2>10. QED
    BY <2>1, <2>2, <2>3, <2>4, <2>5, <2>6, <2>7, <2>8, <2>9 DEF Next, LoopStep
<1>3. QED
  BY <1>1, <1>2, PTL DEF Spec

-----------------------------------------------------------------------------
(***************************************************************************)
(* A reported completion is one.  The invariant is inductive beside the    *)
(* types: a completed row passes no fence, is never eligible and never     *)
(* exhausted.                                                              *)
(***************************************************************************)

\* The two functions that write many rows at once leave a completed row alone.
LEMMA CompletedUntaken ==
    ASSUME NEW j \in Job, jobs[j].status = "completed"
    PROVE  ~Eligible(j) /\ ~Exhausted(j)
BY DEF Eligible, Exhausted

\* A job logged as completed is completed by that attempt, for ever.
THEOREM ReportsHold == Spec => []ReportedIsCompleted
<1>1. Init => ReportedIsCompleted
  BY DEF Init, ReportedIsCompleted
<1>2. TypeOK /\ ReportedIsCompleted /\ [Next]_vars => ReportedIsCompleted'
  <2> SUFFICES ASSUME TypeOK, ReportedIsCompleted, [Next]_vars
               PROVE  ReportedIsCompleted'
    OBVIOUS
  <2>1. \A r \in reported : r[1] \in Job
    BY DEF TypeOK
  <2>2. ASSUME UNCHANGED reported,
               \A j \in Job : jobs[j].status = "completed" => jobs'[j] = jobs[j]
        PROVE  ReportedIsCompleted'
    BY <2>1, <2>2 DEF ReportedIsCompleted
  <2>3. ASSUME NEW j \in Job, Enqueue(j) \/ BecomeAvailable(j) \/ LeaseExpires(j)
        PROVE  ReportedIsCompleted'
    <3>1. \A k \in Job : jobs[k].status = "completed" =>
                           /\ jobs'[k].status = "completed"
                           /\ jobs'[k].attempts = jobs[k].attempts
      <4>1. CASE Enqueue(j)
        BY <4>1 DEF Enqueue, TypeOK, Row
      <4>2. CASE BecomeAvailable(j)
        BY <4>2 DEF BecomeAvailable, TypeOK, Row
      <4>3. CASE LeaseExpires(j)
        BY <4>3 DEF LeaseExpires, TypeOK, Row
      <4>4. QED
        BY <2>3, <4>1, <4>2, <4>3
    <3>2. UNCHANGED reported
      BY <2>3 DEF Enqueue, BecomeAvailable, LeaseExpires
    <3>3. QED
      BY <2>1, <3>1, <3>2 DEF ReportedIsCompleted
  <2>4. ASSUME NEW w \in Worker, Terminalize(w)
        PROVE  ReportedIsCompleted'
    BY <2>2, <2>4, CompletedUntaken DEF Terminalize, TypeOK
  <2>5. ASSUME NEW w \in Worker, Claim(w)
        PROVE  ReportedIsCompleted'
    BY <2>2, <2>5, CompletedUntaken DEF Claim, Batches, TypeOK
  <2>6. ASSUME NEW c \in calls, Deliver(c)
        PROVE  ReportedIsCompleted'
    <3>1. c \in Call /\ c.job \in Job
      BY DEF TypeOK, Call
    <3>2. \A j \in Job : jobs[j].status = "completed" => jobs'[j] = jobs[j]
      BY <2>6, <3>1 DEF Deliver, Held, TypeOK
    <3>3. CASE UNCHANGED reported
      BY <2>2, <3>2, <3>3
    <3>4. CASE reported' # reported
      <4>1. reported' = reported \cup Reports(c)
        BY <2>6, <3>4 DEF Deliver
      <4>2. Held(c) /\ c.op = "complete" /\ Reports(c) = {<<c.job, c.epoch>>}
        BY <3>4, <4>1 DEF Reports
      <4>3. jobs' = [jobs EXCEPT ![c.job] = Written(jobs[c.job], c)]
        BY <2>6, <4>2 DEF Deliver
      <4>4. /\ jobs'[c.job].status = "completed"
            /\ jobs'[c.job].attempts = c.epoch
        BY <3>1, <4>2, <4>3, WrittenRow DEF TypeOK, Held
      <4>5. QED
        BY <2>1, <3>2, <4>1, <4>2, <4>4 DEF ReportedIsCompleted
    <3>5. QED
      BY <3>3, <3>4
  <2>7. ASSUME UNCHANGED <<jobs, reported>>
        PROVE  ReportedIsCompleted'
    BY <2>7 DEF ReportedIsCompleted
  <2>8. ASSUME NEW w \in Worker,
               Start(w) \/ Stop(w) \/ BatchDone(w) \/ Exit(w) \/ Crash(w)
        PROVE  ReportedIsCompleted'
    BY <2>7, <2>8 DEF Start, Stop, BatchDone, Exit, Crash, queueVars
  <2>9. ASSUME NEW w \in Worker, NEW j \in Job, RunStep(w, j)
        PROVE  ReportedIsCompleted'
    BY <2>7, <2>9
    DEF RunStep, Heartbeat, SetCheckpoint, SaveCheckpoint, AdvanceResearch, Return,
        Throw, queueVars
  <2>10. ASSUME NEW c \in calls, TransportError(c)
         PROVE  ReportedIsCompleted'
    BY <2>7, <2>10 DEF TransportError, queueVars
  <2>11. CASE UNCHANGED vars
    BY <2>7, <2>11 DEF vars
  <2>12. QED
    BY <2>3, <2>4, <2>5, <2>6, <2>8, <2>9, <2>10, <2>11 DEF Next, LoopStep
<1>3. QED
  BY <1>1, <1>2, TypeCorrect, PTL DEF Spec

-----------------------------------------------------------------------------
(***************************************************************************)
(* Refinement: each step of the queue is a step of JobLifecycle or leaves  *)
(* status and attempts alone.                                              *)
(***************************************************************************)

\* A step that leaves status and attempts of every row alone is a stutter.
LEMMA Stutter ==
    ASSUME \A j \in Job : /\ jobs'[j].status = jobs[j].status
                          /\ jobs'[j].attempts = jobs[j].attempts
    PROVE  UNCHANGED Lifecycle!vars
BY DEF Lifecycle!vars

\* The durable queue implements what JobLifecycle promises.
THEOREM Refinement == Spec => ImplementsLifecycle
<1>1. Init => Lifecycle!Init
  BY DEF Init, Lifecycle!Init, NoRow
<1>2. TypeOK /\ [Next]_vars => [Lifecycle!Next]_(Lifecycle!vars)
  <2> SUFFICES ASSUME TypeOK, [Next]_vars
               PROVE  Lifecycle!Next \/ UNCHANGED Lifecycle!vars
    OBVIOUS
  <2> USE QueueAssumption
  <2>1. ASSUME NEW j \in Job, Enqueue(j)
        PROVE  Lifecycle!Next
    <3>1. PICK a \in BOOLEAN :
            jobs' = [jobs EXCEPT ![j] = [@ EXCEPT !.status = "queued", !.available = a]]
      BY <2>1 DEF Enqueue
    <3>2. \A k \in Job :
            /\ jobs'[k].status = IF k = j THEN "queued" ELSE jobs[k].status
            /\ jobs'[k].attempts = jobs[k].attempts
      BY <3>1 DEF TypeOK, Row
    <3>3. Lifecycle!Add(j)
      BY <2>1, <3>2 DEF Lifecycle!Add, Enqueue
    <3>4. QED
      BY <3>3 DEF Lifecycle!Next
  <2>2. ASSUME NEW j \in Job, BecomeAvailable(j) \/ LeaseExpires(j)
        PROVE  UNCHANGED Lifecycle!vars
    <3>1. \A k \in Job : /\ jobs'[k].status = jobs[k].status
                         /\ jobs'[k].attempts = jobs[k].attempts
      <4>1. CASE BecomeAvailable(j)
        BY <4>1 DEF BecomeAvailable, TypeOK, Row
      <4>2. CASE LeaseExpires(j)
        BY <4>2 DEF LeaseExpires, TypeOK, Row
      <4>3. QED
        BY <2>2, <4>1, <4>2
    <3>2. QED
      BY <3>1, Stutter
  <2>3. ASSUME NEW w \in Worker, Terminalize(w)
        PROVE  Lifecycle!Next
    <3>1. PICK dead \in SUBSET Job : dead = {j \in Job : Exhausted(j)}
      OBVIOUS
    <3>2. \A j \in Job :
            /\ jobs'[j].status = IF j \in dead THEN "failed" ELSE jobs[j].status
            /\ jobs'[j].attempts = jobs[j].attempts
      BY <2>3, <3>1 DEF Terminalize, Released, TypeOK, Row
    <3>3. ASSUME NEW j \in dead
          PROVE  jobs[j].status = "running" /\ jobs[j].attempts = MaxAttempts
      <4>1. j \in Job /\ Exhausted(j)
        BY <3>1
      <4>2. jobs[j].attempts \in 0..MaxAttempts
        BY <4>1 DEF TypeOK, Row, Epoch
      <4>3. QED
        BY <4>1, <4>2 DEF Exhausted
    <3>4. Lifecycle!GiveUp(dead)
      BY <3>2, <3>3 DEF Lifecycle!GiveUp
    <3>5. QED
      BY <3>4 DEF Lifecycle!Next
  <2>4. ASSUME NEW w \in Worker, Claim(w)
        PROVE  Lifecycle!Next
    <3>1. PICK S \in Batches :
            jobs' = [j \in Job |-> IF j \in S THEN Taken(jobs[j], w) ELSE jobs[j]]
      BY <2>4 DEF Claim
    <3>2. S \subseteq Job /\ \A j \in S : Eligible(j)
      BY DEF Batches
    <3>3. \A j \in Job :
            /\ jobs'[j].status = IF j \in S THEN "running" ELSE jobs[j].status
            /\ jobs'[j].attempts = IF j \in S THEN jobs[j].attempts + 1
                                              ELSE jobs[j].attempts
      BY <3>1, <3>2, TakenRow
    <3>4. Lifecycle!Take(S)
      BY <3>2, <3>3 DEF Lifecycle!Take, Eligible
    <3>5. QED
      BY <3>2, <3>4 DEF Lifecycle!Next
  <2>5. ASSUME NEW c \in calls, Deliver(c)
        PROVE  Lifecycle!Next \/ UNCHANGED Lifecycle!vars
    <3>1. c \in Call /\ c.job \in Job /\ c.op \in Op
      BY DEF TypeOK, Call
    <3>2. CASE ~Held(c)
      BY <2>5, <3>2, Stutter DEF Deliver
    <3>3. CASE Held(c)
      <4> DEFINE new == Written(jobs[c.job], c)
      <4>1. jobs' = [jobs EXCEPT ![c.job] = new]
        BY <2>5, <3>3 DEF Deliver
      <4>2. /\ jobs[c.job].status = "running"
            /\ new.attempts = jobs[c.job].attempts
            /\ new.status = CASE c.op \in {"heartbeat", "checkpoint"} -> "running"
                              [] c.op = "complete" -> "completed"
                              [] c.op = "fail" -> IF jobs[c.job].attempts >= MaxAttempts
                                                  THEN "failed" ELSE "queued"
        BY <3>1, <3>3, WrittenRow DEF Held
      <4> HIDE DEF new
      <4>3. \A j \in Job :
              /\ jobs'[j].status = IF j = c.job THEN new.status ELSE jobs[j].status
              /\ jobs'[j].attempts = jobs[j].attempts
        BY <4>1, <4>2 DEF TypeOK
      <4>4. jobs[c.job].attempts \in 0..MaxAttempts
        BY <3>1 DEF TypeOK, Row, Epoch
      <4>5. CASE c.op \in {"heartbeat", "checkpoint"}
        BY <4>2, <4>3, <4>5, Stutter
      <4>6. CASE c.op = "complete"
        <5>1. Lifecycle!Finish(c.job)
          BY <3>1, <4>2, <4>3, <4>6 DEF Lifecycle!Finish
        <5>2. QED
          BY <3>1, <5>1 DEF Lifecycle!Next
      <4>7. CASE c.op = "fail" /\ jobs[c.job].attempts < MaxAttempts
        <5>1. new.status = "queued"
          BY <4>2, <4>4, <4>7
        <5>2. Lifecycle!PutBack(c.job)
          BY <3>1, <4>2, <4>3, <4>7, <5>1 DEF Lifecycle!PutBack
        <5>3. QED
          BY <3>1, <5>2 DEF Lifecycle!Next
      <4>8. CASE c.op = "fail" /\ jobs[c.job].attempts = MaxAttempts
        <5>1. new.status = "failed"
          BY <4>2, <4>8
        <5>2. Lifecycle!GiveUp({c.job})
          BY <3>1, <4>2, <4>3, <4>8, <5>1 DEF Lifecycle!GiveUp
        <5>3. QED
          BY <3>1, <5>2 DEF Lifecycle!Next
      <4>9. QED
        BY <3>1, <4>4, <4>5, <4>6, <4>7, <4>8 DEF Op
    <3>4. QED
      BY <3>2, <3>3
  <2>6. ASSUME UNCHANGED jobs
        PROVE  UNCHANGED Lifecycle!vars
    BY <2>6, Stutter
  <2>7. ASSUME NEW w \in Worker,
               Start(w) \/ Stop(w) \/ BatchDone(w) \/ Exit(w) \/ Crash(w)
        PROVE  UNCHANGED jobs
    BY <2>7 DEF Start, Stop, BatchDone, Exit, Crash, queueVars
  <2>8. ASSUME NEW w \in Worker, NEW j \in Job, RunStep(w, j)
        PROVE  UNCHANGED jobs
    BY <2>8 DEF RunStep, Heartbeat, SetCheckpoint, SaveCheckpoint, AdvanceResearch,
                Return, Throw, queueVars
  <2>9. ASSUME NEW c \in calls, TransportError(c)
        PROVE  UNCHANGED jobs
    BY <2>9 DEF TransportError, queueVars
  <2>10. CASE UNCHANGED vars
    BY <2>6, <2>10 DEF vars
  <2>11. QED
    BY <2>1, <2>2, <2>3, <2>4, <2>5, <2>6, <2>7, <2>8, <2>9, <2>10 DEF Next, LoopStep
<1>3. QED
  BY <1>1, <1>2, TypeCorrect, PTL DEF Spec, ImplementsLifecycle, Lifecycle!Spec

-----------------------------------------------------------------------------
(***************************************************************************)
(* Epochs.  EpochsFence is inductive beside the types: the number of       *)
(* attempts never falls, only a claim starts a run, and it gives the run a *)
(* number no earlier run of the job can have.                              *)
(***************************************************************************)

\* What a step may do to one run: nothing, end it, or move it on with its epoch.
Continues(w, j) ==
    runs'[w][j].pc # "idle" => /\ runs[w][j].pc # "idle"
                               /\ runs'[w][j].epoch = runs[w][j].epoch

\* What a step may do to one row without disturbing the fence.
KeepsFence(j) == /\ jobs'[j].attempts = jobs[j].attempts
                 /\ jobs'[j].status = "running" =>
                      /\ jobs[j].status = "running"
                      /\ jobs'[j].leasedBy = jobs[j].leasedBy

\* A step that only lets runs go on or end, and takes no row from its owner,
\* keeps the fence.
LEMMA FenceKept ==
    ASSUME EpochsFence,
           \A w \in Worker, j \in Job : Continues(w, j),
           \A j \in Job : KeepsFence(j)
    PROVE  EpochsFence'
BY DEF EpochsFence, Continues, KeepsFence, Active

\* Replacing one run by its continuation continues all runs.
LEMMA OneContinues ==
    ASSUME TypeOK, NEW w \in Worker, NEW j \in Job, NEW r,
           runs' = [runs EXCEPT ![w][j] = r],
           r.pc # "idle" => runs[w][j].pc # "idle" /\ r.epoch = runs[w][j].epoch
    PROVE  \A v \in Worker, k \in Job : Continues(v, k)
<1> SUFFICES ASSUME NEW v \in Worker, NEW k \in Job PROVE Continues(v, k)
  OBVIOUS
<1>1. runs'[v][k] = IF v = w /\ k = j THEN r ELSE runs[v][k]
  BY DEF TypeOK
<1>2. QED
  BY <1>1 DEF Continues

\* Moving one active run on to another point of runJob continues all runs.
LEMMA PcContinues ==
    ASSUME TypeOK, NEW w \in Worker, NEW j \in Job, NEW pc \in RunPc,
           runs[w][j].pc # "idle",
           runs' = [runs EXCEPT ![w][j].pc = pc]
    PROVE  \A v \in Worker, k \in Job : Continues(v, k)
<1> SUFFICES ASSUME NEW v \in Worker, NEW k \in Job PROVE Continues(v, k)
  OBVIOUS
<1>1. runs[v][k] \in Run
  BY DEF TypeOK
<1>2. runs'[v][k] = IF v = w /\ k = j THEN [runs[v][k] EXCEPT !.pc = pc] ELSE runs[v][k]
  BY DEF TypeOK
<1>3. QED
  BY <1>1, <1>2 DEF Continues, Run

\* A run that ends or goes on to another call continues all runs.
LEMMA EndsWithContinues ==
    ASSUME TypeOK, NEW w \in Worker, NEW j \in Job, NEW op, NEW pc \in RunPc, NEW cs,
           runs[w][j].pc # "idle", EndsWith(w, j, op, pc, cs)
    PROVE  \A v \in Worker, k \in Job : Continues(v, k)
<1>1. CASE runs[w][j].hbFailed
  <2>1. runs' = [runs EXCEPT ![w][j] = NoRun]
    BY <1>1 DEF EndsWith
  <2>2. NoRun.pc = "idle"
    BY DEF NoRun
  <2>3. QED
    BY <2>1, <2>2, OneContinues
<1>2. CASE ~runs[w][j].hbFailed
  <2>1. runs' = [runs EXCEPT ![w][j].pc = pc]
    BY <1>2 DEF EndsWith
  <2>2. QED
    BY <2>1, PcContinues
<1>3. QED
  BY <1>1, <1>2

\* No two invocations of runJob for a job ever share an epoch.
THEOREM Fencing == Spec => []EpochsFence
<1>1. Init => EpochsFence
  BY DEF Init, EpochsFence, Active, NoRun
<1>2. TypeOK /\ EpochsFence /\ [Next]_vars => EpochsFence'
  <2> SUFFICES ASSUME TypeOK, EpochsFence, [Next]_vars PROVE EpochsFence'
    OBVIOUS
  <2>1. UNCHANGED runs => \A w \in Worker, j \in Job : Continues(w, j)
    BY DEF Continues
  <2>2. UNCHANGED jobs => \A j \in Job : KeepsFence(j)
    BY DEF KeepsFence
  <2>3. ASSUME NEW j \in Job, Enqueue(j) \/ BecomeAvailable(j) \/ LeaseExpires(j)
        PROVE  EpochsFence'
    <3>1. UNCHANGED runs
      BY <2>3 DEF Enqueue, BecomeAvailable, LeaseExpires, workerVars
    <3>2. \A k \in Job : KeepsFence(k)
      <4>1. CASE Enqueue(j)
        BY <4>1 DEF Enqueue, KeepsFence, TypeOK, Row
      <4>2. CASE BecomeAvailable(j)
        BY <4>2 DEF BecomeAvailable, KeepsFence, TypeOK, Row
      <4>3. CASE LeaseExpires(j)
        BY <4>3 DEF LeaseExpires, KeepsFence, TypeOK, Row
      <4>4. QED
        BY <2>3, <4>1, <4>2, <4>3
    <3>3. QED
      BY <2>1, <3>1, <3>2, FenceKept
  <2>4. ASSUME NEW w \in Worker, Terminalize(w)
        PROVE  EpochsFence'
    <3>1. UNCHANGED runs
      BY <2>4 DEF Terminalize
    <3>2. \A k \in Job : KeepsFence(k)
      BY <2>4 DEF Terminalize, KeepsFence, Released, TypeOK, Row
    <3>3. QED
      BY <2>1, <3>1, <3>2, FenceKept
  <2>5. ASSUME NEW w \in Worker, Claim(w)
        PROVE  EpochsFence'
    <3>1. PICK S \in Batches :
            /\ jobs' = [j \in Job |-> IF j \in S THEN Taken(jobs[j], w) ELSE jobs[j]]
            /\ runs' = [runs EXCEPT ![w] = [j \in Job |->
                          IF j \in S
                          THEN [pc |-> "handling", epoch |-> jobs'[j].attempts,
                                checkpoint |-> jobs[j].checkpoint, hbFailed |-> FALSE]
                          ELSE runs[w][j]]]
      BY <2>5 DEF Claim
    <3>2. \A j \in S : j \in Job /\ Eligible(j)
      BY <3>1 DEF Batches
    <3>3. \A j \in S : /\ jobs'[j].attempts = jobs[j].attempts + 1
                       /\ jobs'[j].leasedBy = w
                       /\ runs'[w][j].epoch = jobs[j].attempts + 1
      BY <3>1, <3>2, TakenRow DEF TypeOK
    <3>4. \A v \in Worker, j \in Job :
            v # w \/ j \notin S => runs'[v][j] = runs[v][j]
      BY <3>1 DEF TypeOK
    <3>5. \A j \in Job : j \notin S => jobs'[j] = jobs[j]
      BY <3>1
    <3>6. \A j \in Job : jobs[j].attempts \in Nat
      BY QueueAssumption DEF TypeOK, Row, Epoch
    <3> SUFFICES ASSUME NEW v \in Worker, NEW u \in Worker, NEW j \in Job,
                        Active(u, j)'
                 PROVE  /\ runs'[u][j].epoch \in 1..jobs'[j].attempts
                        /\ Active(v, j)' /\ runs'[v][j].epoch = runs'[u][j].epoch => v = u
                        /\ runs'[u][j].epoch = jobs'[j].attempts /\ jobs'[j].status = "running"
                             => jobs'[j].leasedBy = u
      BY DEF EpochsFence
    <3>7. CASE j \notin S
      BY <3>4, <3>5, <3>7 DEF EpochsFence, Active
    <3>8. CASE j \in S
      <4>1. \A x \in Worker : x # w /\ Active(x, j)' =>
              runs'[x][j].epoch \in 1..jobs[j].attempts
        BY <3>4 DEF EpochsFence, Active
      <4>2. \A x, y \in Worker :
              /\ x # w /\ y # w /\ Active(x, j)' /\ Active(y, j)'
              /\ runs'[x][j].epoch = runs'[y][j].epoch
              => x = y
        BY <3>4 DEF EpochsFence, Active
      <4>3. QED
        BY <3>3, <3>6, <3>8, <4>1, <4>2
    <3>9. QED
      BY <3>7, <3>8
  <2>6. ASSUME NEW w \in Worker, Start(w) \/ Stop(w) \/ BatchDone(w) \/ Exit(w)
        PROVE  EpochsFence'
    BY <2>1, <2>2, <2>6, FenceKept DEF Start, Stop, BatchDone, Exit, queueVars
  <2>7. ASSUME NEW w \in Worker, Crash(w)
        PROVE  EpochsFence'
    <3>1. \A v \in Worker, j \in Job : Continues(v, j)
      BY <2>7 DEF Crash, Continues, NoRun, TypeOK
    <3>2. QED
      BY <2>2, <2>7, <3>1, FenceKept DEF Crash, queueVars
  <2>8. ASSUME NEW w \in Worker, NEW j \in Job, RunStep(w, j)
        PROVE  EpochsFence'
    <3>1. UNCHANGED jobs
      BY <2>8 DEF RunStep, Heartbeat, SetCheckpoint, SaveCheckpoint, AdvanceResearch,
                  Return, Throw, queueVars
    <3>2. \A v \in Worker, k \in Job : Continues(v, k)
      <4>1. CASE Heartbeat(w, j) \/ AdvanceResearch(w, j)
        BY <2>1, <4>1 DEF Heartbeat, AdvanceResearch, workerVars
      <4>2. CASE SetCheckpoint(w, j)
        <5>1. runs[w][j] \in Run
          BY DEF TypeOK
        <5>2. \A v \in Worker, k \in Job :
                runs'[v][k] = IF v = w /\ k = j
                              THEN [runs[w][j] EXCEPT !.checkpoint = runs[w][j].epoch]
                              ELSE runs[v][k]
          BY <4>2 DEF SetCheckpoint, TypeOK
        <5>3. QED
          BY <5>1, <5>2 DEF Continues, Run
      <4>3. CASE SaveCheckpoint(w, j)
        <5>1. runs[w][j].pc # "idle" /\ runs' = [runs EXCEPT ![w][j].pc = "saving"]
          BY <4>3 DEF SaveCheckpoint
        <5>2. QED
          BY <5>1, PcContinues DEF RunPc
      <4>4. CASE Return(w, j)
        <5>1. runs[w][j].pc # "idle" /\ EndsWith(w, j, "complete", "completing", calls)
          BY <4>4 DEF Return
        <5>2. QED
          BY <5>1, EndsWithContinues DEF RunPc
      <4>5. CASE Throw(w, j)
        <5>1. runs[w][j].pc # "idle" /\ EndsWith(w, j, "fail", "failing", calls)
          BY <4>5 DEF Throw
        <5>2. QED
          BY <5>1, EndsWithContinues DEF RunPc
      <4>6. QED
        BY <2>8, <4>1, <4>2, <4>3, <4>4, <4>5 DEF RunStep
    <3>3. QED
      BY <2>2, <3>1, <3>2, FenceKept
  <2>9. ASSUME NEW c \in calls, Deliver(c)
        PROVE  EpochsFence'
    <3>1. c \in Call /\ c.job \in Job /\ c.owner \in Worker
      BY DEF TypeOK, Call
    <3>2. \A j \in Job : KeepsFence(j)
      <4>1. CASE ~Held(c)
        BY <2>2, <2>9, <4>1 DEF Deliver
      <4>2. CASE Held(c)
        <5>1. /\ jobs[c.job].status = "running"
              /\ Written(jobs[c.job], c).attempts = jobs[c.job].attempts
              /\ Written(jobs[c.job], c).status = "running" =>
                   Written(jobs[c.job], c).leasedBy = jobs[c.job].leasedBy
          BY <3>1, <4>2, WrittenRow DEF Held
        <5>2. \A j \in Job : jobs'[j] = IF j = c.job THEN Written(jobs[c.job], c)
                                                     ELSE jobs[j]
          BY <2>9, <4>2 DEF Deliver, TypeOK
        <5>3. QED
          BY <5>1, <5>2 DEF KeepsFence
      <4>3. QED
        BY <4>1, <4>2
    <3>3. \A v \in Worker, k \in Job : Continues(v, k)
      <4>1. CASE ~Awaited(c)
        BY <2>1, <2>9, <4>1 DEF Deliver
      <4>2. CASE Awaited(c)
        <5> DEFINE r == runs[c.owner][c.job]
                   a == Answered(r, c)
        <5>1. runs' = [runs EXCEPT ![c.owner][c.job] = a]
          BY <2>9, <4>2 DEF Deliver
        <5>2. r \in Run /\ r.pc # "idle"
          BY <3>1, <4>2 DEF Awaited, TypeOK
        <5>3. a.pc # "idle" => a.epoch = r.epoch
          BY <5>2 DEF Answered, Run, NoRun
        <5> HIDE DEF a
        <5>4. QED
          BY <3>1, <5>1, <5>2, <5>3, OneContinues
      <4>3. QED
        BY <4>1, <4>2
    <3>4. QED
      BY <3>2, <3>3, FenceKept
  <2>10. ASSUME NEW c \in calls, TransportError(c)
         PROVE  EpochsFence'
    <3>1. c \in Call /\ c.job \in Job /\ c.owner \in Worker /\ c.op \in Op
      BY DEF TypeOK, Call
    <3>2. runs[c.owner][c.job].pc # "idle" /\ runs[c.owner][c.job] \in Run
      BY <2>10, <3>1 DEF TransportError, Awaited, TypeOK
    <3>3. \A v \in Worker, k \in Job : Continues(v, k)
      <4>1. CASE c.op = "heartbeat"
        <5>1. runs' = [runs EXCEPT ![c.owner][c.job].hbFailed = TRUE]
          BY <2>10, <4>1 DEF TransportError
        <5>2. \A v \in Worker, k \in Job :
                runs'[v][k] = IF v = c.owner /\ k = c.job
                              THEN [runs[c.owner][c.job] EXCEPT !.hbFailed = TRUE]
                              ELSE runs[v][k]
          BY <3>1, <5>1 DEF TypeOK
        <5>3. QED
          BY <3>2, <5>2 DEF Continues, Run
      <4>2. CASE c.op = "checkpoint"
        <5>1. runs' = [runs EXCEPT ![c.owner][c.job].pc = "handling"]
          BY <2>10, <4>2 DEF TransportError
        <5>2. QED
          BY <3>1, <3>2, <5>1, PcContinues DEF RunPc
      <4>3. CASE c.op = "complete"
        <5>1. \E rest : EndsWith(c.owner, c.job, "fail", "failing", rest)
          BY <2>10, <4>3 DEF TransportError
        <5>2. QED
          BY <3>1, <3>2, <5>1, EndsWithContinues DEF RunPc
      <4>4. CASE c.op = "fail"
        <5>1. runs' = [runs EXCEPT ![c.owner][c.job] = NoRun]
          BY <2>10, <4>4 DEF TransportError
        <5>2. NoRun.pc = "idle"
          BY DEF NoRun
        <5>3. QED
          BY <3>1, <5>1, <5>2, OneContinues
      <4>5. QED
        BY <3>1, <4>1, <4>2, <4>3, <4>4 DEF Op
    <3>4. QED
      BY <2>2, <2>10, <3>3, FenceKept DEF TransportError, queueVars
  <2>11. CASE UNCHANGED vars
    BY <2>1, <2>2, <2>11, FenceKept DEF vars
  <2>12. QED
    BY <2>3, <2>4, <2>5, <2>6, <2>7, <2>8, <2>9, <2>10, <2>11 DEF Next, LoopStep
<1>3. QED
  BY <1>1, <1>2, TypeCorrect, PTL DEF Spec

-----------------------------------------------------------------------------
(***************************************************************************)
(* Checkpoints.  What the attempt that holds a job knows of its checkpoint *)
(* is what it found or its own, and so is what its calls carry; the calls  *)
(* of earlier attempts have an earlier epoch, and pass no fence.           *)
(***************************************************************************)

\* The checkpoint cp of attempt e fits job j: if e holds the job, either is its
\* own work, or both are what it found.
Fits(e, cp, j) ==
    e = jobs[j].attempts /\ jobs[j].status = "running" =>
      e \in {cp, jobs[j].checkpoint} \/ cp = jobs[j].checkpoint

CheckpointInv ==
    /\ \A w \in Worker, j \in Job :
         Active(w, j) => Fits(runs[w][j].epoch, runs[w][j].checkpoint, j)
    /\ \A c \in calls :
         /\ c.epoch <= jobs[c.job].attempts
         /\ c.op = "checkpoint" => c.checkpoint = c.epoch
         /\ c.op # "heartbeat" => Fits(c.epoch, c.checkpoint, c.job)

\* What a step may do to one row: it is not handed out, and its checkpoint only
\* becomes that of the attempt it counts.
KeepsCheckpoint(j) ==
    /\ jobs'[j].attempts = jobs[j].attempts
    /\ jobs'[j].status = "running" =>
         /\ jobs[j].status = "running"
         /\ jobs'[j].checkpoint \in {jobs[j].checkpoint, jobs[j].attempts}

\* What it may do to one run: the checkpoint only becomes the run's own.
GoesOn(w, j) ==
    runs'[w][j].pc # "idle" =>
      /\ runs[w][j].pc # "idle"
      /\ runs'[w][j].epoch = runs[w][j].epoch
      /\ runs'[w][j].checkpoint \in {runs[w][j].checkpoint, runs[w][j].epoch}

\* What the run of w for j may call.
MadeBy(c, w, j) ==
    /\ Active(w, j)
    /\ c.job = j /\ c.epoch = runs[w][j].epoch
    /\ c.op = "checkpoint" => c.checkpoint = c.epoch
    /\ c.op # "heartbeat" => c.checkpoint \in {runs[w][j].checkpoint, c.epoch}

LEMMA CheckpointsKept ==
    ASSUME TypeOK, EpochsFence, CheckpointInv,
           \A j \in Job : KeepsCheckpoint(j),
           \A w \in Worker, j \in Job : GoesOn(w, j),
           \A c \in calls' : c \in calls \/ \E w \in Worker, j \in Job : MadeBy(c, w, j)
    PROVE  CheckpointInv'
<1>1. ASSUME NEW w \in Worker, NEW j \in Job, Active(w, j)'
      PROVE  Fits(runs[w][j].epoch, runs[w][j].checkpoint, j)'
  <2>1. /\ Fits(runs[w][j].epoch, runs[w][j].checkpoint, j) /\ KeepsCheckpoint(j)
        /\ runs'[w][j].epoch = runs[w][j].epoch
        /\ runs'[w][j].checkpoint \in {runs[w][j].checkpoint, runs[w][j].epoch}
    BY <1>1 DEF Active, GoesOn, CheckpointInv
  <2>2. QED
    BY <2>1 DEF Fits, KeepsCheckpoint
<1>2. ASSUME NEW c \in calls'
      PROVE  /\ c.epoch <= jobs'[c.job].attempts
             /\ c.op = "checkpoint" => c.checkpoint = c.epoch
             /\ c.op # "heartbeat" => Fits(c.epoch, c.checkpoint, c.job)'
  <2>1. CASE c \in calls
    <3>1. c.job \in Job
      BY <2>1 DEF TypeOK, Call
    <3>2. KeepsCheckpoint(c.job)
      BY <3>1
    <3>3. QED
      BY <2>1, <3>2 DEF CheckpointInv, Fits, KeepsCheckpoint
  <2>2. ASSUME NEW w \in Worker, NEW j \in Job, MadeBy(c, w, j)
        PROVE  /\ c.epoch <= jobs'[c.job].attempts
               /\ c.op = "checkpoint" => c.checkpoint = c.epoch
               /\ c.op # "heartbeat" => Fits(c.epoch, c.checkpoint, c.job)'
    <3>1. /\ Fits(runs[w][j].epoch, runs[w][j].checkpoint, j) /\ KeepsCheckpoint(j)
          /\ runs[w][j].epoch \in 1..jobs[j].attempts
      BY <2>2 DEF MadeBy, CheckpointInv, EpochsFence
    <3>2. c.epoch <= jobs'[c.job].attempts
      BY <2>2, <3>1 DEF MadeBy, KeepsCheckpoint
    <3>3. QED
      BY <2>2, <3>1, <3>2 DEF MadeBy, Fits, KeepsCheckpoint
  <2>3. QED
    BY <2>1, <2>2
<1>3. QED
  BY <1>1, <1>2 DEF CheckpointInv

\* Replacing one run lets all runs go on.
LEMMA OneGoesOn ==
    ASSUME TypeOK, NEW w \in Worker, NEW j \in Job, NEW r,
           runs' = [runs EXCEPT ![w][j] = r],
           r.pc # "idle" => /\ runs[w][j].pc # "idle"
                            /\ r.epoch = runs[w][j].epoch
                            /\ r.checkpoint \in {runs[w][j].checkpoint, runs[w][j].epoch}
    PROVE  \A v \in Worker, k \in Job : GoesOn(v, k)
<1> SUFFICES ASSUME NEW v \in Worker, NEW k \in Job PROVE GoesOn(v, k)
  OBVIOUS
<1>1. runs'[v][k] = IF v = w /\ k = j THEN r ELSE runs[v][k]
  BY DEF TypeOK
<1>2. QED
  BY <1>1 DEF GoesOn

\* So does moving one of them on.
LEMMA PcGoesOn ==
    ASSUME TypeOK, NEW w \in Worker, NEW j \in Job, NEW pc \in RunPc,
           runs[w][j].pc # "idle",
           runs' = [runs EXCEPT ![w][j].pc = pc]
    PROVE  \A v \in Worker, k \in Job : GoesOn(v, k)
<1> SUFFICES ASSUME NEW v \in Worker, NEW k \in Job PROVE GoesOn(v, k)
  OBVIOUS
<1>1. runs[v][k] \in Run
  BY DEF TypeOK
<1>2. runs'[v][k] = IF v = w /\ k = j THEN [runs[v][k] EXCEPT !.pc = pc] ELSE runs[v][k]
  BY DEF TypeOK
<1>3. QED
  BY <1>1, <1>2 DEF GoesOn, Run

\* The calls of a run carry what it knows.
LEMMA CallMade ==
    ASSUME NEW w \in Worker, NEW j \in Job, Active(w, j), NEW op, NEW cp,
           op = "checkpoint" => cp = runs[w][j].epoch,
           op # "heartbeat" => cp \in {runs[w][j].checkpoint, runs[w][j].epoch}
    PROVE  MadeBy(CallOf(w, j, op, cp), w, j)
BY DEF MadeBy, CallOf

\* A run that ends, or goes on to its last call.
LEMMA EndsWithGoesOn ==
    ASSUME TypeOK, NEW w \in Worker, NEW j \in Job, NEW op \in {"complete", "fail"},
           NEW pc \in RunPc, NEW cs \in SUBSET calls,
           runs[w][j].pc # "idle", EndsWith(w, j, op, pc, cs)
    PROVE  /\ \A v \in Worker, k \in Job : GoesOn(v, k)
           /\ \A c \in calls' : c \in calls \/ MadeBy(c, w, j)
<1>1. CASE runs[w][j].hbFailed
  <2>1. runs' = [runs EXCEPT ![w][j] = NoRun] /\ calls' = cs
    BY <1>1 DEF EndsWith
  <2>2. NoRun.pc = "idle"
    BY DEF NoRun
  <2>3. QED
    BY <2>1, <2>2, OneGoesOn
<1>2. CASE ~runs[w][j].hbFailed
  <2>1. /\ runs' = [runs EXCEPT ![w][j].pc = pc]
        /\ calls' = cs \cup {CallOf(w, j, op, runs[w][j].checkpoint)}
    BY <1>2 DEF EndsWith
  <2>2. MadeBy(CallOf(w, j, op, runs[w][j].checkpoint), w, j)
    BY CallMade DEF Active
  <2>3. QED
    BY <2>1, <2>2, PcGoesOn
<1>3. QED
  BY <1>1, <1>2

LEMMA CheckpointStep ==
    ASSUME TypeOK, EpochsFence, CheckpointInv, [Next]_vars
    PROVE  CheckpointInv'
<1> USE QueueAssumption
<1>1. UNCHANGED runs => \A w \in Worker, j \in Job : GoesOn(w, j)
  BY DEF GoesOn
<1>2. UNCHANGED jobs => \A j \in Job : KeepsCheckpoint(j)
  BY DEF KeepsCheckpoint
<1>3. ASSUME NEW j \in Job, Enqueue(j) \/ BecomeAvailable(j) \/ LeaseExpires(j)
      PROVE  CheckpointInv'
  <2>1. UNCHANGED runs /\ UNCHANGED calls
    BY <1>3 DEF Enqueue, BecomeAvailable, LeaseExpires, workerVars
  <2>2. \A k \in Job : KeepsCheckpoint(k)
    <3>1. CASE Enqueue(j)
      BY <3>1 DEF Enqueue, KeepsCheckpoint, TypeOK, Row
    <3>2. CASE BecomeAvailable(j)
      BY <3>2 DEF BecomeAvailable, KeepsCheckpoint, TypeOK, Row
    <3>3. CASE LeaseExpires(j)
      BY <3>3 DEF LeaseExpires, KeepsCheckpoint, TypeOK, Row
    <3>4. QED
      BY <1>3, <3>1, <3>2, <3>3
  <2>3. QED
    BY <1>1, <2>1, <2>2, CheckpointsKept
<1>4. ASSUME NEW w \in Worker, Terminalize(w)
      PROVE  CheckpointInv'
  <2>1. UNCHANGED runs /\ UNCHANGED calls
    BY <1>4 DEF Terminalize
  <2>2. \A k \in Job : KeepsCheckpoint(k)
    BY <1>4 DEF Terminalize, KeepsCheckpoint, Released, TypeOK, Row
  <2>3. QED
    BY <1>1, <2>1, <2>2, CheckpointsKept
<1>5. ASSUME NEW w \in Worker, Claim(w)
      PROVE  CheckpointInv'
  <2>1. PICK S \in Batches :
          /\ jobs' = [j \in Job |-> IF j \in S THEN Taken(jobs[j], w) ELSE jobs[j]]
          /\ runs' = [runs EXCEPT ![w] = [j \in Job |->
                        IF j \in S
                        THEN [pc |-> "handling", epoch |-> jobs'[j].attempts,
                              checkpoint |-> jobs[j].checkpoint, hbFailed |-> FALSE]
                        ELSE runs[w][j]]]
    BY <1>5 DEF Claim
  <2>2. calls' = calls
    BY <1>5 DEF Claim
  <2>3. \A j \in S : j \in Job /\ Eligible(j)
    BY <2>1 DEF Batches
  <2>4. ASSUME NEW j \in S
        PROVE  /\ jobs'[j].attempts = jobs[j].attempts + 1
               /\ jobs'[j].checkpoint = jobs[j].checkpoint
               /\ runs'[w][j].checkpoint = jobs[j].checkpoint
    <3>1. /\ jobs'[j] = Taken(jobs[j], w) /\ jobs[j] \in Row
          /\ runs'[w][j].checkpoint = jobs[j].checkpoint
      BY <2>1, <2>3 DEF TypeOK
    <3>2. jobs'[j].attempts = jobs[j].attempts + 1
      BY <2>3, <3>1, TakenRow
    <3>3. QED
      BY <3>1, <3>2 DEF Taken, Row
  <2>5. \A v \in Worker, j \in Job : v # w \/ j \notin S => runs'[v][j] = runs[v][j]
    BY <2>1 DEF TypeOK
  <2>6. \A j \in Job : j \notin S => jobs'[j] = jobs[j]
    BY <2>1
  <2>7. \A j \in Job : jobs[j].attempts \in Nat
    BY DEF TypeOK, Row, Epoch
  <2>8. ASSUME NEW v \in Worker, NEW j \in Job, Active(v, j)'
        PROVE  Fits(runs[v][j].epoch, runs[v][j].checkpoint, j)'
    <3>1. CASE j \notin S
      BY <2>5, <2>6, <2>8, <3>1 DEF CheckpointInv, Active, Fits
    <3>2. CASE j \in S /\ v = w
      BY <2>4, <3>2 DEF Fits
    <3>3. CASE j \in S /\ v # w
      <4>1. runs'[v][j].epoch \in 1..jobs[j].attempts
        BY <2>5, <2>8, <3>3 DEF EpochsFence, Active
      <4>2. QED
        BY <2>4, <2>7, <3>3, <4>1 DEF Fits
    <3>4. QED
      BY <3>1, <3>2, <3>3
  <2>9. ASSUME NEW c \in calls
        PROVE  /\ c.epoch <= jobs'[c.job].attempts
               /\ c.op = "checkpoint" => c.checkpoint = c.epoch
               /\ c.op # "heartbeat" => Fits(c.epoch, c.checkpoint, c.job)'
    <3>1. c.job \in Job /\ c.epoch \in Nat
      BY DEF TypeOK, Call, Epoch
    <3>2. CASE c.job \notin S
      BY <2>6, <3>1, <3>2 DEF CheckpointInv, Fits
    <3>3. CASE c.job \in S
      <4>1. c.epoch <= jobs[c.job].attempts /\ jobs'[c.job].attempts = jobs[c.job].attempts + 1
        BY <2>4, <3>3 DEF CheckpointInv
      <4>2. c.epoch < jobs'[c.job].attempts
        BY <2>7, <3>1, <4>1
      <4>3. c.epoch <= jobs'[c.job].attempts /\ c.epoch # jobs'[c.job].attempts
        BY <2>7, <3>1, <4>1
      <4>4. QED
        BY <4>3 DEF CheckpointInv, Fits
    <3>4. QED
      BY <3>2, <3>3
  <2>10. QED
    BY <2>2, <2>8, <2>9 DEF CheckpointInv
<1>6. ASSUME NEW w \in Worker, Start(w) \/ Stop(w) \/ BatchDone(w) \/ Exit(w)
      PROVE  CheckpointInv'
  BY <1>1, <1>2, <1>6, CheckpointsKept DEF Start, Stop, BatchDone, Exit, queueVars
<1>7. ASSUME NEW w \in Worker, Crash(w)
      PROVE  CheckpointInv'
  <2>1. \A v \in Worker, j \in Job : GoesOn(v, j)
    BY <1>7 DEF Crash, GoesOn, NoRun, TypeOK
  <2>2. \A c \in calls' : c \in calls
    BY <1>7 DEF Crash
  <2>3. QED
    BY <1>2, <1>7, <2>1, <2>2, CheckpointsKept DEF Crash, queueVars
<1>8. ASSUME NEW w \in Worker, NEW j \in Job, RunStep(w, j)
      PROVE  CheckpointInv'
  <2>1. UNCHANGED jobs
    BY <1>8 DEF RunStep, Heartbeat, SetCheckpoint, SaveCheckpoint, AdvanceResearch,
                Return, Throw, queueVars
  <2>2. CASE Heartbeat(w, j)
    <3>1. UNCHANGED runs /\ calls' = calls \cup {CallOf(w, j, "heartbeat", 0)} /\ Active(w, j)
      BY <2>2 DEF Heartbeat, workerVars
    <3>2. MadeBy(CallOf(w, j, "heartbeat", 0), w, j)
      BY <3>1, CallMade
    <3>3. QED
      BY <1>1, <1>2, <2>1, <3>1, <3>2, CheckpointsKept
  <2>3. CASE SetCheckpoint(w, j)
    <3>1. runs[w][j] \in Run
      BY DEF TypeOK
    <3>2. \A v \in Worker, k \in Job :
            runs'[v][k] = IF v = w /\ k = j
                          THEN [runs[w][j] EXCEPT !.checkpoint = runs[w][j].epoch]
                          ELSE runs[v][k]
      BY <2>3 DEF SetCheckpoint, TypeOK
    <3>3. \A v \in Worker, k \in Job : GoesOn(v, k)
      BY <3>1, <3>2 DEF GoesOn, Run
    <3>4. UNCHANGED calls
      BY <2>3 DEF SetCheckpoint
    <3>5. QED
      BY <1>2, <2>1, <3>3, <3>4, CheckpointsKept
  <2>4. CASE SaveCheckpoint(w, j)
    <3>1. /\ Active(w, j) /\ runs' = [runs EXCEPT ![w][j].pc = "saving"]
          /\ calls' = calls \cup {CallOf(w, j, "checkpoint", runs[w][j].epoch)}
      BY <2>4 DEF SaveCheckpoint, Active
    <3>2. \A v \in Worker, k \in Job : GoesOn(v, k)
      BY <3>1, PcGoesOn DEF Active, RunPc
    <3>3. MadeBy(CallOf(w, j, "checkpoint", runs[w][j].epoch), w, j)
      BY <3>1, CallMade
    <3>4. QED
      BY <1>2, <2>1, <3>1, <3>2, <3>3, CheckpointsKept
  <2>5. CASE AdvanceResearch(w, j)
    BY <1>1, <1>2, <2>5, CheckpointsKept DEF AdvanceResearch, workerVars
  <2>6. CASE Return(w, j) \/ Throw(w, j)
    <3>1. \E op \in {"complete", "fail"}, pc \in RunPc :
            EndsWith(w, j, op, pc, calls) /\ runs[w][j].pc # "idle"
      BY <2>6 DEF Return, Throw, RunPc
    <3>2. /\ \A v \in Worker, k \in Job : GoesOn(v, k)
          /\ \A c \in calls' : c \in calls \/ MadeBy(c, w, j)
      BY <3>1, EndsWithGoesOn
    <3>3. QED
      BY <1>2, <2>1, <3>2, CheckpointsKept
  <2>7. QED
    BY <1>8, <2>2, <2>3, <2>4, <2>5, <2>6 DEF RunStep
<1>9. ASSUME NEW c \in calls, Deliver(c)
      PROVE  CheckpointInv'
  <2>1. c \in Call /\ c.job \in Job /\ c.owner \in Worker
    BY DEF TypeOK, Call
  <2>2. \A j \in Job : KeepsCheckpoint(j)
    <3>1. CASE ~Held(c)
      BY <1>2, <1>9, <3>1 DEF Deliver
    <3>2. CASE Held(c)
      <4> DEFINE new == Written(jobs[c.job], c)
      <4>1. /\ jobs[c.job].status = "running" /\ jobs[c.job].attempts = c.epoch
            /\ jobs[c.job] \in Row
        BY <2>1, <3>2 DEF Held, TypeOK
      <4>2. \A j \in Job : jobs'[j] = IF j = c.job THEN new ELSE jobs[j]
        BY <1>9, <3>2 DEF Deliver, TypeOK
      <4>3. /\ new.attempts = jobs[c.job].attempts
            /\ new.status = "running" => c.op \in {"heartbeat", "checkpoint"}
        BY <2>1, <3>2, <4>1, WrittenRow DEF Call, Op
      <4>4. c.op \in {"heartbeat", "checkpoint"} =>
              new.checkpoint \in {jobs[c.job].checkpoint, jobs[c.job].attempts}
        BY <4>1 DEF Written, Row, CheckpointInv
      <4> HIDE DEF new
      <4>5. QED
        BY <4>1, <4>2, <4>3, <4>4 DEF KeepsCheckpoint
    <3>3. QED
      BY <3>1, <3>2
  <2>3. \A v \in Worker, k \in Job : GoesOn(v, k)
    <3>1. CASE ~Awaited(c)
      BY <1>1, <1>9, <3>1 DEF Deliver
    <3>2. CASE Awaited(c)
      <4> DEFINE r == runs[c.owner][c.job]
                 a == Answered(r, c)
      <4>1. runs' = [runs EXCEPT ![c.owner][c.job] = a]
        BY <1>9, <3>2 DEF Deliver
      <4>2. r \in Run /\ r.pc # "idle" /\ r.epoch = c.epoch
        BY <2>1, <3>2 DEF Awaited, TypeOK
      <4>3. c.op = "checkpoint" => c.checkpoint = c.epoch
        BY DEF CheckpointInv
      <4>4. a.pc # "idle" => a.epoch = r.epoch /\ a.checkpoint \in {r.checkpoint, r.epoch}
        BY <4>2, <4>3 DEF Answered, Run, NoRun
      <4> HIDE DEF a
      <4>5. QED
        BY <2>1, <4>1, <4>2, <4>4, OneGoesOn
    <3>3. QED
      BY <3>1, <3>2
  <2>4. calls' \subseteq calls
    BY <1>9 DEF Deliver
  <2>5. QED
    BY <2>2, <2>3, <2>4, CheckpointsKept
<1>10. ASSUME NEW c \in calls, TransportError(c)
       PROVE  CheckpointInv'
  <2>1. c \in Call /\ c.job \in Job /\ c.owner \in Worker /\ c.op \in Op /\ UNCHANGED jobs
    BY <1>10 DEF TransportError, TypeOK, Call, queueVars
  <2>2. runs[c.owner][c.job].pc # "idle" /\ runs[c.owner][c.job] \in Run
    BY <1>10, <2>1 DEF TransportError, Awaited, TypeOK
  <2>3. /\ \A v \in Worker, k \in Job : GoesOn(v, k)
        /\ \A d \in calls' : d \in calls \/ MadeBy(d, c.owner, c.job)
    <3>1. CASE c.op = "heartbeat"
      <4>1. runs' = [runs EXCEPT ![c.owner][c.job].hbFailed = TRUE] /\ calls' \subseteq calls
        BY <1>10, <3>1 DEF TransportError
      <4>2. \A v \in Worker, k \in Job :
              runs'[v][k] = IF v = c.owner /\ k = c.job
                            THEN [runs[c.owner][c.job] EXCEPT !.hbFailed = TRUE]
                            ELSE runs[v][k]
        BY <2>1, <4>1 DEF TypeOK
      <4>3. QED
        BY <2>2, <4>1, <4>2 DEF GoesOn, Run
    <3>2. CASE c.op = "checkpoint"
      <4>1. runs' = [runs EXCEPT ![c.owner][c.job].pc = "handling"] /\ calls' \subseteq calls
        BY <1>10, <3>2 DEF TransportError
      <4>2. QED
        BY <2>1, <2>2, <4>1, PcGoesOn DEF RunPc
    <3>3. CASE c.op = "complete"
      <4>1. \E rest \in SUBSET calls : EndsWith(c.owner, c.job, "fail", "failing", rest)
        BY <1>10, <3>3 DEF TransportError
      <4>2. QED
        BY <2>1, <2>2, <4>1, EndsWithGoesOn DEF RunPc
    <3>4. CASE c.op = "fail"
      <4>1. runs' = [runs EXCEPT ![c.owner][c.job] = NoRun] /\ calls' \subseteq calls
        BY <1>10, <3>4 DEF TransportError
      <4>2. NoRun.pc = "idle"
        BY DEF NoRun
      <4>3. QED
        BY <2>1, <4>1, <4>2, OneGoesOn
    <3>5. QED
      BY <2>1, <3>1, <3>2, <3>3, <3>4 DEF Op
  <2>4. QED
    BY <1>2, <2>1, <2>3, CheckpointsKept
<1>11. CASE UNCHANGED vars
  BY <1>1, <1>2, <1>11, CheckpointsKept DEF vars
<1>12. QED
  BY <1>3, <1>4, <1>5, <1>6, <1>7, <1>8, <1>9, <1>10, <1>11 DEF Next, LoopStep

\* Only a delivered call changes a checkpoint, to what it carries.
LEMMA CheckpointWritten ==
    ASSUME TypeOK, CheckpointInv, [Next]_vars, NEW j \in Job,
           jobs'[j].checkpoint # jobs[j].checkpoint
    PROVE  jobs[j].attempts \in {jobs[j].checkpoint, jobs'[j].checkpoint}
<1>1. jobs[j] \in Row
  BY DEF TypeOK
<1>2. ASSUME NEW k \in Job, Enqueue(k) \/ BecomeAvailable(k) \/ LeaseExpires(k)
      PROVE  jobs'[j].checkpoint = jobs[j].checkpoint
  <2>1. CASE Enqueue(k)
    BY <2>1 DEF Enqueue, TypeOK, Row
  <2>2. CASE BecomeAvailable(k)
    BY <2>2 DEF BecomeAvailable, TypeOK, Row
  <2>3. CASE LeaseExpires(k)
    BY <2>3 DEF LeaseExpires, TypeOK, Row
  <2>4. QED
    BY <1>2, <2>1, <2>2, <2>3
<1>3. ASSUME NEW w \in Worker, Terminalize(w)
      PROVE  jobs'[j].checkpoint = jobs[j].checkpoint
  BY <1>1, <1>3 DEF Terminalize, Released, Row
<1>4. ASSUME NEW w \in Worker, Claim(w)
      PROVE  jobs'[j].checkpoint = jobs[j].checkpoint
  <2>1. Taken(jobs[j], w).checkpoint = jobs[j].checkpoint
    BY <1>1 DEF Taken, Row
  <2>2. PICK S \in Batches :
          jobs' = [k \in Job |-> IF k \in S THEN Taken(jobs[k], w) ELSE jobs[k]]
    BY <1>4 DEF Claim
  <2>3. jobs'[j] \in {Taken(jobs[j], w), jobs[j]}
    BY <2>2
  <2>4. QED
    BY <2>1, <2>3
<1>5. ASSUME NEW c \in calls, Deliver(c)
      PROVE  jobs[j].attempts \in {jobs[j].checkpoint, jobs'[j].checkpoint}
  <2>1. c \in Call /\ c.job \in Job
    BY DEF TypeOK, Call
  <2>2. Held(c) /\ c.job = j /\ jobs'[j] = Written(jobs[j], c)
    BY <1>5, <2>1 DEF Deliver, TypeOK
  <2>3. c.op # "heartbeat" /\ jobs'[j].checkpoint = c.checkpoint
    <3>1. c.op # "heartbeat"
      BY <1>1, <2>2 DEF Written, Row
    <3>2. CASE c.op = "checkpoint"
      BY <1>1, <2>2, <3>2 DEF Written, Row
    <3>3. CASE c.op = "complete"
      BY <1>1, <2>2, <3>3 DEF Written, Released, Row
    <3>4. CASE c.op = "fail"
      BY <1>1, <2>2, <3>4 DEF Written, Released, Row
    <3>5. QED
      BY <2>1, <3>1, <3>2, <3>3, <3>4 DEF Call, Op
  <2>4. Fits(c.epoch, c.checkpoint, j)
    BY <2>2, <2>3 DEF CheckpointInv
  <2>5. QED
    BY <2>2, <2>3, <2>4 DEF Held, Fits
<1>6. UNCHANGED jobs => jobs'[j].checkpoint = jobs[j].checkpoint
  OBVIOUS
<1>7. ASSUME NEW w \in Worker, Start(w) \/ Stop(w) \/ BatchDone(w) \/ Exit(w) \/ Crash(w)
      PROVE  UNCHANGED jobs
  BY <1>7 DEF Start, Stop, BatchDone, Exit, Crash, queueVars
<1>8. ASSUME NEW w \in Worker, NEW k \in Job, RunStep(w, k)
      PROVE  UNCHANGED jobs
  BY <1>8 DEF RunStep, Heartbeat, SetCheckpoint, SaveCheckpoint, AdvanceResearch,
              Return, Throw, queueVars
<1>9. ASSUME NEW c \in calls, TransportError(c)
      PROVE  UNCHANGED jobs
  BY <1>9 DEF TransportError, queueVars
<1>10. CASE UNCHANGED vars
  BY <1>6, <1>10 DEF vars
<1>11. QED
  BY <1>2, <1>3, <1>4, <1>5, <1>6, <1>7, <1>8, <1>9, <1>10 DEF Next, LoopStep

\* The checkpoint a retry resumes from is the work of the attempt that holds the
\* job or what it found: no call of an earlier attempt, however late, changes it.
THEOREM CheckpointsFenced == Spec => OnlyHolderCheckpoints
<1>1. Init => CheckpointInv
  BY DEF Init, CheckpointInv, Active, NoRun
<1>2. TypeOK /\ EpochsFence /\ CheckpointInv /\ [Next]_vars => CheckpointInv'
  BY CheckpointStep
<1>3. TypeOK /\ CheckpointInv /\ [Next]_vars =>
        [\A j \in Job :
           jobs'[j].checkpoint # jobs[j].checkpoint =>
             jobs[j].attempts \in {jobs[j].checkpoint, jobs'[j].checkpoint}]_vars
  BY CheckpointWritten
<1>4. QED
  BY <1>1, <1>2, <1>3, TypeCorrect, Fencing, PTL DEF Spec, OnlyHolderCheckpoints
=============================================================================
