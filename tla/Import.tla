--------------------------------- MODULE Import ---------------------------------
(***************************************************************************)
(* One submission of Opportunity Finder files, uploaded from several       *)
(* windows: enqueueImport in the web application, and the attempts of the  *)
(* worker at the job IMPORT_OPPORTUNITY_CSV, whose key is the hash of the  *)
(* submission.  Every identifier an attempt writes is derived from the run *)
(* and the row, and every table is written by one upsert, so a table is    *)
(* there or not; of the candidates the state matters.                      *)
(***************************************************************************)
EXTENDS Naturals, Sequences

CONSTANTS Upload,      \* requests that submit these files
          MaxRun,      \* bound: import runs
          MaxAttempts  \* jobs.max_attempts

VARIABLES files,     \* what the submission is worth: malformed, rejected, accepted
          runs,      \* import_runs.status, by run
          upload,    \* upload[u]: the request
          job,       \* the jobs row of the submission
          attempt,   \* attempt[e]: the attempt of epoch e at the job
          tables,    \* tables the job's run has rows in
          candidate  \* state of the candidates of the job's run

vars == <<files, runs, upload, job, attempt, tables, candidate>>

-----------------------------------------------------------------------------
RunId == 1..MaxRun
MaybeRun == 0..MaxRun
Epoch == 1..MaxAttempts

\* The order in which runImportJob writes its tables.
Tables == <<"raw_opportunity_keywords", "candidates", "decision_history",
            "score_history", "audit_events">>
Table == {Tables[n] : n \in 1..Len(Tables)}

TypeOK ==
    /\ files \in {"malformed", "rejected", "accepted"}
    /\ runs \in [RunId -> {"absent", "queued", "processing", "completed", "failed"}]
    /\ upload \in [Upload -> [pc : {"finding", "inserting", "conflict", "storing",
                                    "recording", "enqueueing", "failing", "accepted", "error"},
                              run : MaybeRun]]
    /\ job \in [status : {"absent", "queued", "running", "completed", "failed"},
                run : MaybeRun, epoch : 0..MaxAttempts, live : BOOLEAN]
    /\ attempt \in [Epoch -> [pc : {"none", "downloading", "asserting", "parsing", "writing",
                                    "completing", "reporting", "catching", "failing", "ended"},
                              next : 1..Len(Tables) + 1]]
    /\ tables \subseteq Table
    /\ candidate \in {"absent", "Reject", "AI Screening", "further"}

Init == /\ files \in {"malformed", "rejected", "accepted"}
        /\ runs = [r \in RunId |-> "absent"]
        /\ upload = [u \in Upload |-> [pc |-> "finding", run |-> 0]]
        /\ job = [status |-> "absent", run |-> 0, epoch |-> 0, live |-> FALSE]
        /\ attempt = [e \in Epoch |-> [pc |-> "none", next |-> 1]]
        /\ tables = {} /\ candidate = "absent"

-----------------------------------------------------------------------------
(***************************************************************************)
(* enqueueImport                                                           *)
(***************************************************************************)

\* The run of this submission that has not failed; the partial unique index
\* allows one.
Active == {r \in RunId : runs[r] \notin {"absent", "failed"}}

ToUpload(u, pc, r) == upload' = [upload EXCEPT ![u] = [pc |-> pc, run |-> r]]

\* A run that has not failed answers for the submission.
FindExisting(u) ==
    /\ upload[u].pc \in {"finding", "conflict"}
    /\ IF Active # {} THEN \E r \in Active : ToUpload(u, "accepted", r)
       ELSE ToUpload(u, IF upload[u].pc = "finding" THEN "inserting" ELSE "error", 0)
    /\ UNCHANGED <<files, runs, job, attempt, tables, candidate>>

InsertRun(u) ==
    /\ upload[u].pc = "inserting"
    /\ IF Active # {}
       THEN ToUpload(u, "conflict", 0) /\ UNCHANGED runs
       ELSE \E r \in RunId :
              /\ runs[r] = "absent" /\ \A q \in 1..r - 1 : runs[q] # "absent"
              /\ runs' = [runs EXCEPT ![r] = "queued"]
              /\ ToUpload(u, "storing", r)
    /\ UNCHANGED <<files, job, attempt, tables, candidate>>

\* The files are stored, then their references recorded; either may fail.
StoreFiles(u) ==
    /\ upload[u].pc \in {"storing", "recording"}
    /\ \/ ToUpload(u, IF upload[u].pc = "storing" THEN "recording" ELSE "enqueueing",
                   upload[u].run)
       \/ ToUpload(u, "failing", upload[u].run)
    /\ UNCHANGED <<files, runs, job, attempt, tables, candidate>>

\* enqueueJob: a job of the same key is returned, whatever its run and status.
\* The insert may fail, or its answer be lost.
Enqueue(u) ==
    /\ upload[u].pc = "enqueueing"
    /\ \/ /\ job' = IF job.status = "absent"
                    THEN [job EXCEPT !.status = "queued", !.run = upload[u].run] ELSE job
          /\ ToUpload(u, "accepted", upload[u].run) \/ ToUpload(u, "failing", upload[u].run)
       \/ ToUpload(u, "failing", upload[u].run) /\ UNCHANGED job
    /\ UNCHANGED <<files, runs, attempt, tables, candidate>>

\* The run is marked as failed; the answer of that update is not looked at.
FailUpload(u) ==
    /\ upload[u].pc = "failing"
    /\ runs' = [runs EXCEPT ![upload[u].run] = "failed"] \/ UNCHANGED runs
    /\ ToUpload(u, "error", upload[u].run)
    /\ UNCHANGED <<files, job, attempt, tables, candidate>>

-----------------------------------------------------------------------------
(***************************************************************************)
(* The worker.                                                             *)
(***************************************************************************)

Holds(e) == job.status = "running" /\ job.epoch = e /\ job.live

ToAttempt(e, pc) == attempt' = [attempt EXCEPT ![e].pc = pc]

Claim ==
    /\ job.status = "queued" \/ (job.status = "running" /\ ~job.live)
    /\ job.epoch < MaxAttempts
    /\ job' = [job EXCEPT !.status = "running", !.epoch = @ + 1, !.live = TRUE]
    /\ ToAttempt(job.epoch + 1, "downloading")
    /\ UNCHANGED <<files, runs, upload, tables, candidate>>

LeaseLapses ==
    /\ job.status = "running" /\ job.live
    /\ job' = IF job.epoch = MaxAttempts THEN [job EXCEPT !.status = "failed", !.live = FALSE]
              ELSE [job EXCEPT !.live = FALSE]
    /\ UNCHANGED <<files, runs, upload, attempt, tables, candidate>>

Dies(e) ==
    /\ attempt[e].pc \notin {"none", "ended"}
    /\ ToAttempt(e, "ended")
    /\ UNCHANGED <<files, runs, upload, job, tables, candidate>>

\* downloadImportFiles: a file is missing, or its bytes have another hash.
Download(e) ==
    /\ attempt[e].pc = "downloading"
    /\ ToAttempt(e, "asserting") \/ ToAttempt(e, "failing")
    /\ UNCHANGED <<files, runs, upload, job, tables, candidate>>

\* assertImportRun: to processing, unless another run of the submission is
\* active; an error here is not caught by runImportJob.
AssertImportRun(e) ==
    /\ attempt[e].pc = "asserting"
    /\ IF Active \subseteq {job.run}
       THEN runs' = [runs EXCEPT ![job.run] = "processing"] /\ ToAttempt(e, "parsing")
       ELSE ToAttempt(e, "failing") /\ UNCHANGED runs
    /\ UNCHANGED <<files, upload, job, tables, candidate>>

\* A checkpoint is refused to an attempt that does not hold the job; refused or
\* failed, it ends the attempt as an error does.
Checkpointed(e, next) == \/ Holds(e) /\ next
                         \/ ToAttempt(e, "catching")

\* prepareRows, and the checkpoint 'parsed'.
Parse(e) ==
    /\ attempt[e].pc = "parsing"
    /\ IF files = "malformed" THEN ToAttempt(e, "catching")
       ELSE Checkpointed(e, attempt' = [attempt EXCEPT ![e].pc = "writing", ![e].next = 1])
    /\ UNCHANGED <<files, runs, upload, job, tables, candidate>>

\* A checkpoint follows the raw rows; evaluateRows and two more precede the
\* candidates.
CheckpointAfter(t) == t = "raw_opportunity_keywords"

\* A bug for the mutants: histories are not written for what is rejected.
AcceptedOnly == IF files = "accepted" THEN Len(Tables) ELSE 2

LastTable == Len(Tables)

\* The next table is written, or is not and the attempt fails.  A candidate gets
\* the state that the rules give it, whichever it has reached.
Upsert(e) ==
    /\ attempt[e].pc = "writing"
    /\ LET t == Tables[attempt[e].next]
           rest == attempt' = [attempt EXCEPT
                     ![e].next = @ + 1,
                     ![e].pc = IF attempt[e].next = LastTable THEN "completing" ELSE "writing"]
       IN \/ /\ tables' = tables \cup {t}
             /\ candidate' = IF t = "candidates"
                             THEN (IF files = "accepted" THEN "AI Screening" ELSE "Reject")
                             ELSE candidate
             /\ IF CheckpointAfter(t) THEN Checkpointed(e, rest) ELSE rest
          \/ ToAttempt(e, "catching") /\ UNCHANGED <<tables, candidate>>
    /\ UNCHANGED <<files, runs, upload, job>>

\* The run is completed with its counts; a checkpoint follows.
CompleteRun(e) ==
    /\ attempt[e].pc = "completing"
    /\ \/ /\ Active \subseteq {job.run}
          /\ runs' = [runs EXCEPT ![job.run] = "completed"]
          /\ Checkpointed(e, ToAttempt(e, "reporting"))
       \/ ToAttempt(e, "catching") /\ UNCHANGED runs
    /\ UNCHANGED <<files, upload, job, tables, candidate>>

\* The catch of runImportJob: whatever attempt it is, the run has failed.
CatchError(e) ==
    /\ attempt[e].pc = "catching"
    /\ runs' = [runs EXCEPT ![job.run] = "failed"] \/ UNCHANGED runs
    /\ ToAttempt(e, "failing")
    /\ UNCHANGED <<files, upload, job, tables, candidate>>

\* runJob reports to the queue, which listens to the holder only.
Report(e) ==
    /\ attempt[e].pc \in {"reporting", "failing"}
    /\ job' = IF ~Holds(e) THEN job
              ELSE [job EXCEPT !.live = FALSE,
                      !.status = CASE attempt[e].pc = "reporting" -> "completed"
                                   [] e = MaxAttempts -> "failed"
                                   [] OTHER -> "queued"]
    /\ ToAttempt(e, "ended")
    /\ UNCHANGED <<files, runs, upload, tables, candidate>>

\* The daily research picks up what awaits screening, and takes it further.
Screen ==
    /\ candidate = "AI Screening"
    /\ candidate' = "further"
    /\ UNCHANGED <<files, runs, upload, job, attempt, tables>>

Next == \/ \E u \in Upload : FindExisting(u) \/ InsertRun(u) \/ StoreFiles(u) \/ Enqueue(u)
                             \/ FailUpload(u)
        \/ Claim \/ LeaseLapses \/ Screen
        \/ \E e \in Epoch : \/ Dies(e) \/ Download(e) \/ AssertImportRun(e) \/ Parse(e)
                            \/ Upsert(e) \/ CompleteRun(e) \/ CatchError(e) \/ Report(e)

Spec == Init /\ [][Next]_vars

-----------------------------------------------------------------------------
\* A run that is shown as completed has every row it counts: candidates with
\* their raw rows, and for each a decision, a score and an audit event, however
\* many attempts wrote them and wherever they stopped.
CompletedIsWhole == \A r \in RunId : runs[r] = "completed" => r = job.run /\ tables = Table
=================================================================================
