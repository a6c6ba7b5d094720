---------------------------- MODULE JobLifecycle ----------------------------
(***************************************************************************)
(* What the durable queue promises to whoever enqueues a job, with no      *)
(* worker, lease or message in sight: a job is taken at most MaxAttempts   *)
(* times, a settled job is never touched again, and a job is given up as   *)
(* failed only after its last permitted attempt.                           *)
(***************************************************************************)
EXTENDS Naturals

CONSTANTS Job,          \* the jobs that may ever be enqueued
          MaxAttempts   \* jobs.max_attempts

VARIABLES status,       \* [Job -> absent, queued, running, completed, failed]
          attempts      \* [Job -> number of times the job was taken]

vars == <<status, attempts>>

Init == /\ status = [j \in Job |-> "absent"]
        /\ attempts = [j \in Job |-> 0]

\* Store one new job.
Add(j) == /\ status[j] = "absent"
          /\ status' = [status EXCEPT ![j] = "queued"]
          /\ UNCHANGED attempts

\* Hand a batch of jobs out.  A running job may be handed out again: its
\* previous taker has lost it.
Take(S) == /\ \A j \in S : /\ status[j] \in {"queued", "running"}
                           /\ attempts[j] < MaxAttempts
           /\ status' = [j \in Job |-> IF j \in S THEN "running" ELSE status[j]]
           /\ attempts' = [j \in Job |->
                             IF j \in S THEN attempts[j] + 1 ELSE attempts[j]]

\* A taken job comes back for another try.
PutBack(j) == /\ status[j] = "running"
              /\ attempts[j] < MaxAttempts
              /\ status' = [status EXCEPT ![j] = "queued"]
              /\ UNCHANGED attempts

\* A taken job is done.
Finish(j) == /\ status[j] = "running"
             /\ status' = [status EXCEPT ![j] = "completed"]
             /\ UNCHANGED attempts

\* Jobs whose attempts are all used up are given up.
GiveUp(S) == /\ \A j \in S : /\ status[j] = "running"
                             /\ attempts[j] = MaxAttempts
             /\ status' = [j \in Job |-> IF j \in S THEN "failed" ELSE status[j]]
             /\ UNCHANGED attempts

Next == \/ \E j \in Job : Add(j) \/ PutBack(j) \/ Finish(j)
        \/ \E S \in SUBSET Job : Take(S) \/ GiveUp(S)

Spec == Init /\ [][Next]_vars
=============================================================================
