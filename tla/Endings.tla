--------------------------------- MODULE Endings ---------------------------------
(***************************************************************************)
(* What must come to an end, in one specification: a job, a wait for the   *)
(* permit of an adapter, a call to a provider, the invocation of a client  *)
(* in its sandbox.  The parts have no variable in common; a behaviour is   *)
(* one of one part, while the others rest in an initial state.             *)
(***************************************************************************)
EXTENDS Naturals

CONSTANTS Job, DailyJob, Worker, NoWorker, MaxAttempts, ClaimLimit, MaxOrphans,  \* JobQueue
          Caller,                                                     \* AdapterSemaphore
          Retries, MaxChanges                                         \* ProviderCall

ASSUME EndingsAssumption == Retries \in Nat /\ MaxChanges \in Nat

VARIABLES part,
          jobs, research, proc, stopping, runs, calls, reported,
          held, queue, pc, aborted,
          setup, answer, changes, step, raws, request, posts, reached, outcome, child,
          caller, result, cleanups, unit, status, procs, dirs, file, published

Queue == INSTANCE JobQueue
Semaphore == INSTANCE AdapterSemaphore
Call == INSTANCE ProviderCall WITH pc <- step
Client == INSTANCE Sandbox WITH outcome <- result, request <- file, result <- published

work == <<jobs, research, proc, stopping, runs, calls, reported>>
permit == <<held, queue, pc, aborted>>
command == <<setup, answer, changes, step, raws, request, posts, reached, outcome, child>>
sandbox == <<caller, result, cleanups, unit, status, procs, dirs, file, published>>
vars == <<part, work, permit, command, sandbox>>

-----------------------------------------------------------------------------
TypeOK == Queue!TypeOK /\ Semaphore!TypeOK /\ Call!TypeOK /\ Client!TypeOK

Init == /\ part \in {"work", "permit", "command", "sandbox"}
        /\ Queue!Init /\ Semaphore!Init /\ Call!Init /\ Client!Init
        \* where a call rests, which has several initial states
        /\ part = "command" \/ setup.kind = "command"

Next == /\ UNCHANGED part
        /\ \/ /\ part = "work" /\ Queue!Next
              /\ UNCHANGED <<permit, command, sandbox>>
           \/ /\ part = "permit" /\ Semaphore!Next
              /\ UNCHANGED <<work, command, sandbox>>
           \/ /\ part = "command" /\ Call!Next
              /\ UNCHANGED <<work, permit, sandbox>>
           \/ /\ part = "sandbox" /\ Client!Next
              /\ UNCHANGED <<work, permit, command>>

Spec == Init /\ [][Next]_vars

\* Of the part that goes on; the others take no step.
Fairness == \/ part = "work" /\ Queue!Fairness
            \/ part = "permit" /\ Semaphore!Fairness
            \/ part = "command" /\ Call!Fairness
            \/ part = "sandbox" /\ Client!Fairness

FairSpec == Spec /\ Fairness

-----------------------------------------------------------------------------
\* Every job that was enqueued is settled in the end (JobQueue).
EventuallySettled == part = "work" => Queue!EventuallySettled

\* Every wait for the permit ends, with it or aborted; every call ends, and no
\* child process outlives it for ever; whoever died or gave up, the unit of an
\* invocation is over in the end and its directory gone (AdapterSemaphore,
\* ProviderCall, Sandbox).
CallsEnd == /\ part = "permit" => Semaphore!EveryCallEnds
            /\ part = "command" => Call!CallEnds
            /\ part = "sandbox" => Client!InvocationEnds

\* Whatever the name server answers between the validation of a URL and the
\* last retry, no request leaves the scope that was configured; and one that is
\* paid for is not repeated beyond the retries of one (ProviderCall).
CallsInBounds == Call!ConnectsWithinScope /\ Call!RequestsBounded

\* No abort loses or doubles a permit; what an invocation returns whose start was
\* confirmed, or throws short of a failed cleanup, leaves neither a unit that goes
\* on, nor a process, nor a directory (AdapterSemaphore, Sandbox).
NothingLeft == Semaphore!PermitConserved /\ Client!NothingLeft
=============================================================================
