----------------------------- MODULE AdapterSemaphore -----------------------------
(***************************************************************************)
(* The permit of one subscription adapter within a worker: callers wait in *)
(* a queue, may be aborted at any moment, and are resumed by the event     *)
(* loop some time after the release that resolved them.                    *)
(***************************************************************************)
EXTENDS Naturals, Sequences, SequencesExt

CONSTANT Caller

VARIABLES held,    \* SemaphoreState.held
          queue,   \* SemaphoreState.queue
          pc,      \* pc[c]: where the call of withPermit of c is
          aborted  \* callers whose signal is aborted

vars == <<held, queue, pc, aborted>>

TypeOK == /\ held \in BOOLEAN
          /\ queue \in Seq(Caller)
          /\ pc \in [Caller -> {"calling", "waiting", "resolved", "working", "done"}]
          /\ aborted \subseteq Caller

Init == /\ held = FALSE /\ queue = <<>>
        /\ pc = [c \in Caller |-> "calling"] /\ aborted = {}

\* A permit that is free is taken at once, its holder resumed later; an aborted
\* caller is turned away.
Acquire(c) ==
    /\ pc[c] = "calling"
    /\ IF c \in aborted
       THEN pc' = [pc EXCEPT ![c] = "done"] /\ UNCHANGED <<held, queue>>
       ELSE IF ~held
       THEN /\ held' = TRUE /\ pc' = [pc EXCEPT ![c] = "resolved"] /\ UNCHANGED queue
       ELSE /\ queue' = Append(queue, c) /\ pc' = [pc EXCEPT ![c] = "waiting"]
            /\ UNCHANGED held
    /\ UNCHANGED aborted

\* The abort listener takes a waiting caller out of the queue; on one that has
\* been resolved it has been detached.
LeftQueue(c) == IF pc[c] = "waiting" THEN RemoveFirst(queue, c) ELSE queue

Abort(c) ==
    /\ c \notin aborted /\ pc[c] # "done"
    /\ aborted' = aborted \cup {c}
    /\ queue' = LeftQueue(c)
    /\ pc' = IF pc[c] = "waiting" THEN [pc EXCEPT ![c] = "done"] ELSE pc
    /\ UNCHANGED held

\* release: the first waiter is given the permit, or it is free.
Release(c) ==
    IF queue # <<>>
    THEN /\ pc' = [pc EXCEPT ![c] = "done", ![Head(queue)] = "resolved"]
         /\ queue' = Tail(queue) /\ UNCHANGED held
    ELSE /\ pc' = [pc EXCEPT ![c] = "done"]
         /\ held' = FALSE /\ UNCHANGED queue

\* The awaited acquisition resumes: aborted meanwhile, the permit goes on.
Resume(c) ==
    /\ pc[c] = "resolved"
    /\ IF c \in aborted THEN Release(c)
       ELSE pc' = [pc EXCEPT ![c] = "working"] /\ UNCHANGED <<held, queue>>
    /\ UNCHANGED aborted

\* The work ends, whether or not it was aborted.
Finish(c) == pc[c] = "working" /\ Release(c) /\ UNCHANGED aborted

Next == \E c \in Caller : Acquire(c) \/ Abort(c) \/ Resume(c) \/ Finish(c)

Fairness == \A c \in Caller : WF_vars(Acquire(c)) /\ WF_vars(Resume(c)) /\ WF_vars(Finish(c))

Holders == {c \in Caller : pc[c] \in {"resolved", "working"}}

\* The permit is never with two, never with nobody while it is held, and never
\* free while somebody waits for it: an abort between the release and the
\* resumption neither loses nor doubles it.
PermitConserved == /\ \A c, d \in Holders : c = d
                   /\ held <=> Holders # {}
                   /\ queue # <<>> => held
                   /\ \A n \in 1..Len(queue) : pc[queue[n]] = "waiting"

\* Every call ends, with the permit or without.
EveryCallEnds == \A c \in Caller : <>(pc[c] = "done")
=============================================================================
