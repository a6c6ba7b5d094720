---------------------------- MODULE Continuation ----------------------------
(***************************************************************************)
(* How the research of one candidate goes on after its paid call was       *)
(* refused.  A job whose call is in flight elsewhere, or over the budget,  *)
(* enqueues a resume job under an idempotency key and completes.  Market   *)
(* probes key an in-flight resume by the window (claimed_until) it waits   *)
(* for; deep validation and enrichment use one key per candidate.          *)
(*                                                                         *)
(* Only the jobs of the candidate, one claim and the day's budget appear;  *)
(* the attempt limit of the queue is left out: a job that fails is tried   *)
(* again.  A window is one value of claimed_until to the second.           *)
(***************************************************************************)
EXTENDS Naturals, FiniteSets

CONSTANTS Windowed,    \* TRUE for MARKET_PROBE, FALSE for the other two
          LastDay,     \* bound: the budget is not exhausted from this day on
          MaxMishaps,  \* bound: claims of others, lapses and failed attempts
          Windows      \* the values claimed_until takes, in their order: Nat, or a bound

ASSUME ContinuationAssumption ==
    /\ Windowed \in BOOLEAN
    /\ LastDay \in Nat \ {0}
    /\ MaxMishaps \in Nat
    /\ Windows \subseteq Nat /\ 0 \in Windows

VARIABLES jobs,       \* status of each job of the candidate
          runs,       \* the attempt at each job
          live,       \* claimed_until > now() for the claim on the cache key
          payer,      \* the job whose attempt holds the claim, or Others
          window,     \* claimed_until
          cached,     \* a response is in the cache
          day,        \* the business day
          exhausted,  \* the budget of the day is used up
          validated,  \* the candidate got its evidence
          mishaps     \* counts against MaxMishaps

claimVars == <<live, payer, window, cached>>
vars == <<jobs, runs, claimVars, day, exhausted, validated, mishaps>>

-----------------------------------------------------------------------------
Initial == [kind |-> "initial", at |-> 0, reclaim |-> FALSE]
Resume(d) == [kind |-> "resume", at |-> d, reclaim |-> FALSE]
InFlight(w, r) == [kind |-> "inflight", at |-> w, reclaim |-> r]

JobKey == {Initial} \cup {Resume(d) : d \in 1..LastDay + 1}
          \cup {InFlight(w, r) : w \in Windows, r \in BOOLEAN}

Others == [kind |-> "others", at |-> 0, reclaim |-> FALSE]

Pc == {"idle", "calling", "paying", "inflight", "deferred", "enqueueing", "leaving"}

TypeOK == /\ jobs \in [JobKey -> {"absent", "queued", "running", "settled"}]
          /\ runs \in [JobKey -> [pc : Pc, key : JobKey]]
          /\ live \in BOOLEAN
          /\ payer \in JobKey \cup {Others}
          /\ window \in Windows
          /\ cached \in BOOLEAN /\ exhausted \in BOOLEAN /\ validated \in BOOLEAN
          /\ day \in 1..LastDay + 1
          /\ mishaps \in 0..MaxMishaps

Init == /\ jobs = [j \in JobKey |-> IF j = Initial THEN "queued" ELSE "absent"]
        /\ runs = [j \in JobKey |-> [pc |-> "idle", key |-> Initial]]
        /\ live = FALSE /\ payer = Others /\ window = 0 /\ cached = FALSE
        /\ day = 1
        /\ exhausted \in BOOLEAN /\ (exhausted => LastDay > 1)
        /\ validated = FALSE
        /\ mishaps = 0

Mishap == mishaps < MaxMishaps /\ mishaps' = mishaps + 1

-----------------------------------------------------------------------------
(***************************************************************************)
(* The surroundings: other candidates that share the cache key, time.      *)
(***************************************************************************)
OthersClaim ==
    /\ ~live /\ ~cached
    /\ Mishap
    /\ live' = TRUE /\ payer' = Others /\ window' = window + 1
    /\ UNCHANGED <<jobs, runs, cached, day, exhausted, validated>>

\* complete_api_call_claim also moves claimed_until.
OthersComplete ==
    /\ live /\ payer = Others
    /\ live' = FALSE /\ cached' = TRUE /\ window' = window + 1
    /\ UNCHANGED <<jobs, runs, payer, day, exhausted, validated, mishaps>>

Paying(j) == runs[j].pc = "paying"

\* The lease of a claim ends; that of a working owner only by mishap.
Lapse ==
    /\ live
    /\ IF payer \in JobKey /\ Paying(payer) THEN Mishap ELSE UNCHANGED mishaps
    /\ live' = FALSE
    /\ UNCHANGED <<jobs, runs, payer, window, cached, day, exhausted, validated>>

\* Midnight.  The last deferral, of the day before LastDay, is scheduled by
\* the end of LastDay.
NextDay ==
    /\ day <= LastDay
    /\ day = LastDay => \A j \in JobKey : runs[j].pc \notin {"deferred", "enqueueing"}
    /\ day' = day + 1
    /\ exhausted' \in BOOLEAN /\ (exhausted' => day' < LastDay)
    /\ UNCHANGED <<jobs, runs, claimVars, validated, mishaps>>

-----------------------------------------------------------------------------
(***************************************************************************)
(* The jobs of the candidate.                                              *)
(***************************************************************************)

\* available_at of each kind of job is over.
Available(j) ==
    CASE j.kind = "resume"   -> j.at <= day
      [] j.kind = "inflight" -> Windowed => ~(live /\ window = j.at)
      [] OTHER               -> TRUE

Goto(j, pc) == runs' = [runs EXCEPT ![j].pc = pc]

Begin(j) ==
    /\ jobs[j] = "queued"
    /\ Available(j)
    /\ jobs' = [jobs EXCEPT ![j] = "running"]
    /\ Goto(j, "calling")
    /\ UNCHANGED <<claimVars, day, exhausted, validated, mishaps>>

\* The attempt fails, or dies and is taken over.
Retry(j) ==
    /\ jobs[j] = "running"
    /\ Mishap
    /\ \/ jobs' = [jobs EXCEPT ![j] = "queued"] /\ Goto(j, "idle")
       \/ UNCHANGED jobs /\ Goto(j, "calling")
    /\ UNCHANGED <<claimVars, day, exhausted, validated>>

\* PostgresApiBudget.authorize decides.
Call(j) ==
    /\ runs[j].pc = "calling"
    /\ \/ /\ cached                                   \* cache_hit
          /\ validated' = TRUE
          /\ Goto(j, "leaving")
          /\ UNCHANGED claimVars
       \/ /\ ~cached /\ live                          \* in_flight
          /\ Goto(j, "inflight")
          /\ UNCHANGED <<claimVars, validated>>
       \/ /\ ~cached /\ ~live /\ exhausted            \* deferred_budget
          /\ Goto(j, "deferred")
          /\ live' = TRUE /\ payer' = j /\ window' = window + 1
          /\ UNCHANGED <<cached, validated>>
       \/ /\ ~cached /\ ~live /\ ~exhausted           \* allowed
          /\ Goto(j, "paying")
          /\ live' = TRUE /\ payer' = j /\ window' = window + 1
          /\ UNCHANGED <<cached, validated>>
    /\ UNCHANGED <<jobs, day, exhausted, mishaps>>

\* The response arrives and is accounted for.  The inline path of the market
\* probe does not mind that the claim has lapsed, if nobody took it over.
Pay(j) ==
    /\ Paying(j)
    /\ payer = j
    /\ live \/ Windowed
    /\ cached' = TRUE /\ live' = FALSE /\ window' = window + 1
    /\ validated' = TRUE
    /\ Goto(j, "leaving")
    /\ UNCHANGED <<jobs, payer, day, exhausted, mishaps>>

\* The claim is no longer this attempt's: the handler throws.
ThrowLost(j) ==
    /\ Paying(j)
    /\ payer # j \/ ~live
    /\ Goto(j, "calling")
    /\ UNCHANGED <<jobs, claimVars, day, exhausted, validated, mishaps>>

\* A bug for the mutants: the key does not name the window waited for.
InFlightKeyPerCandidate == InFlight(0, FALSE)

\* scheduleInFlightResume, or the key of the other two jobs.
InFlightKey ==
    IF Windowed
    THEN InFlight(window, jobs[InFlight(window, FALSE)] \notin {"absent", "queued"})
    ELSE InFlight(0, FALSE)

\* A bug for the mutants: the key names the day of the refusal.
DeferredKeyToday == Resume(day)

\* nextBudgetResetAt
DeferredKey == Resume(day + 1)

Schedule(j) ==
    /\ runs[j].pc \in {"inflight", "deferred"}
    /\ runs' = [runs EXCEPT ![j] = [pc |-> "enqueueing",
                  key |-> IF runs[j].pc = "inflight" THEN InFlightKey ELSE DeferredKey]]
    /\ UNCHANGED <<jobs, claimVars, day, exhausted, validated, mishaps>>

\* enqueueResume: a row that exists under the key is left as it is.
EnqueueResume(j) ==
    LET k == runs[j].key IN
    /\ runs[j].pc = "enqueueing"
    /\ jobs' = IF jobs[k] = "absent" THEN [jobs EXCEPT ![k] = "queued"] ELSE jobs
    /\ runs' = [runs EXCEPT ![j] = [pc |-> "leaving", key |-> Initial]]
    /\ UNCHANGED <<claimVars, day, exhausted, validated, mishaps>>

\* The handler returns and the job is completed.
Leave(j) ==
    /\ runs[j].pc = "leaving"
    /\ jobs' = [jobs EXCEPT ![j] = "settled"]
    /\ Goto(j, "idle")
    /\ UNCHANGED <<claimVars, day, exhausted, validated, mishaps>>

-----------------------------------------------------------------------------
Work(j) == \/ Begin(j) \/ Call(j) \/ Pay(j) \/ ThrowLost(j)
           \/ Schedule(j) \/ EnqueueResume(j) \/ Leave(j)

Next == \/ \E j \in JobKey : Work(j) \/ Retry(j)
        \/ OthersClaim \/ OthersComplete \/ Lapse \/ NextDay

Spec == Init /\ [][Next]_vars

\* The worker goes on with some job that can go on, claims end, days pass.
FairSpec == /\ Spec
            /\ WF_vars(\E j \in JobKey : Work(j))
            /\ WF_vars(Lapse) /\ WF_vars(NextDay)

-----------------------------------------------------------------------------
\* As long as the candidate lacks its evidence, a job of it is waiting or at
\* work: no refused call ends its research.
NotLost == validated \/ \E j \in JobKey : jobs[j] \in {"queued", "running"}

\* The candidate gets its evidence in the end.
EventuallyValidated == <>validated
=============================================================================
