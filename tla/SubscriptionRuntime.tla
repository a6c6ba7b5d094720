---------------------------- MODULE SubscriptionRuntime ----------------------------
(***************************************************************************)
(* The runtime state of a subscription provider: acceptance, activation,   *)
(* readiness probes and their leases, failures reported by attempts, the   *)
(* fence of its authorization.  Every mutation compares the bindings it    *)
(* was computed from with those on record.                                 *)
(*                                                                         *)
(* The settings revision of such a provider does not change (a row of this *)
(* family cannot be saved twice, its adapter being absent from the         *)
(* insert), so the bindings are the auth generation and, for a probe, its  *)
(* generation.  The digests of terms, credentials, binary and profile are  *)
(* one digest, the version of the login they were collected from.          *)
(***************************************************************************)
EXTENDS Naturals, FiniteSets

CONSTANTS Run,        \* runs of probes, of any attempt at any job
          MaxAuth,    \* bound: auth_generation
          MaxProbe,   \* bound: probe_generation
          MaxLogin    \* bound: versions of the login on the host

VARIABLES enabled,  \* ai_providers.enabled, and of its one model
          rt,       \* the ai_provider_runtime_state row
          jobs,     \* PROBE_AI_PROVIDER_READINESS jobs, by probe generation
          runs,     \* acceptance and readiness probes under way
          attempt,  \* a provider attempt under way: the bindings of its start
          login,    \* version of the login on the host
          fenced,   \* history: fences and deactivations so far
          proof     \* history: value of fenced when the evidence of the last
                    \* committed readiness probe was collected

vars == <<enabled, rt, jobs, runs, attempt, login, fenced, proof>>

-----------------------------------------------------------------------------
Generation == 0..MaxProbe
Authorization == 0..MaxAuth
Login == 1..MaxLogin
Time == {"none", "ahead", "past"}

TypeOK ==
    /\ enabled \in BOOLEAN
    /\ rt \in [present : BOOLEAN, available : BOOLEAN,
               state : {"authorization_required", "ready", "expired", "needs_attention"},
               validUntil : Time, retry : Time, fails : 0..4,
               auth : Authorization, probe : Generation, job : Generation,
               credential : {0} \cup Login,       \* digest, 0 for null
               capability : {0} \cup Login,       \* of the attested evidence, 0 for null
               containment : {0} \cup Login]
    /\ jobs \in [Generation -> [status : {"absent", "queued", "running", "done"},
                                auth : Authorization, claims : 0..2]]
    /\ runs \in [Run -> [pc : {"idle", "started", "collected"},
                         kind : {"acceptance", "readiness"}, probe : Generation,
                         auth : Authorization, digest : {0} \cup Login,
                         seen : 0..MaxAuth + MaxProbe]]
    /\ attempt \in [pc : {"idle", "running"}, auth : Authorization, probe : Generation]
    /\ login \in Login
    /\ fenced \in 0..MaxAuth + MaxProbe /\ proof \in 0..MaxAuth + MaxProbe

IdleRun == [pc |-> "idle", kind |-> "readiness", probe |-> 0, auth |-> 0,
            digest |-> 0, seen |-> 0]
NoAttempt == [pc |-> "idle", auth |-> 0, probe |-> 0]

\* The product is registered, disabled; nothing of its runtime is on record.
Init == /\ enabled = FALSE
        /\ rt = [present |-> FALSE, available |-> FALSE,
                 state |-> "authorization_required", validUntil |-> "none",
                 retry |-> "none", fails |-> 0, auth |-> 0, probe |-> 0, job |-> 0,
                 credential |-> 0, capability |-> 0, containment |-> 0]
        /\ jobs = [g \in Generation |-> [status |-> "absent", auth |-> 0, claims |-> 0]]
        /\ runs = [r \in Run |-> IdleRun]
        /\ attempt = NoAttempt
        /\ login = 1 /\ fenced = 0 /\ proof = 0

Attested == rt.capability # 0 /\ rt.containment # 0

\* is_ai_provider_routable
Routable == /\ enabled /\ rt.present
            /\ rt.state = "ready" /\ rt.available
            /\ rt.validUntil = "ahead" /\ rt.retry = "none"
            /\ Attested

\* How the settings page shows the provider.
SetupStatus ==
    CASE ~enabled -> "disabled"
      [] enabled /\ (~rt.present \/ rt.state = "authorization_required") -> "setup_required"
      [] enabled /\ rt.present /\ rt.state = "expired" -> "expired"
      [] enabled /\ rt.present /\ rt.state = "needs_attention" -> "needs_attention"
      [] OTHER -> IF rt.available /\ rt.retry = "none" /\ rt.validUntil = "ahead"
                  THEN "ready" ELSE "unavailable"

\* A row that is not ready: no lease, no time to retry at.
Unready(row, state) == [row EXCEPT !.state = state, !.available = FALSE,
                                   !.validUntil = "none", !.retry = "none"]

-----------------------------------------------------------------------------
(***************************************************************************)
(* Probes are asked for.                                                   *)
(***************************************************************************)

Live(g) == jobs[g].status \in {"queued", "running"}

\* enqueue_ai_provider_probe_locked on row: an active probe is returned,
\* otherwise one of the next generation is queued.
EnqueueProbe(row) ==
    /\ row.retry # "ahead"
    /\ IF row.job # 0 /\ Live(row.job)
       THEN rt' = row /\ UNCHANGED jobs
       ELSE /\ row.probe < MaxProbe
            /\ rt' = [row EXCEPT !.probe = @ + 1, !.job = row.probe + 1, !.retry = "none",
                                 !.available = FALSE]
            /\ jobs' = [jobs EXCEPT ![row.probe + 1] =
                          [status |-> "queued", auth |-> row.auth, claims |-> 0]]

\* The connection test of the provider: request_ai_provider_probe.
RequestProbe ==
    /\ enabled /\ rt.present
    /\ EnqueueProbe(rt)
    /\ UNCHANGED <<enabled, runs, attempt, login, fenced, proof>>

\* The catalog finds no routable model: expire_ai_provider_ready_lease.
ExpireReadyLease ==
    /\ enabled /\ rt.present /\ ~Routable
    /\ rt.validUntil = "past"
    /\ EnqueueProbe([rt EXCEPT !.available = FALSE])
    /\ UNCHANGED <<enabled, runs, attempt, login, fenced, proof>>

-----------------------------------------------------------------------------
(***************************************************************************)
(* The operator.                                                           *)
(***************************************************************************)

\* The acceptance probe starts from the bindings as they are.
StartAcceptance(r) ==
    /\ ~enabled /\ runs[r].pc = "idle"
    /\ runs' = [runs EXCEPT ![r] = [IdleRun EXCEPT !.pc = "started",
                                      !.kind = "acceptance", !.auth = rt.auth]]
    /\ UNCHANGED <<enabled, rt, jobs, attempt, login, fenced, proof>>

\* commit_ai_provider_acceptance_probe
CommitAcceptance(r) ==
    /\ runs[r].pc = "collected" /\ runs[r].kind = "acceptance"
    /\ rt' = IF ~enabled /\ rt.auth = runs[r].auth
             THEN [Unready(rt, "authorization_required") EXCEPT
                     !.present = TRUE, !.credential = runs[r].digest,
                     !.capability = runs[r].digest, !.containment = runs[r].digest]
             ELSE rt
    /\ runs' = [runs EXCEPT ![r] = IdleRun]
    /\ UNCHANGED <<enabled, jobs, attempt, login, fenced, proof>>

\* activate_subscription_provider
Activate ==
    /\ ~enabled /\ rt.present /\ rt.credential # 0 /\ Attested
    /\ EnqueueProbe([Unready(rt, "authorization_required") EXCEPT !.job = 0])
    /\ enabled' = TRUE
    /\ UNCHANGED <<runs, attempt, login, fenced, proof>>

\* deactivate_subscription_provider, and the route that calls it
Deactivate ==
    /\ rt.present /\ rt.probe < MaxProbe
    /\ enabled' = FALSE
    /\ rt' = [Unready(rt, "authorization_required") EXCEPT !.probe = @ + 1, !.job = 0]
    /\ fenced' = fenced + 1
    /\ UNCHANGED <<jobs, runs, attempt, login, proof>>

Fenced == [Unready(rt, "authorization_required") EXCEPT
    !.auth = @ + 1, !.probe = @ + 1, !.job = 0,
    !.credential = 0, !.capability = 0, !.containment = 0]

\* fence_ai_provider_auth
FenceAuth ==
    /\ rt.present /\ rt.auth < MaxAuth /\ rt.probe < MaxProbe
    /\ rt' = Fenced
    /\ fenced' = fenced + 1
    /\ UNCHANGED <<enabled, jobs, runs, attempt, login, proof>>

\* The login on the host is renewed, or its client replaced.
Relogin ==
    /\ login < MaxLogin
    /\ login' = login + 1
    /\ UNCHANGED <<enabled, rt, jobs, runs, attempt, fenced, proof>>

-----------------------------------------------------------------------------
(***************************************************************************)
(* Probe runs.                                                             *)
(***************************************************************************)

\* An attempt takes the job, the first or one after a lost lease; it goes on
\* only if the payload is what is on record.
StartReadiness(r, g) ==
    /\ Live(g) /\ jobs[g].claims < 2 /\ runs[r].pc = "idle"
    /\ LET current == enabled /\ jobs[g].auth = rt.auth /\ g = rt.probe IN
       /\ jobs' = [jobs EXCEPT ![g].status = IF current THEN "running" ELSE "done",
                               ![g].claims = @ + 1]
       /\ runs' = IF current
                  THEN [runs EXCEPT ![r] = [IdleRun EXCEPT !.pc = "started", !.probe = g,
                                                           !.auth = jobs[g].auth]]
                  ELSE runs
    /\ UNCHANGED <<enabled, rt, attempt, login, fenced, proof>>

\* Inspection and containment, under the permit of the adapter.
Collect(r) ==
    /\ runs[r].pc = "started"
    /\ runs' = [runs EXCEPT ![r].pc = "collected", ![r].digest = login, ![r].seen = fenced]
    /\ UNCHANGED <<enabled, rt, jobs, attempt, login, fenced, proof>>

\* A bug for the mutants: the generation of the probe is not compared.
AnyGenerationCommits(r) == /\ enabled /\ rt.auth = runs[r].auth /\ Attested
                           /\ rt.credential = runs[r].digest
                           /\ rt.capability = runs[r].digest

\* What commit_ai_provider_probe compares.
Commits(r) == /\ enabled /\ rt.auth = runs[r].auth /\ rt.probe = runs[r].probe /\ Attested
              /\ rt.credential = runs[r].digest
              /\ rt.capability = runs[r].digest /\ rt.containment = runs[r].digest

\* commit_ai_provider_probe, and the job that completes or fails with it.
CommitReadiness(r) ==
    /\ runs[r].pc = "collected" /\ runs[r].kind = "readiness"
    /\ IF Commits(r)
       THEN /\ rt' = [rt EXCEPT !.state = "ready", !.available = TRUE,
                        !.validUntil = "ahead", !.retry = "none", !.fails = 0, !.job = 0]
            /\ proof' = runs[r].seen
       ELSE UNCHANGED <<rt, proof>>
    /\ jobs' = [jobs EXCEPT ![runs[r].probe].status = "done"]
    /\ runs' = [runs EXCEPT ![r] = IdleRun]
    /\ UNCHANGED <<enabled, attempt, login, fenced>>

\* The probe fails, is aborted with its job, or dies with the worker.
RunEnds(r) ==
    /\ runs[r].pc # "idle"
    /\ runs' = [runs EXCEPT ![r] = IdleRun]
    /\ jobs' = IF runs[r].kind = "readiness"
               THEN [jobs EXCEPT ![runs[r].probe].status =
                       IF jobs[runs[r].probe].claims < 2 THEN @ ELSE "done"]
               ELSE jobs
    /\ UNCHANGED <<enabled, rt, attempt, login, fenced, proof>>

-----------------------------------------------------------------------------
(***************************************************************************)
(* Attempts and time.                                                      *)
(***************************************************************************)

StartAttempt ==
    /\ Routable /\ attempt.pc = "idle"
    /\ attempt' = [pc |-> "running", auth |-> rt.auth, probe |-> rt.probe]
    /\ UNCHANGED <<enabled, rt, jobs, runs, login, fenced, proof>>

\* To be tried again later, as ready as before: the table refuses that state to a
\* row without a lease, and with it the whole update.
Postponed(fails) == IF rt.validUntil = "none" THEN rt
                    ELSE [rt EXCEPT !.state = "ready", !.available = FALSE,
                                    !.retry = "ahead", !.fails = fails]

\* What a failure does to the row, by its class.  A capability_failure disables the
\* model too: until the provider is deactivated, accepted and activated again, which
\* enables both, the row has no capability, and whatever asks for the model asks
\* for that.
AfterFailure(class) ==
    CASE class = "auth_expired" -> Unready(rt, "expired")
      [] class = "credential_source_mismatch" ->
           [Unready(rt, "needs_attention") EXCEPT !.credential = 0]
      [] class = "profile_mismatch" ->
           [Unready(rt, "needs_attention") EXCEPT !.containment = 0]
      [] class = "capability_failure" ->
           [Unready(rt, "needs_attention") EXCEPT !.capability = 0]
      [] class = "unsafe_unknown" -> Unready(rt, "needs_attention")
      [] class = "rate_limited" -> Postponed(rt.fails)
      [] class = "transient_network" -> Postponed(IF rt.fails < 4 THEN rt.fails + 1 ELSE 4)
      [] class = "schema_invalid_output" -> rt

FailureClass == {"auth_expired", "credential_source_mismatch", "profile_mismatch",
                 "capability_failure", "unsafe_unknown", "rate_limited",
                 "transient_network", "schema_invalid_output"}

\* apply_ai_provider_runtime_failure: of the bindings it started with only.
FailAttempt ==
    /\ attempt.pc = "running"
    /\ \E class \in FailureClass :
         rt' = IF rt.auth = attempt.auth /\ rt.probe = attempt.probe
               THEN AfterFailure(class) ELSE rt
    /\ attempt' = NoAttempt
    /\ UNCHANGED <<enabled, jobs, runs, login, fenced, proof>>

LeaseLapses ==
    /\ rt.validUntil = "ahead"
    /\ rt' = [rt EXCEPT !.validUntil = "past"]
    /\ UNCHANGED <<enabled, jobs, runs, attempt, login, fenced, proof>>

RetryElapses ==
    /\ rt.retry = "ahead"
    /\ rt' = [rt EXCEPT !.retry = "past"]
    /\ UNCHANGED <<enabled, jobs, runs, attempt, login, fenced, proof>>

Next == \/ RequestProbe \/ ExpireReadyLease
        \/ Activate \/ Deactivate \/ FenceAuth \/ Relogin
        \/ \E r \in Run : \/ StartAcceptance(r) \/ CommitAcceptance(r)
                          \/ Collect(r) \/ CommitReadiness(r) \/ RunEnds(r)
                          \/ \E g \in Generation : StartReadiness(r, g)
        \/ StartAttempt \/ FailAttempt \/ LeaseLapses \/ RetryElapses

Spec == Init /\ [][Next]_vars

-----------------------------------------------------------------------------
\* A provider is routed to only on the evidence of a probe that looked at it
\* after the last time it was fenced or switched off, whichever probes were
\* under way then.
RoutableIsProbed == Routable => proof = fenced

\* The probe that further requests are referred to can still make the provider
\* ready: nobody waits for one whose bindings are gone.
ActiveProbeCanCommit ==
    (rt.job # 0 /\ Live(rt.job)) => rt.job = rt.probe /\ jobs[rt.job].auth = rt.auth

\* The settings page says ready only of a provider that is routable.
ShownReadyIsRoutable == SetupStatus = "ready" => Routable
=============================================================================
