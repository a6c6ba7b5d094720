# AmazonResearchAgent in TLA+

AmazonResearchAgent imports keyword opportunities, lets an AI model normalize
them, pays a market-data API for evidence about the survivors and re-examines
them every day.  A Next.js application writes requests, a long-running worker
does the work, and PostgreSQL holds everything that must survive: almost every
state change is a `security definer` function in `supabase/migrations/`, called
over HTTP by a worker that may crash, be stopped, lose a reply or go on working
after its lease has ended.  That is where this project looks: at what is true of
the database and the workers together, in every interleaving.

Run from this directory, for example:

    tlc -workers 2 -config JobQueueSafety.cfg MCJobQueue.tla
    tlapm JobQueueProofs.tla

`PROJECT.json` lists the runs, what each definition models (`map`), the hazards
the properties are for, and for each property a plausible bug that it catches.

## Inventory

| Component | State | Operations | Hard part |
|---|---|---|---|
| Job queue (`packages/queue`, migrations 21 and 20260905024323) | `jobs`: status, attempts, lease, checkpoint | enqueue, claim, heartbeat, checkpoint, complete, fail, terminalize | leases that end under a working attempt; lost replies; a restarted worker with the same name |
| Worker (`apps/worker/src/main.ts`) | loop, one `runJob` per claimed job | signals, heartbeats, handlers | a heartbeat in parallel with every other call; siblings of a rejected batch |
| Paid calls (`postgres-api-budget.ts`, `budgeted-api-call.ts`, `market-probe.ts`, migrations 270003 to 270015) | `api_call_claims`, `api_budget_daily`, `api_cache`, `api_usage` | claim, authorize, stage, publish, record, complete | several writes per payment, each of which may be the last; takeovers; two dialects of the same protocol |
| Candidate jobs (`market-probe.ts`, `deep-validation.ts`, `enrich-strong-potential.ts`) | candidate, evidence, follow-up jobs | probe, validate, enrich, resume | a refused call ends the job, and only the follow-up it enqueues goes on; evidence that changes under a queued job |
| Business evidence (`research-business*.ts`) | versions of what an administrator knows of a candidate | append, assess, admit | unknown costs; two targets and a budget at once |
| AI normalization (`normalize-opportunities.ts`, `normalization-execution-coordinator.ts`, migrations 21, 22, 24, 20260903203236) | candidate generation, `ai_analyses`, `provider_attempt_events`, finalizations | claim, reconcile, begin, execute, append, finalize, decide, defer, rearm | two leases (job, analysis), a write-ahead ledger, answers that must not be lost or bought twice |
| Router and structured calls (`packages/ai-router`, `provider-url-policy.ts`) | child process, timers, requests under way | rank, call, repair, retry, terminate | a child that ignores its signal; a name whose address changes between requests |
| Provider settings and catalog (`api/ai-providers`, `test-ai-provider.ts`, `provider-catalog.ts`) | `ai_providers`, `provider_secrets`, a cache in the worker | save, test, load, execute | rows of one revision read in two queries; a cache that is a minute old |
| Provider runtime (migration 20) | circuit state, auth generation, probe generation, leases | accept, activate, probe, fail, fence | compare-and-set against concurrent probes |
| Adapter semaphore | a permit per adapter, its queue | wait, abort, release | an abort between the release and the resumption |
| Daily research (`daily-research.ts`, migrations 16 to 18) | `research_runs` | plan, publish, fan out, digest | a plan published once, fan-out repeated after crashes, writes outside the job's lease |
| Planner, rules, scoring (`packages/research-engine`) | none | select, evaluate, score | remainders, ties, missing numbers |
| CSV import | import run, raw rows, candidates | five phases | attempts that overlap; resumption by deterministic ids |
| Notifications, digest | `notifications` | record, send, mark | two senders of one row |
| Login guard, sessions | throttle, leases, `admin_sessions`, cookies | try, compare, log in, log out | windows that are not aligned; requests under way while a session ends |
| Sandbox (`ops/subscription-providers`, `systemd-subscription-*.ts`) | a systemd unit, its directories and files | start, hand over, wait, clean up, collect orphans | four parties, each of which may stop at any moment |
| Secret store, API client, client output, rendering | files, text | I/O | outside a model's reach |

How they interact: the web application and the daily timer enqueue jobs; the
worker claims them; handlers call the SQL functions of their component, enqueue
further jobs under idempotency keys, and save checkpoints.  Only two things tie
a component to the queue: a job that is claimed again must be able to go on, and
writes that need an owner name the attempt (`jobs.attempts`, "epoch") that makes
them.

What makes each component correct:

- queue: a settled job stays settled, each claim is a new attempt, no attempt
  writes after another one took over, every job is settled in the end;
- paid calls: the day's budget is never exceeded, nothing is paid without a
  reservation, every completed claim is on the books;
- candidate jobs: a candidate without its evidence has a job that will go on;
- normalization: a provider is consumed at most once per analysis, one answer
  decides, none is lost;
- daily research: one plan per run, every planned candidate is fanned out before
  the run is complete, saved progress is never lost, a completed job means a
  completed run;
- import, notifications: what is shown as completed is complete, what is marked
  as delivered was told;
- router, planner, scoring, business evidence: the functions mean what their
  declarative definitions say;
- administration: no limit is exceeded, a revoked session is shut out, no stale
  read or write of a provider's settings or state takes effect;
- calls and invocations: they end, and leave no permit, process or directory.

## Modules

### JobLifecycle, JobQueue, JobQueueProofs

`JobLifecycle` is what the queue promises to those who enqueue: a status and a
number of attempts per job, changed by taking a batch, putting a job back,
finishing it or giving jobs up.  `JobQueue` is the table, its SQL functions, the
worker loop and `runJob`, and implements it (`ImplementsLifecycle`).  The modules
of the daily job, of the normalization jobs and of the import job each have their own,
coarser view of a job, and implement `JobLifecycle` too: what they assume of the queue
is no more than what it promises, a job that is taken again while the former attempt
still goes on included.

- `jobs[j]` is a row; `lease` and `available` are the comparisons of
  `leased_until` and `available_at` with the clock, so time passing is the
  actions `LeaseExpires` and `BecomeAvailable`.  A checkpoint is abstracted to
  the attempt that last advanced it.
- `runs[w][j]` is an invocation of `runJob`, with the local variable
  `checkpoint` and `heartbeatFailure`.  `calls` are the calls on their way to
  the database.  `Deliver` executes one and hands the answer to the run that
  waits for it, `TransportError` gives the run an error while the call may be
  lost or arrive later, and `Crash` leaves any of a process's calls behind.
  What nobody waits for is bounded by `MaxOrphans`.
- `research` is the status of a daily job's research run (`active` stands for
  the statuses queued to waiting).  `AdvanceResearch` writes it without a look at
  the job's lease, as `advance_daily_research_checkpoint` does, so a run that
  asked for attention can come back to life.
- `Start`, `Terminalize`, `Claim`, `BatchDone` and `Exit` are `runWorkerLoop`.
  `Claim` does not look at the stop signal, as the code does not.

Properties: `EpochsFence` (attempt numbers are fencing tokens, also across
restarts under one name), `ReportedIsCompleted` (what is logged as completed is
completed, by that attempt, for good), `OnlyHolderCheckpoints` (no late write of
an earlier attempt), `ImplementsLifecycle`, `EventuallySettled`.

### ApiCalls, ApiCallsProofs

One paid call per owner (job attempt) from `claim_api_call` to
`complete_api_call_claim`, for owners that use `executeBudgetedApiCall` and for
those on the inline path of `runMarketProbe` (`Probing`), which stages another
envelope and inserts usage past the claim.  A response is the owner that fetched
it, a generation is what lies between two blank claims of a key.  Every write is
an action of its own, because the code makes them in separate requests; `Abort`
ends an attempt between any two.  That an owner names one attempt is what
`EpochsFence` shows of the queue.  A job that makes several calls, one after the
other on different keys, counts as several owners.  `LedgerExact` is what the
books are for: one row of usage per call on the claim's path, a completed claim
has its row and its cached response, and a staged response is one of the
generation it is staged in.  It asks for at most one row and does not look at what the row
says: the row of an owner whose call failed for good serves for the owner that takes over
and succeeds ("Seen on the way").

### Continuation, ContinuationProofs

One candidate, the claim on its cache key, and the jobs that take turns with it.
`Windowed` selects the market probe, whose resume jobs are keyed by the window of
the claim they wait for, or the other two, whose resume jobs have one key.
`Mishap` bounds what goes wrong: failed attempts, claims by other candidates,
claims that lapse under their owner.  Left out: the attempt limit of the queue, and the
gap between `claim_api_call` and `authorize_owned_api_call` (a claim that lapses
there makes the job end without a resume; it is listed among the hazards).

### FanOut, DailyResearch, DailyResearchProofs

`FanOut` is what daily research promises for a run: one plan, all of its
candidates handed to the queue and no others, complete only after that, reported
only when complete.  `DailyResearch` is the `research_runs` row, its job, and
every attempt at the job that may still be at work, and implements it
(`ImplementsFanOut`).

- `rows[r]` is the run, with the published plan and the checkpoint;
  `jobs[r]` the job as `JobLifecycle` describes it (`ImplementsLifecycle` checks
  that, and `JobQueue` implements the same module, so the two fit together: a
  job may be taken again while the former attempt goes on).
- `work[r][a]` is attempt `a` with its local copies.  None of its writes to the
  run names a lease: `publish_daily_research_plan` compares the row with an
  unpublished one, `advance_daily_research_checkpoint` compares the number of
  candidates done.  `Throw` stands for a failing call (also after its effect), a lost
  reply, and a crash.
- A plan is any sequence of candidates, repetitions included: the pages it is
  selected from are read one after the other.  `handled` says that the code that
  decides which jobs a candidate needs ran; what it decides is `ResearchNeeds`.
- `InsertScheduled` and `EnqueueScheduled` are two requests, `EnqueueManual` is
  one transaction.

Properties: `ImplementsFanOut`, `ProgressIsPrefix` (comparing lengths is enough,
because all progress is a first part of the same plan), `NoRegression`,
`JobDoneRunDone` (relates the queue's row to the run's), `ResearchNowAvailable`
(does not hold).

### CandidateScreening, Normalization, NormalizationProofs

`CandidateScreening` is what normalization promises for a candidate, with no job, lease,
ledger or run in it: providers are consumed one by one and each at most once, one of
them gives the one answer of a generation, and the candidate is decided by that answer,
or deferred when there is none.  `Normalization` implements it (`ImplementsScreening`).

One candidate and, for each of its normalization generations, the job, the
analysis, the ledger of provider attempts, and every attempt at the job that may
still be at work.  `Reply` gives a run the answer to a call the database
executed, or an exception; `CallFails` is a call without effect (lost, rejected by
its fence, or aborted).  The health, settings and credentials of providers decide
which of them the router offers: here any of its pool, or none.  `executed`
records attempts whose provider may have been consumed, and includes those that
were aborted just before.  Retry delays and the time-outs of providers are left out.

### Research: Import, CandidateResearch, Notifications, the pure parts, ResearchProofs

`Research` puts four parts side by side that share no state: a behaviour is one of
one part, while the others rest in an initial state.  So one run checks them all,
and its states are the sum of theirs and not the product.

- `Import`: the uploads of one submission (its hash is the key of run and job), each
  in its own browser window, and the attempts at the job.  An upload finds or inserts
  the run, stores files, records them, enqueues.  An attempt writes one table after
  the other, with a checkpoint between; all identifiers are derived from run and
  row, so a table is there or not.  Attempts may overlap, stop anywhere, and mark the
  run as failed although another one goes on.  The job implements `JobLifecycle`
  (`ImplementsLifecycle`, proved and not among the properties of the run).
- `CandidateResearch`: versions of the business evidence, and the jobs whose keys
  name the version that asked for them.  An attempt reads the latest version when it
  begins, not the one it was enqueued for (`EvidenceRead`); `HoldBlocks` says
  that this is what decides about money.  What the decision, the follow-ups and the
  notification of each kind of job are is part of it.
- `Notifications`: rows with their status, senders that deliver one at once, digests
  that tell all that are pending in one message, replies of Telegram that are lost.
- `ResearchCases` asks the pure parts, one question per behaviour, and compares the
  answer with a definition that does not use their steps: `Opportunity` (files, rows,
  duplicates, rules, preliminary score), `ResearchPlan` (quotas by largest
  remainder, then what is left), `ResearchNeeds` (what a candidate is missing, how it
  enters the plan, which jobs it gets), `Routing` (`routeAiRequest`, also as the
  chain of fallbacks the coordinator makes of it), `MarketEvidence` (families,
  micro-niches, price segments, metrics, verdicts, the deeper endpoints) and
  `ResearchBusiness` (forms, assessment, admission).  The comparisons are `ScoresSound` (score and screening of a
  row), `ChoicesSound` (needs and routes), `BusinessSound`, and `TalliesSound` (rows, plans
  and markets: nothing is lost or counted twice).  Whether csv-parse leaves the empty lines
  it skips in the raw text of the record after them, its source would tell and the
  repository does not: the files asked do either (`leading`), and a row is at the line at
  which its raw text begins.  Real numbers are scaled to
  integers; where floating-point remainders may tie, both orders are allowed
  (`Quotas`).

### Administration: LoginGuard, AdminSession, HttpProvider, SubscriptionRuntime, AdministrationProofs

Composed as `Research` is.

- `LoginGuard`: attempts of clients under two counters, whose windows begin when an
  attempt finds the former one over, so they are not aligned; the lease under which one
  password is compared at a time, and may run out; the second factor and trusted
  devices.  `LoginsBounded` bounds what one client takes of a shared window by
  less than two of its own.
- `AdminSession`: the tabs of a browser share its cookies; a request reads its cookie,
  and only later the row of its session is looked up.  The proxy looks at the
  signature alone.
- `HttpProvider`: a provider's row and its secret, administrators who save from windows
  opened at an earlier revision, a connection test, the worker's cached catalog, and
  a call that reads the settings again.  `SettingsTogether` and `ListedWasTested` relate
  what is used to the revision it was saved in.  The catalog asks for rows and secrets at
  once, so that either may be read first.  Saves name the revision they were opened at, as
  the form does; the route and the SQL also take none, which compares nothing
  (`route.ts:74`, `202608270012:34`), and no client of the repository does that.  Calls
  other than the routed one (`health()` of an endpoint that lists its models, the test)
  may send a row and a key of two revisions; `SettingsTogether` is about the routed call.
- `SubscriptionRuntime`: acceptance, activation, probes, failures and fences; every
  mutation compares the auth generation and, for a probe, the probe's generation.  A
  passing failure makes the state `ready` without a look at the former one; the table
  refuses that to a row without a lease (`Postponed`).  That a `capability_failure` also
  disables the model is not a variable: the row's missing capability says as much.

### Endings: AdapterSemaphore, ProviderCall, Sandbox, a job of JobQueue, EndingsProofs

Composed as `Research` is, with the fairness of the part that goes on.

- `AdapterSemaphore`: `withPermit` with its queue; a waiter that was given the permit runs
  on only after the event loop comes to it, and may be aborted before.
- `ProviderCall`: `runWithSchema` with one repair, the HTTP requests with their retries,
  each of which resolves the name anew, or the child process with its time-out, output
  limit, SIGTERM and SIGKILL.
- `Sandbox`: the worker's view of an invocation (`systemctl show`, files), the unit with
  its scripts, the supervisor, and the timer that collects orphans.  Any `systemctl` may
  fail with or without its effect: a start (`outcome` is then `unstarted`, and the code
  cleans up nothing, since `startRequested` is not set), a stop or a kill of the cleanup
  (`CleanupFails`).  Whoever dies, the unit ends and its directory goes (`InvocationEnds`,
  after an unconfirmed start too); what was returned or thrown after a confirmed start,
  short of a failed cleanup, leaves nothing (`NothingLeft`).  After an unconfirmed start it
  may leave a unit at work: see "Seen on the way".

A request of `ProviderCall` ends in an answer (`Answered`) or in no connection to the
pinned address, which is tried again and is no post.

## Runs

| Run | Instance | Question |
|---|---|---|
| queue_fencing | 2 workers, 1 daily job, 2 attempts, 1 orphan call | do leases and epochs fence every write, and is the lifecycle kept? |
| endings | 1 job with 2 attempts, 3 callers of a permit, 2 retries and 2 changes of the name server's answer, 1 invocation | does everything end, and leave nothing? |
| api_budget | 3 owners, 2 keys, limit 2 with reserve 1, 2 days, 2 generations | budget and books |
| api_payment | the same | are duplicate payments excluded? (no) |
| continuation_probe | 2 mishaps, 7 windows, 3 days | does a refused market probe always have a successor, and is the evidence obtained? |
| continuation_deep | 2 mishaps | the same for deep validation and enrichment (no) |
| normalization_safety | 3 providers (1 paid primary), limit 2, 2 attempts, 1 rearm | one consumption per provider, one winner, no answer lost; are job and screening what their abstract modules say? |
| normalization_rearm | the same | does a rearmed job do any work? (no) |
| daily_research | 1 run, 2 candidates, plans up to 3, 3 attempts | one plan, complete fan-out, no lost progress |
| research_now | 1 candidate, 2 attempts | does an active manual run have somebody at work? (no) |
| administration | 2 clients with windows of 2 attempts over 6 ticks, 2 tabs and 3 sessions, 2 administrators, 2 keys and 3 revisions, 2 probes at a time of 3 | do limits hold, and does nothing stale take effect? |
| research | 2 uploads, 2 runs and 2 attempts; 2 versions of the evidence; 2 senders and 2 digests; some 40,000 questions | is what is completed, delivered, planned and paid for what it is said to be? |

Why these bounds are enough.  A fence is about one attempt and the next, so two
workers, two attempts and one late call already give every pair of roles (old
and new owner, same or other name, call in time or late).  With the limit of
two attempts the second is the last, so both branches of `fail_job` and
terminalization occur.  The budget of two with one
reserved unit makes both ceilings binding for three owners.  Two claim
generations and two days separate what is kept from what is reset.  A provider limit
of 2 (3 in the code) with three providers makes the limit binding; two
attempts at a job give the overlap of an old and a new run, and every crash point
between them.  A variant with three attempts and no rearm was also explored
without error.  Three attempts at a daily job are an old one, the one that took over
and a third whose completion both may adopt; a plan of three over two candidates
has prefixes of every kind and repetitions; runs do not interact, but for the
start of a manual run.  A shared login window of the length of a client's own meets two
of them at most, and six ticks hold three.  Three sessions are one that is revoked, the one
that replaces it and the one another tab gets; three revisions are the one that is cached,
the one that is tested and the one that is saved over both.  Three callers are a holder, a
waiter that is aborted and one behind it.  A version of the evidence that admits everything
and one that admits nothing are what a hold and its end are made of.  The questions are the
boundaries of each rule (prices 14, 15, 24, 25, ..., ages of just a lifetime, plans of up to
five slots from up to three candidates of each bucket), with equal and missing values.
Permuting workers, keys, or providers without payment is sound, because no
property distinguishes them; runs that check liveness use no symmetry.
Deadlock is checked for the queue; the other modules end when their owners, days,
attempts or questions are used up.

Four runs are expected to find a violation; each is a disagreement between
the code and a document or test, quoted in `PROJECT.json`: a response may be
paid for twice when a crash separates the answer from its staging; the resume
job of deep validation and enrichment can end a candidate's research; a rearmed
candidate is not normalized, because its state is not changed back; a daily job that fails for
good leaves its manual run active, so that Research Now starts nothing more that
day.

## Fairness

`FairSpec` of `JobQueue` assumes what the deployment gives: time passes (leases
that no run holds end, delays end), systemd restarts the worker
(`Restart=always`), handlers end, and each awaited call gets an answer or an
error.  `Terminalize`, `Claim` and the end of a handler get strong fairness,
since a process that is killed again and again disables them again and again;
the assumption is that it sometimes gets through.  Nothing is assumed about
heartbeats or late calls.  `FairSpec` of `Continuation` assumes that some
job that can go on does, claims end and days pass; the number of mishaps is bounded.

`Fairness` of `Endings` is that of the part that goes on.  `AdapterSemaphore`: the event
loop resumes who was given the permit, and who holds it gives it back (callers end, by
`ProviderCall`).  `ProviderCall`: requests and name resolution have time-outs (once the
headers are there, ky's time-out is over, and that the body ends rests on undici's own
time-out between two pieces of it), the timers fire, and the kernel ends a process after SIGKILL, not after SIGTERM.  `Sandbox`: systemd
goes on with its units and their time-outs, the timer for orphans fires, and a worker that
has not died goes on; nothing is assumed about the supervisor or the client.  All of it
is weak fairness.  The bounded number of time-outs and changes is in the
guards, not in the fairness.

## Proofs

`JobQueueProofs` proves, for every set of jobs and workers, every number of
attempts, claim limit and number of orphans, assuming only `QueueAssumption`:

- `TypeCorrect`: `Spec => []TypeOK`.  Inductive as it stands; it contains the
  fact that a row is never claimed more often than `MaxAttempts`.
- `ReportsHold`: `Spec => []ReportedIsCompleted`.  A completed row satisfies no
  fence and is not eligible, so it never changes again; a report is only made by
  a call that passed the fence with its own epoch.
- `Fencing`: `Spec => []EpochsFence`, inductive together with the types: a claim
  raises `attempts` above the epoch of every run, so an epoch has one owner over runs
  and row together.
- `CheckpointsFenced`: `Spec => []OnlyHolderCheckpoints`.  `CheckpointInv` says that
  what the attempt that holds a job knows of its checkpoint, and what its calls
  carry, is what it found or its own work, and that the calls of earlier attempts
  have an earlier epoch, so they pass no fence whenever they arrive.
- `Refinement`: `Spec => Lifecycle!Spec`.  Each action maps to a step of
  `JobLifecycle` or to a stutter; `Claim` and `Terminalize` map to a batch,
  `Deliver` to the effect of the call if it passes the fence.

`ApiCallsProofs` proves, for any owners, keys, days, generations and limits,
assuming only `ApiAssumption`:

- `TypeCorrect`: `Spec => []TypeOK`, inductive as it stands.
- `OneCharge`, `BudgetRespected`, `PaymentsCharged`: `Spec => []ChargedOnce`,
  `[]BudgetHeld`, `[]PaidIsCharged`.  They are inductive only together with
  `BooksInv`: the owner of a claim row is the call that claimed it, in the row's
  generation, a row says `reserved` exactly when its generation was charged, no charge is
  ahead of its row, and a call that is past its authorization has its charge.  That a
  takeover keeps `reserved` and a new generation clears it (`ClaimedRow`) is
  what excludes a second charge; the counters are then counted against the
  charges with the cardinality facts of `FiniteSetTheorems`.  `Quiet` collects
  the steps that touch neither budget nor ownership.
- `LedgerStaysExact`: `Spec => []LedgerExact`, from `LedgerInv`: the row of the usage
  ledger, the flag on the claim and the place its owner has reached go together, and
  whoever completes has both accounted and cached.  Of a response in a call's hands it
  promises the generation only for a call that is about to stage it: one that was
  recovered may be of a younger generation than that of a call which lost its claim.

`DailyResearchProofs` proves, for any runs, candidates, slots and attempts,
assuming only `DailyAssumption` (the set of candidates is finite):

- `TypeCorrect`: `Spec => []TypeOK`, inductive as it stands.
- `JobDone`, `Prefixes`: `Spec => []JobDoneRunDone`, `[]ProgressIsPrefix`, from
  `FanOutInv`.  It says of a row that plan and checkpoint come together
  (`RowInv`), of an attempt that it has either loaded nothing or the plan that was
  published, that what it counts as done is a first part of that plan and was
  enqueued, that it reports only on a completed run, and that the queue counted it
  (`WorkInv`), and of the output that nothing is enqueued outside the plan
  (`OutputInv`).  Every step makes a run grow (`Grows`), so what it says of the
  attempts that do not move stays true.
- `NothingLost`: `Spec => NoRegression`.  Of two first parts of one plan the one
  with at least as many candidates contains the other (`LongerContains`), which
  is why comparing lengths is enough.
- `Refinement`: `Spec => ImplementsFanOut`.  Starting, taking, reading, saving and
  failing are stutters; publishing, enqueuing, completing and reporting are the
  steps of `FanOut`, or stutters when they were late.
- `JobRefinement`: `Spec => ImplementsLifecycle`, with `JobHasRow` (no job without
  its run), so that a job that exists is never enqueued anew.

`NormalizationProofs` proves, for any providers, provider limit, attempts and rearms,
assuming only `NormalizationAssumption`:

- `TypesStay`: `Spec => []TypeOK`, a part of `NormalizationInv`.
- `ExecutedOnlyOnce`, `WinnerDecides`, `AnswersStay`: `Spec => []ExecutedOnce`,
  `[]DecidedByWinner`, `[]AnswerKept`; and `OutcomesAreFinal`: `Spec => OutcomeFinal`,
  all from `NormalizationInv`.  Of each generation it says that its ledger is in order
  (`Orderly`: only the last start may be without an outcome, a provider is started
  again only at once, after it was not consumed, and one time, and no more providers
  start than `ProviderLimit`), that each start has one run (`OwnStart`), that whatever
  was consumed has its start on record (`ConsumedInv`), and what a run knows of its
  start (`RunInv`).  Of the answer it says that the one on record was given by a
  provider, is pending or has won, and belongs to the current generation (`AnswerInv`,
  `OwnerInv`), and that the run that holds the job does not overlook it (`HolderInv`).
  Little of this is visible in the properties: a second run takes over with nothing but
  the ledger, so that the ledger is ahead of what was consumed is the whole argument.
  The limit is a count of providers in the ledger (`FS_Injection`).
- `JobRefinement`: `Spec => ImplementsLifecycle`.  `BegunInv` adds that a generation that
  has not begun has no job and nobody at work on it, so that a job is enqueued once.
- `ScreeningRefinement`: `Spec => ImplementsScreening`.  Executing a provider maps to
  `Consume`, the append of a success to `Answer`, and deciding, deferring and rearming
  to themselves; claims, starts, failures, finalizations and crashes are not seen.
  That nothing is given up that was answered (`Defer`) and that a provider
  is not consumed a second time by a run that took over come from `NormalizationInv`.
- `Refinements`: both at once, `Spec => ImplementsBoth`, which the run checks.

`AdministrationProofs` proves, for any clients, limits, windows, tabs, sessions,
administrators, keys, revisions, probes and generations, assuming only
`AdministrationAssumption`:

- `TypesStay`: `Spec => []TypeOK`.
- `LoginsStayBounded`: `Spec => []LoginsBounded`.  `GuardInv` counts what a client spent
  of a shared window against the two of its own that can meet it (`SpentOfWindows`), and
  ties a comparison under way to the lease it was begun under (`ComparesLocked`).
- `RevokedStaysShut`: `Spec => []RevokedIsShut`.  A request that began after its session
  was revoked is of one that has no row, and never will have one again (`RequestInv`).
- `SettingsStayTogether`, `ListedStaysTested`: `Spec => []SettingsTogether`,
  `[]ListedWasTested`.  Forms, tests and calls hold copies of some
  revision; `HttpInv` says that whoever holds the current revision holds the current
  configuration and key, which is what comparing revisions at the end relies on
  (`FormInv`, `ReaderInv`), and that the evidence of a manual model is that of its
  endpoint (`ProbeInv`).
- `ReadinessStaysProved`: `Spec => []ReadinessIsProved`.  A fence takes a generation of
  probes, so evidence of the generation on record was collected since the last one
  (`RuntimeInv`, `ProbeRunInv`).

`ResearchProofs` proves, for any uploads, runs, attempts, versions, senders and digests,
assuming only `ResearchAssumption`, of the parts that keep state:

- `TypesStay`: `Spec => []TypeOK`.
- `ImportsAreWhole`: `Spec => []CompletedIsWhole`.  An attempt that writes one table has
  those before it written, one that completes has all, and no row is ever taken away, so
  an attempt that was overtaken completes nothing that is not whole (`CsvInv`).
- `HoldsBlock`: `Spec => []HoldBlocks` (`PaidInv` adds that the
  version an attempt began with is on record; versions are only appended, so it stays the
  one whose admission the attempt passed).
- `DeliveredStaysTold`: `Spec => []DeliveredWasTold`.  Whatever a sender or a digest is
  about to mark was accepted by the channel (`NotesInv`).
- `JobRefinement`: `Spec => ImplementsLifecycle`, for the job of an import.

and of the pure parts, for what the run asks and for every other input of the kind:

- `ScoresAreSound`: `Spec => []ScoresSound`, by three theorems about any row.  A score is a
  percentage (`ScoreIsPercentage`: the sum over the components is expanded once, in
  `SumOfSix`); score and rules agree about prices (`FitMeetsRules`); a candidate is
  screened exactly if price, seasonality and keyword are clean (`ScreenedIfClean`), where
  a term of a lexicon matches if its words stand next to each other.
- `BusinessIsSound`: `Spec => []BusinessSound`, by theorems about any amounts, settings and
  times.  A purchase is looked at only with nothing missing (`ReviewMissesNothing`), and
  is looked at if nothing is missing (`NothingMissingIsReviewed`); what is paid for may
  help (`PaidForWhatMayHelp`).  The assessment adds up costs with a fold: that the fold
  over any finite set is the sum, in whatever order, is shown by a smallest set for
  which it is not, with the well-founded order on subsets in place of an induction.
- `ChoicesAreSound`: `Spec => []ChoicesSound`, by theorems about any evidence rows and any
  catalog.  The jobs of a candidate ask for what is missing and nothing else
  (`JobsAskWhatIsMissing`), and no slot of a plan is wasted: a candidate that was planned
  gets jobs also when its turn comes later (`PlannedGetsJobs`, since evidence only gets
  older).  A request is deferred exactly if no model may serve it, goes to one before
  which no other ranks, and a Saver pays only when it must (`RouteServes`: a finite
  catalog has a first model because its ranking is a total preorder); excluding others
  does not move it, and it never comes back to a provider it went on from
  (`GoingOnIsSteady`).

`CasesInv` links them to the behaviours: an answer on record is one to its question.

`EndingsProofs` proves, for any callers, retries and changes of the name server, assuming only `EndingsAssumption`, of `Spec` and so of its fair form:

- `CallsStayInBounds`: `Spec => []CallsInBounds`.  `CallInv` counts the requests of the
  earlier raw call and those of the present one against the retries (`RequestsCounted`),
  and says that a request under way goes to an address of the configured scope that was
  resolved for it (`ConnectsWithinScope`).
- `NothingStaysBehind`: `Spec => []NothingLeft`, of invocations whose start was confirmed
  or never asked for; of an unconfirmed one it would be false.  For the permit: who waits is in the
  queue, once, and a permit is free, held, or given to one waiter (`PermitInv`, with two
  lemmas about taking the first occurrence out of a sequence).  For an invocation: the
  checks of the cleanup come in an order in which each stays true when the next is made
  (`CleanedSoFar`), and an invocation that did not begin has left nothing (`NotBegun`).

`ContinuationProofs` proves, for any number of days and mishaps, assuming
`ContinuationAssumption`, windowed keys, and that every number is a window:

- `ProbeGoesOn`: `Windowed = TRUE` and `Windows = Nat` give `Spec => []NotLost`.  The
  invariant names who carries the research on (`GoesOn`): a job that waits, one that has
  not met its refusal, or one that is about to enqueue a job that does not exist.  It is
  inductive because a job that waits for the present window is not over
  (`WaitsForWindow`) and one that waits for another day has not begun (`WaitsForDay`).
  Without windowed keys that fails, and `continuation_deep` shows how.  The runs give
  `Windows` as many values as two mishaps can use; a window beyond them would have no key,
  and TLC would stop with an error.

Only model-checked:

- liveness under fairness (`EventuallySettled`, `CallsEnd`, `EventuallyValidated`), which is
  out of the prover's reach, as ENABLED is;
- `TalliesSound`: rows, plans and markets.  It is about what folds over sequences
  compute for every file, quota or market (`SelectSeq`, `FlattenSeq`, `SetToSortSeq`,
  recursive functions of a length), which takes induction over data; what it shows is
  shown for the inputs asked.

The types of `Research` and `Administration` are proved (`TypesStay`) and not among the
properties of their runs.

## Seen on the way

Two disagreements with a plan that the models contain and that have no run of their own.
The code sets `startRequested` only after `startNoBlock` has returned, and cleans up only if
it is set (`systemd-subscription-sandbox.ts:109`, `:159`): when systemd took the start and
`systemctl` failed, was killed or ran out of time before it said so, the invocation is
rejected while its unit is queued or starting, and only the unit's time-outs and the timer
for orphans end it.  The plan (`2026-08-29-subscription-ai-providers-implementation.md:314`)
says that a start failure "publishes nothing and verifies absence"; its test
(`systemd-subscription-sandbox.test.ts:292`) uses a controller that starts nothing.  TLC
finds the unit at once as a counterexample to `outcome = "unstarted" => Gone` at the end of
an invocation.  And the usage row of a call that failed for good marks the claim: when it
lapses and the next owner pays under the same reservation, `record_paid_api_usage` adds no
row (`202608270015:128`), although the plan (`2026-08-26-03-jungle-scout-validation.md:124`)
says that "each actual HTTP request is counted".

Behaviour the models contain and no property forbids, because no document of the
repository promises otherwise.  A submission whose job has failed for good gets, when uploaded
again, a new run that no job works on, since the key is taken (`enqueue-import.ts:112`); an attempt at an import that was
overtaken marks the completed run as failed (`import-opportunity-csv.ts:429`).  A digest that
fails overwrites `delivered` (`send-digest.ts:82`), and a crash between sending and marking
sends twice.  When the reply to a checkpoint is lost, the `failJob` of the same attempt writes
the older one over it (`main.ts:171`), and the next attempt repeats what was done since.  The catalog's re-read takes settings that were not tested
(`provider-catalog.ts:595`).  The orphan timer looks at invocation directories only, so an
approved request whose invocation is gone stays.  A probe's evidence is provisional, so
its verdict is never better than `Needs Review`.  The share of a bucket is decided by a
floating-point remainder when two are equal.  A call that meets a claim which lapses between
`claim_api_call` and `authorize_owned_api_call` ends its job without a resume.

## Plan

1. Done: all modules above; proofs of every invariant and action property the passing
   runs check, but for rows, plans and markets, and of all refinements.
2. Proofs: for rows, plans and markets, the parts that need no induction (the verdict of a
   market, which endpoints it asks for).
3. `Continuation` joined with `ApiCalls`, to have the lapse between claim and
   authorization; liveness of `Normalization`.

## Not modelled

The database types and translations (generated code and text), the pages and their
components, research settings (single writes), the installation scripts and probe scripts,
the parsing of what Jungle Scout and the clients answer, encryption and the secret store, the
in-memory budget that only tests use, test harnesses.  They hold no state that is shared or
outlives a call, or are input and output that the models replace by "answers or fails".
