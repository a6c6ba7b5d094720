------------------------------ MODULE ApiCalls ------------------------------
(***************************************************************************)
(* Budgeted calls of the paid market API: the claim a job attempt takes on *)
(* a cache key before it pays for a response, the daily budget it charges, *)
(* the response staged on the claim, the cache, and the usage ledger.      *)
(*                                                                         *)
(* An owner is one job attempt ("job:<id>:<attempts>") and makes one call. *)
(* A response is abstracted to the owner that fetched it.  Claims of a key *)
(* come in generations: completing one makes the next claim a new one.     *)
(***************************************************************************)
EXTENDS Naturals, FiniteSets

CONSTANTS Owner,          \* job attempts
          NoOwner,        \* null
          Normal,         \* owners whose purpose is normal_validation
          Probing,        \* owners running the inline path of runMarketProbe
          Key,            \* cache keys
          DailyLimit,     \* api_budget_daily.daily_limit
          ReservedLimit,  \* api_budget_daily.reserved_limit
          LastDay,        \* bound: business days 1..LastDay
          MaxGeneration   \* bound: claim generations of a key

ASSUME ApiAssumption ==
    /\ NoOwner \notin Owner
    /\ Normal \subseteq Owner /\ Probing \subseteq Owner
    /\ DailyLimit \in Nat /\ ReservedLimit \in 0..DailyLimit
    /\ LastDay \in Nat \ {0}
    /\ MaxGeneration \in Nat

VARIABLES
    claims,        \* api_call_claims: one row per key
    cache,         \* api_cache: one row per key
    used,          \* used_count of each day
    reservedUsed,  \* reserved_used_count of each day
    day,           \* the business date
    calls,         \* what each owner's call is doing
    charges,       \* history: budget units charged
    paid,          \* history: responses the provider was paid for
    usage          \* api_usage, each row with the generation it is about

vars == <<claims, cache, used, reservedUsed, day, calls, charges, paid, usage>>
budgetVars == <<used, reservedUsed, charges>>

-----------------------------------------------------------------------------
Generation == 0..MaxGeneration
Day == 1..LastDay
Response == Owner \cup {NoOwner}

ClaimRow == [owner      : Owner \cup {NoOwner},  \* NoOwner: there is no row
             live       : BOOLEAN,               \* claimed_until > now()
             completed  : BOOLEAN,               \* completed_at is not null
             reserved   : BOOLEAN,
             staged     : Response,              \* staged_response
             recorded   : BOOLEAN,               \* usage_persisted
             generation : Generation]            \* history

CacheRow == [response : Response, fresh : BOOLEAN]

Pc == {"idle", "claimed", "reading", "fetching", "staging", "publishing",
       "recording", "completing", "reporting", "cached", "done"}

CallState == [pc : Pc, key : Key, generation : Generation, response : Response]

Charge == [day : Day, key : Key, generation : Generation, owner : Owner]
Payment == [key : Key, generation : Generation, owner : Owner]
UsageRow == [key : Key, generation : Generation, owner : Owner, success : BOOLEAN]

TypeOK == /\ claims \in [Key -> ClaimRow]
          /\ cache \in [Key -> CacheRow]
          /\ used \in [Day -> Nat]
          /\ reservedUsed \in [Day -> Nat]
          /\ day \in Day
          /\ calls \in [Owner -> CallState]
          /\ charges \subseteq Charge
          /\ paid \subseteq Payment
          /\ usage \subseteq UsageRow

NoClaim == [owner |-> NoOwner, live |-> FALSE, completed |-> FALSE,
            reserved |-> FALSE, staged |-> NoOwner, recorded |-> FALSE,
            generation |-> 0]

Init == /\ claims = [k \in Key |-> NoClaim]
        /\ cache = [k \in Key |-> [response |-> NoOwner, fresh |-> FALSE]]
        /\ used = [d \in Day |-> 0]
        /\ reservedUsed = [d \in Day |-> 0]
        /\ day = 1
        /\ \E k \in Key : calls = [o \in Owner |->
             [pc |-> "idle", key |-> k, generation |-> 0, response |-> NoOwner]]
        /\ charges = {}
        /\ paid = {}
        /\ usage = {}

-----------------------------------------------------------------------------
(***************************************************************************)
(* Time.                                                                   *)
(***************************************************************************)

\* claimed_until passes.
ClaimExpires(k) ==
    /\ claims[k].live
    /\ claims' = [claims EXCEPT ![k].live = FALSE]
    /\ UNCHANGED <<cache, budgetVars, day, calls, paid, usage>>

\* expires_at of the cache row passes.
CacheExpires(k) ==
    /\ cache[k].fresh
    /\ cache' = [cache EXCEPT ![k].fresh = FALSE]
    /\ UNCHANGED <<claims, budgetVars, day, calls, paid, usage>>

\* Midnight in Chicago.
NextDay ==
    /\ day < LastDay
    /\ day' = day + 1
    /\ UNCHANGED <<claims, cache, budgetVars, calls, paid, usage>>

-----------------------------------------------------------------------------
(***************************************************************************)
(* The SQL functions.                                                      *)
(***************************************************************************)
Unfinished(k) == claims[k].owner # NoOwner /\ ~claims[k].completed

\* The claim functions that write look for a row of this owner that is live
\* and not completed.
Owns(o, k) == claims[k].owner = o /\ ~claims[k].completed /\ claims[k].live

\* Served from the cache, unless a response is staged that no completed call
\* has accounted for yet.
Served(k) == cache[k].fresh /\ ~(Unfinished(k) /\ claims[k].staged # NoOwner)

\* A bug for the mutants: every takeover counts as a new generation.
ClaimedAnew(c, o) ==
    [NoClaim EXCEPT !.owner = o, !.live = TRUE, !.generation = c.generation + 1]

\* A bug for the mutants: a takeover starts with no reservation.
ClaimedForgetful(c, o) ==
    [c EXCEPT !.owner = o, !.live = TRUE, !.completed = FALSE, !.reserved = FALSE,
              !.staged = NoOwner, !.recorded = FALSE,
              !.generation = IF c.owner = NoOwner \/ c.completed THEN @ + 1 ELSE @]

\* A bug for the mutants: what a completed claim left behind is inherited.
ClaimedInheriting(c, o) ==
    [c EXCEPT !.owner = o, !.live = TRUE, !.completed = FALSE,
              !.generation = IF c.owner = NoOwner \/ c.completed THEN @ + 1 ELSE @]

\* The row after claim_api_call gives it to o: a new generation starts blank,
\* the takeover of an unfinished one keeps what the former owner achieved.
Claimed(c, o) ==
    IF c.owner = NoOwner \/ c.completed
    THEN [NoClaim EXCEPT !.owner = o, !.live = TRUE, !.generation = c.generation + 1]
    ELSE [c EXCEPT !.owner = o, !.live = TRUE]

\* A bug for the mutants: normal calls may use the reserve.
CeilingIgnoresReserve(o) == DailyLimit

\* What a call may use of a day's budget.
Ceiling(o) == IF o \in Normal THEN DailyLimit - ReservedLimit ELSE DailyLimit

\* How much of n used calls came out of the reserve.
FromReserve(n) ==
    IF n > DailyLimit - ReservedLimit THEN n - (DailyLimit - ReservedLimit) ELSE 0

\* claim_api_call, the first half of PostgresApiBudget.authorize.
ClaimCall(o, k) ==
    /\ calls[o].pc = "idle"
    /\ IF Served(k)
       THEN /\ calls' = [calls EXCEPT ![o] = [@ EXCEPT !.pc = "cached", !.key = k]]
            /\ UNCHANGED claims
       ELSE IF Unfinished(k) /\ claims[k].live
       THEN /\ calls' = [calls EXCEPT ![o] = [@ EXCEPT !.pc = "done", !.key = k]]
            /\ UNCHANGED claims
       ELSE /\ Unfinished(k) \/ claims[k].generation < MaxGeneration
            /\ claims' = [claims EXCEPT ![k] = Claimed(@, o)]
            /\ calls' = [calls EXCEPT ![o] =
                           [@ EXCEPT !.pc = "claimed", !.key = k,
                                     !.generation = claims'[k].generation]]
    /\ UNCHANGED <<cache, budgetVars, day, paid, usage>>

Goto(o, pc) == calls' = [calls EXCEPT ![o].pc = pc]

\* authorize_owned_api_call, the second half: a claim charges the budget once.
Authorize(o) ==
    LET k == calls[o].key IN
    /\ calls[o].pc = "claimed"
    /\ \/ /\ ~Owns(o, k)                             \* blocked_policy
          /\ Goto(o, "done")
          /\ UNCHANGED <<claims, budgetVars>>
       \/ /\ Owns(o, k) /\ claims[k].reserved        \* nothing more to pay
          /\ Goto(o, "reading")
          /\ UNCHANGED <<claims, budgetVars>>
       \/ /\ Owns(o, k) /\ ~claims[k].reserved
          /\ cache[k].fresh                          \* cache_hit
          /\ Goto(o, "cached")
          /\ UNCHANGED <<claims, budgetVars>>
       \/ /\ Owns(o, k) /\ ~claims[k].reserved
          /\ ~cache[k].fresh
          /\ used[day] + 1 > Ceiling(o)              \* budget_exhausted
          /\ Goto(o, "done")
          /\ UNCHANGED <<claims, budgetVars>>
       \/ /\ Owns(o, k) /\ ~claims[k].reserved
          /\ ~cache[k].fresh
          /\ used[day] + 1 <= Ceiling(o)             \* authorized
          /\ Goto(o, "reading")
          /\ claims' = [claims EXCEPT ![k].reserved = TRUE]
          /\ used' = [used EXCEPT ![day] = @ + 1]
          /\ reservedUsed' =
               IF o \in Normal THEN reservedUsed
               ELSE [reservedUsed EXCEPT ![day] =
                       @ + (FromReserve(used[day] + 1) - FromReserve(used[day]))]
          /\ charges' = charges \cup
               {[day |-> day, key |-> k, generation |-> calls[o].generation, owner |-> o]}
    /\ UNCHANGED <<cache, day, paid, usage>>

-----------------------------------------------------------------------------
(***************************************************************************)
(* executeBudgetedApiCall and the inline path of runMarketProbe, from the  *)
(* decision "allowed" on.                                                  *)
(***************************************************************************)

\* Each path stages its own envelope and does not recognise the other's.
Recovers(o, s) == s # NoOwner /\ (s \in Probing <=> o \in Probing)

\* readStaged, which does not look at the owner: a staged response saves the
\* HTTP call.
ReadStaged(o) ==
    LET s == claims[calls[o].key].staged IN
    /\ calls[o].pc = "reading"
    /\ calls' = [calls EXCEPT ![o] =
                   IF Recovers(o, s) THEN [@ EXCEPT !.pc = "publishing", !.response = s]
                                     ELSE [@ EXCEPT !.pc = "fetching"]]
    /\ UNCHANGED <<claims, cache, budgetVars, day, paid, usage>>

\* The provider answers.
Fetch(o) ==
    /\ calls[o].pc = "fetching"
    /\ calls' = [calls EXCEPT ![o] = [@ EXCEPT !.pc = "staging", !.response = o]]
    /\ paid' = paid \cup {[key |-> calls[o].key, owner |-> o,
                           generation |-> calls[o].generation]}
    /\ UNCHANGED <<claims, cache, budgetVars, day, usage>>

\* The provider fails for good (JungleScoutClientError).
FetchFails(o) ==
    /\ calls[o].pc = "fetching"
    /\ Goto(o, "reporting")
    /\ UNCHANGED <<claims, cache, budgetVars, day, paid, usage>>

\* A bug for the mutants: anyone may stage.
StagesUnfenced(o, k) == ~claims[k].completed

\* stage_api_call_response: the owner, of a claim that need not be live.
Stages(o, k) == claims[k].owner = o /\ ~claims[k].completed

Stage(o) ==
    LET k == calls[o].key IN
    /\ calls[o].pc = "staging"
    /\ IF Stages(o, k)
       THEN /\ claims' = [claims EXCEPT ![k].staged = calls[o].response]
            /\ Goto(o, "publishing")
       ELSE /\ Goto(o, "done")
            /\ UNCHANGED claims
    /\ UNCHANGED <<cache, budgetVars, day, paid, usage>>

\* The upsert into api_cache.
Publish(o) ==
    /\ calls[o].pc = "publishing"
    /\ cache' = [cache EXCEPT ![calls[o].key] =
                   [response |-> calls[o].response, fresh |-> TRUE]]
    /\ Goto(o, "recording")
    /\ UNCHANGED <<claims, budgetVars, day, paid, usage>>

Row(o, ok) == [key |-> calls[o].key, generation |-> calls[o].generation,
               owner |-> o, success |-> ok]

\* A bug for the mutants: usage is added whatever was recorded before.
RecordedAgain(o, k, ok) ==
    /\ usage' = IF Owns(o, k) THEN usage \cup {Row(o, ok)} ELSE usage
    /\ claims' = IF Owns(o, k) THEN [claims EXCEPT ![k].recorded = TRUE] ELSE claims

\* record_api_usage_for_claim: one row for a claim; a second call for the same
\* claim reports success and adds nothing.
Recorded(o, k, ok) ==
    /\ usage' = IF Owns(o, k) /\ ~claims[k].recorded
                THEN usage \cup {Row(o, ok)} ELSE usage
    /\ claims' = IF Owns(o, k) THEN [claims EXCEPT ![k].recorded = TRUE] ELSE claims

\* The usage of a successful call.  runMarketProbe inserts it past the claim.
Record(o) ==
    LET k == calls[o].key IN
    /\ calls[o].pc = "recording"
    /\ IF o \in Probing
       THEN /\ usage' = usage \cup {Row(o, TRUE)}
            /\ UNCHANGED claims
            /\ Goto(o, "completing")
       ELSE /\ Recorded(o, k, TRUE)
            /\ Goto(o, IF Owns(o, k) THEN "completing" ELSE "done")
    /\ UNCHANGED <<cache, budgetVars, day, paid>>

\* The usage of a failed call; the claim stays as it is and the error is thrown.
RecordFailure(o) ==
    LET k == calls[o].key IN
    /\ calls[o].pc = "reporting"
    /\ IF o \in Probing
       THEN /\ usage' = usage \cup {Row(o, FALSE)}
            /\ UNCHANGED claims
       ELSE Recorded(o, k, FALSE)
    /\ Goto(o, "done")
    /\ UNCHANGED <<cache, budgetVars, day, paid>>

\* A bug for the mutants: the claim is completed whoever holds it now.
CompletesUnfenced(o, k) == TRUE

\* complete_api_call_claim: the owner, of a claim that need not be live.
Completes(o, k) == claims[k].owner = o

Complete(o) ==
    LET k == calls[o].key IN
    /\ calls[o].pc = "completing"
    /\ claims' = IF Completes(o, k)
                 THEN [claims EXCEPT ![k] = [@ EXCEPT !.completed = TRUE, !.live = FALSE]]
                 ELSE claims
    /\ Goto(o, "done")
    /\ UNCHANGED <<cache, budgetVars, day, paid, usage>>

\* The call is answered from the cache row, fresh or no longer so.
ReadCache(o) ==
    /\ calls[o].pc = "cached"
    /\ calls' = [calls EXCEPT ![o] =
                   [@ EXCEPT !.pc = "done", !.response = cache[calls[o].key].response]]
    /\ UNCHANGED <<claims, cache, budgetVars, day, paid, usage>>

\* The process dies or a database call throws: the attempt ends where it is.
Abort(o) ==
    /\ calls[o].pc \notin {"idle", "done"}
    /\ Goto(o, "done")
    /\ UNCHANGED <<claims, cache, budgetVars, day, paid, usage>>

-----------------------------------------------------------------------------
Step(o) == \/ \E k \in Key : ClaimCall(o, k)
           \/ Authorize(o) \/ ReadStaged(o) \/ Fetch(o) \/ FetchFails(o)
           \/ Stage(o) \/ Publish(o) \/ Record(o) \/ RecordFailure(o)
           \/ Complete(o) \/ ReadCache(o) \/ Abort(o)

Next == \/ \E o \in Owner : Step(o)
        \/ \E k \in Key : ClaimExpires(k) \/ CacheExpires(k)
        \/ NextDay

Spec == Init /\ [][Next]_vars

-----------------------------------------------------------------------------
(***************************************************************************)
(* Properties.                                                             *)
(***************************************************************************)

\* No day's budget is exceeded, and what normal validation spends leaves the
\* reserve to the other purposes (authorize_api_call).
BudgetHeld ==
    \A d \in Day :
      /\ used[d] <= DailyLimit
      /\ reservedUsed[d] = FromReserve(used[d])
      /\ Cardinality({c \in charges : c.day = d /\ c.owner \in Normal})
           <= DailyLimit - ReservedLimit

\* Crashes, takeovers and retries never charge a generation of a claim twice,
\* and the budget counts nothing else (authorize_owned_api_call).
ChargedOnce ==
    /\ \A c, e \in charges : c.key = e.key /\ c.generation = e.generation => c = e
    /\ \A d \in Day : used[d] = Cardinality({c \in charges : c.day = d})

\* The provider is only ever paid under a charged reservation, also by an
\* attempt that lost its claim meanwhile.
PaidIsCharged ==
    \A p \in paid : \E c \in charges : c.key = p.key /\ c.generation = p.generation

\* The calls that go through record_api_usage_for_claim leave at most one usage
\* row for each generation, however often they are resumed.
UsageOnce ==
    \A r, s \in usage :
      /\ r.owner \notin Probing /\ s.owner \notin Probing
      /\ r.key = s.key /\ r.generation = s.generation
      => r = s

\* A claim is completed only after the usage of its generation is on record
\* and a response of it was published: no paid call drops out of the books.
CompletedIsAccounted ==
    \A k \in Key : claims[k].completed =>
      /\ \E r \in usage : r.key = k /\ r.generation = claims[k].generation
      /\ cache[k].response # NoOwner

\* A staged response, which the next owner will reuse without paying, was
\* fetched for this generation: nothing stale is recovered.
StagedOfGeneration ==
    \A k \in Key : claims[k].staged # NoOwner =>
      [key |-> k, generation |-> claims[k].generation, owner |-> claims[k].staged]
        \in paid

\* The books of a generation are exact: one usage row at most, none missing once
\* its claim is completed, and no stale response staged for the next owner
\* (record_api_usage_for_claim, complete_api_call_claim, stage_api_response).
LedgerExact == UsageOnce /\ CompletedIsAccounted /\ StagedOfGeneration

\* What the roadmap promises of checkpoints and resumption: no response is paid
\* for twice.  A crash between the response and its staging breaks it.
NoDuplicatePayment ==
    \A p, q \in paid : p.key = q.key /\ p.generation = q.generation => p = q
=============================================================================
