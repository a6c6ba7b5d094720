--------------------------- MODULE ApiCallsProofs ---------------------------
(***************************************************************************)
(* What holds of the paid calls for any number of owners, keys, days and   *)
(* generations, and for any budget.                                        *)
(***************************************************************************)
EXTENDS ApiCalls, FiniteSetTheorems, TLAPS

-----------------------------------------------------------------------------
(***************************************************************************)
(* The types.                                                              *)
(***************************************************************************)

\* A claim row that claim_api_call hands out is a claim row.
LEMMA ClaimedRow ==
    ASSUME TypeOK, NEW k \in Key, NEW o \in Owner,
           Unfinished(k) \/ claims[k].generation < MaxGeneration
    PROVE  /\ Claimed(claims[k], o) \in ClaimRow
           /\ Claimed(claims[k], o).owner = o
           /\ IF Unfinished(k)
              THEN /\ Claimed(claims[k], o).generation = claims[k].generation
                   /\ Claimed(claims[k], o).reserved = claims[k].reserved
              ELSE /\ Claimed(claims[k], o).generation = claims[k].generation + 1
                   /\ Claimed(claims[k], o).reserved = FALSE
<1> USE ApiAssumption
<1>1. claims[k] \in ClaimRow
  BY DEF TypeOK
<1>2. CASE Unfinished(k)
  <2>1. Claimed(claims[k], o) = [claims[k] EXCEPT !.owner = o, !.live = TRUE]
    BY <1>2 DEF Claimed, Unfinished
  <2>2. QED
    BY <1>1, <1>2, <2>1 DEF ClaimRow
<1>3. CASE ~Unfinished(k)
  <2>1. Claimed(claims[k], o) =
          [NoClaim EXCEPT !.owner = o, !.live = TRUE,
                          !.generation = claims[k].generation + 1]
    BY <1>1, <1>3 DEF Claimed, Unfinished, ClaimRow
  <2>2. claims[k].generation + 1 \in Generation
    BY <1>1, <1>3 DEF ClaimRow, Generation
  <2>3. QED
    BY <1>3, <2>1, <2>2 DEF NoClaim, ClaimRow, Response
<1>4. QED
  BY <1>2, <1>3

\* Goto moves one call and nothing else of it.
LEMMA GotoCalls ==
    ASSUME TypeOK, NEW o \in Owner, NEW pc \in Pc, Goto(o, pc)
    PROVE  /\ calls' \in [Owner -> CallState]
           /\ \A q \in Owner :
                /\ calls'[q].pc = IF q = o THEN pc ELSE calls[q].pc
                /\ calls'[q].key = calls[q].key
                /\ calls'[q].generation = calls[q].generation
<1>1. [calls[o] EXCEPT !.pc = pc] \in CallState
  BY DEF TypeOK, CallState
<1>2. calls' = [calls EXCEPT ![o] = [calls[o] EXCEPT !.pc = pc]]
  BY DEF Goto, TypeOK
<1>3. QED
  BY <1>1, <1>2 DEF TypeOK, CallState

\* The share of the reserve grows by at most one.
LEMMA ReserveGrows ==
    ASSUME NEW n \in Nat
    PROVE  /\ FromReserve(n) \in Nat
           /\ FromReserve(n + 1) - FromReserve(n) \in {0, 1}
           /\ n <= DailyLimit - ReservedLimit => FromReserve(n) = 0
<1>1. DailyLimit - ReservedLimit \in Nat
  BY ApiAssumption
<1>2. QED
  BY <1>1 DEF FromReserve

-----------------------------------------------------------------------------
LEMMA ClaimCallTypes ==
    ASSUME TypeOK, NEW o \in Owner, NEW k \in Key, ClaimCall(o, k)
    PROVE  TypeOK'
<1> USE ApiAssumption
<1>1. calls[o] \in CallState /\ {"cached", "done", "claimed"} \subseteq Pc
  BY DEF TypeOK, Pc
<1>2. UNCHANGED <<cache, budgetVars, day, paid, usage>>
  BY DEF ClaimCall
<1>3. CASE Served(k)
  <2>1. [calls[o] EXCEPT !.pc = "cached", !.key = k] \in CallState
    BY <1>1 DEF CallState
  <2>2. QED
    BY <1>2, <1>3, <2>1 DEF ClaimCall, TypeOK, budgetVars
<1>4. CASE ~Served(k) /\ Unfinished(k) /\ claims[k].live
  <2>1. [calls[o] EXCEPT !.pc = "done", !.key = k] \in CallState
    BY <1>1 DEF CallState
  <2>2. QED
    BY <1>2, <1>4, <2>1 DEF ClaimCall, TypeOK, budgetVars
<1>5. CASE ~Served(k) /\ ~(Unfinished(k) /\ claims[k].live)
  <2>1. /\ Unfinished(k) \/ claims[k].generation < MaxGeneration
        /\ claims' = [claims EXCEPT ![k] = Claimed(claims[k], o)]
        /\ calls' = [calls EXCEPT ![o] =
                       [calls[o] EXCEPT !.pc = "claimed", !.key = k,
                                        !.generation = claims'[k].generation]]
    BY <1>5 DEF ClaimCall
  <2>2. claims' \in [Key -> ClaimRow]
    BY <2>1, ClaimedRow DEF TypeOK
  <2>3. claims'[k].generation \in Generation
    BY <2>2 DEF ClaimRow
  <2>4. calls' \in [Owner -> CallState]
    BY <1>1, <2>1, <2>3 DEF CallState, TypeOK
  <2>5. QED
    BY <1>2, <2>2, <2>4 DEF TypeOK, budgetVars
<1>6. QED
  BY <1>3, <1>4, <1>5

LEMMA AuthorizeTypes ==
    ASSUME TypeOK, NEW o \in Owner, Authorize(o)
    PROVE  TypeOK'
<1> USE ApiAssumption
<1> DEFINE k == calls[o].key
<1>1. /\ k \in Key /\ calls[o].generation \in Generation
      /\ {"done", "reading", "cached"} \subseteq Pc
  BY DEF TypeOK, CallState, Pc
<1>2. calls' \in [Owner -> CallState]
  BY <1>1, GotoCalls DEF Authorize
<1>3. UNCHANGED <<cache, day, paid, usage>>
  BY DEF Authorize
<1>4. CASE UNCHANGED <<claims, budgetVars>>
  BY <1>2, <1>3, <1>4 DEF TypeOK, budgetVars
<1>5. CASE ~UNCHANGED <<claims, budgetVars>>
  <2>1. /\ claims' = [claims EXCEPT ![k].reserved = TRUE]
        /\ used' = [used EXCEPT ![day] = @ + 1]
        /\ reservedUsed' =
             IF o \in Normal THEN reservedUsed
             ELSE [reservedUsed EXCEPT ![day] =
                     @ + (FromReserve(used[day] + 1) - FromReserve(used[day]))]
        /\ charges' = charges \cup
             {[day |-> day, key |-> k, generation |-> calls[o].generation, owner |-> o]}
    BY <1>5 DEF Authorize
  <2>2. claims' \in [Key -> ClaimRow]
    BY <1>1, <2>1 DEF TypeOK, ClaimRow
  <2>3. used' \in [Day -> Nat]
    BY <2>1 DEF TypeOK
  <2>4. reservedUsed' \in [Day -> Nat]
    <3>1. used[day] \in Nat /\ reservedUsed[day] \in Nat
      BY DEF TypeOK
    <3>2. reservedUsed[day] + (FromReserve(used[day] + 1) - FromReserve(used[day])) \in Nat
      BY <3>1, ReserveGrows
    <3>3. QED
      BY <2>1, <3>2 DEF TypeOK
  <2>5. charges' \subseteq Charge
    BY <1>1, <2>1 DEF TypeOK, Charge
  <2>6. QED
    BY <1>2, <1>3, <2>2, <2>3, <2>4, <2>5 DEF TypeOK
<1>6. QED
  BY <1>4, <1>5

\* The other steps of a call.
CallStep(o) == \/ ReadStaged(o) \/ Fetch(o) \/ FetchFails(o) \/ Stage(o)
               \/ Publish(o) \/ Record(o) \/ RecordFailure(o) \/ Complete(o)
               \/ ReadCache(o) \/ Abort(o)

LEMMA CallStepTypes ==
    ASSUME TypeOK, NEW o \in Owner, CallStep(o)
    PROVE  TypeOK'
<1> USE ApiAssumption
<1> DEFINE k == calls[o].key
<1>1. /\ k \in Key /\ calls[o] \in CallState /\ claims[k] \in ClaimRow
      /\ calls[o].generation \in Generation /\ calls[o].response \in Response
      /\ cache[k].response \in Response
      /\ o \in Response
  BY DEF TypeOK, CallState, CacheRow, Response
<1>2. \A pc \in Pc : Goto(o, pc) => calls' \in [Owner -> CallState]
  BY GotoCalls
<1>3. Row(o, TRUE) \in UsageRow /\ Row(o, FALSE) \in UsageRow
  BY <1>1 DEF Row, UsageRow
<1>4. CASE ReadStaged(o)
  <2>1. claims[k].staged \in Response
    BY <1>1 DEF ClaimRow
  <2>2. [calls[o] EXCEPT !.pc = "publishing", !.response = claims[k].staged] \in CallState
    BY <1>1, <2>1 DEF CallState, Pc
  <2>3. [calls[o] EXCEPT !.pc = "fetching"] \in CallState
    BY <1>1 DEF CallState, Pc
  <2>4. calls' \in [Owner -> CallState]
    BY <1>4, <2>2, <2>3 DEF ReadStaged, TypeOK
  <2>5. QED
    BY <1>4, <2>4 DEF ReadStaged, TypeOK, budgetVars
<1>5. CASE Fetch(o)
  <2>1. [calls[o] EXCEPT !.pc = "staging", !.response = o] \in CallState
    BY <1>1 DEF CallState, Pc
  <2>2. paid' \subseteq Payment
    BY <1>1, <1>5 DEF Fetch, TypeOK, Payment
  <2>3. QED
    BY <1>5, <2>1, <2>2 DEF Fetch, TypeOK, budgetVars
<1>6. CASE FetchFails(o) \/ Abort(o)
  BY <1>2, <1>6 DEF FetchFails, Abort, TypeOK, budgetVars, Pc
<1>7. CASE Stage(o)
  <2>1. calls' \in [Owner -> CallState]
    BY <1>2, <1>7 DEF Stage, Pc
  <2>2. claims' \in [Key -> ClaimRow]
    <3>1. [claims[k] EXCEPT !.staged = calls[o].response] \in ClaimRow
      BY <1>1 DEF ClaimRow
    <3>2. QED
      BY <1>1, <1>7, <3>1 DEF Stage, TypeOK
  <2>3. QED
    BY <1>7, <2>1, <2>2 DEF Stage, TypeOK, budgetVars
<1>8. CASE Publish(o)
  <2>1. [response |-> calls[o].response, fresh |-> TRUE] \in CacheRow
    BY <1>1 DEF CacheRow
  <2>2. QED
    BY <1>2, <1>8, <2>1 DEF Publish, TypeOK, budgetVars, Pc
<1>9. CASE Record(o) \/ RecordFailure(o)
  <2>1. calls' \in [Owner -> CallState]
    BY <1>2, <1>9 DEF Record, RecordFailure, Pc
  <2>2. usage' \subseteq UsageRow
    BY <1>3, <1>9 DEF Record, RecordFailure, Recorded, TypeOK
  <2>3. claims' \in [Key -> ClaimRow]
    <3>1. [claims[k] EXCEPT !.recorded = TRUE] \in ClaimRow
      BY <1>1 DEF ClaimRow
    <3>2. claims' = claims \/ claims' = [claims EXCEPT ![k].recorded = TRUE]
      BY <1>9 DEF Record, RecordFailure, Recorded
    <3>3. QED
      BY <1>1, <3>1, <3>2 DEF TypeOK
  <2>4. QED
    BY <1>9, <2>1, <2>2, <2>3 DEF Record, RecordFailure, TypeOK, budgetVars
<1>10. CASE Complete(o)
  <2>1. [claims[k] EXCEPT !.completed = TRUE, !.live = FALSE] \in ClaimRow
    BY <1>1 DEF ClaimRow
  <2>2. claims' \in [Key -> ClaimRow]
    BY <1>10, <2>1 DEF Complete, TypeOK
  <2>3. QED
    BY <1>2, <1>10, <2>2 DEF Complete, TypeOK, budgetVars, Pc
<1>11. CASE ReadCache(o)
  <2>1. [calls[o] EXCEPT !.pc = "done", !.response = cache[k].response] \in CallState
    BY <1>1 DEF CallState, Pc
  <2>2. QED
    BY <1>11, <2>1 DEF ReadCache, TypeOK, budgetVars
<1>12. QED
  BY <1>4, <1>5, <1>6, <1>7, <1>8, <1>9, <1>10, <1>11 DEF CallStep

\* The passage of time.
TimeStep == (\E k \in Key : ClaimExpires(k) \/ CacheExpires(k)) \/ NextDay

LEMMA TimeStepTypes ==
    ASSUME TypeOK, TimeStep
    PROVE  TypeOK'
<1> USE ApiAssumption
<1>1. ASSUME NEW k \in Key, ClaimExpires(k)
      PROVE  TypeOK'
  <2>1. [claims[k] EXCEPT !.live = FALSE] \in ClaimRow
    BY DEF TypeOK, ClaimRow
  <2>2. QED
    BY <1>1, <2>1 DEF ClaimExpires, TypeOK, budgetVars
<1>2. ASSUME NEW k \in Key, CacheExpires(k)
      PROVE  TypeOK'
  <2>1. [cache[k] EXCEPT !.fresh = FALSE] \in CacheRow
    BY DEF TypeOK, CacheRow
  <2>2. QED
    BY <1>2, <2>1 DEF CacheExpires, TypeOK, budgetVars
<1>3. CASE NextDay
  BY <1>3 DEF NextDay, TypeOK, budgetVars, Day
<1>4. QED
  BY <1>1, <1>2, <1>3 DEF TimeStep

LEMMA Steps == Next <=> \/ \E o \in Owner, k \in Key : ClaimCall(o, k)
                        \/ \E o \in Owner : Authorize(o) \/ CallStep(o)
                        \/ TimeStep
BY DEF Next, Step, CallStep, TimeStep

\* Claims, calls, budget rows and histories keep their types, for every number
\* of attempts and keys; in particular no generation is skipped or reused.
THEOREM TypeCorrect == Spec => []TypeOK
<1> USE ApiAssumption
<1>1. Init => TypeOK
  BY DEF Init, TypeOK, NoClaim, ClaimRow, CacheRow, CallState, Generation, Day,
         Response, Pc
<1>2. TypeOK /\ [Next]_vars => TypeOK'
  <2> SUFFICES ASSUME TypeOK, [Next]_vars PROVE TypeOK'
    OBVIOUS
  <2>1. CASE Next
    BY <2>1, Steps, ClaimCallTypes, AuthorizeTypes, CallStepTypes, TimeStepTypes
  <2>2. CASE UNCHANGED vars
    BY <2>2 DEF vars, TypeOK
  <2>3. QED
    BY <2>1, <2>2
<1>3. QED
  BY <1>1, <1>2, PTL DEF Spec

-----------------------------------------------------------------------------
(***************************************************************************)
(* The books.  A claim row knows of its charge (reserved), a call at work  *)
(* knows of the charge of its generation, and a charge never runs ahead of *)
(* the row: that is why a takeover may go on without paying, and why a     *)
(* blank claim has no charge yet.                                          *)
(***************************************************************************)
Charged(k, g) == \E c \in charges : c.key = k /\ c.generation = g

\* The owner of a row is the call that claimed it, in the row's generation.
OwnersMatch ==
    \A k \in Key, o \in Owner : claims[k].owner = o =>
      /\ calls[o].pc # "idle"
      /\ calls[o].key = k
      /\ calls[o].generation = claims[k].generation

ReservedIsCharged ==
    \A k \in Key : claims[k].reserved => Charged(k, claims[k].generation)

ChargesKnown ==
    \A c \in charges :
      /\ c.generation <= claims[c.key].generation
      /\ c.generation = claims[c.key].generation => claims[c.key].reserved

WorkIsCharged ==
    \A o \in Owner : calls[o].pc \in {"reading", "fetching"} =>
      Charged(calls[o].key, calls[o].generation)

BooksInv == /\ OwnersMatch /\ ReservedIsCharged /\ ChargesKnown /\ WorkIsCharged
            /\ IsFiniteSet(charges)

\* What every step but a claim and an authorization leaves alone.
Quiet ==
    /\ UNCHANGED budgetVars
    /\ \A k \in Key : /\ claims'[k].owner = claims[k].owner
                      /\ claims'[k].reserved = claims[k].reserved
                      /\ claims'[k].generation = claims[k].generation
    /\ \A o \in Owner : /\ calls'[o].key = calls[o].key
                        /\ calls'[o].generation = calls[o].generation
                        /\ calls[o].pc # "idle" => calls'[o].pc # "idle"
                        /\ calls'[o].pc \in {"reading", "fetching"} =>
                             calls[o].pc \in {"reading", "fetching"}
    /\ \A p \in paid' :
         \/ p \in paid
         \/ \E o \in Owner : /\ calls[o].pc = "fetching"
                             /\ p.key = calls[o].key
                             /\ p.generation = calls[o].generation

LEMMA CallStepQuiet ==
    ASSUME TypeOK, NEW o \in Owner, CallStep(o)
    PROVE  Quiet
<1> DEFINE k == calls[o].key
<1>1. /\ k \in Key /\ calls[o] \in CallState /\ claims[k] \in ClaimRow
  BY DEF TypeOK, CallState
<1>2. UNCHANGED budgetVars
  BY DEF CallStep, ReadStaged, Fetch, FetchFails, Stage, Publish, Record,
         RecordFailure, Complete, ReadCache, Abort
<1>3. \A l \in Key : /\ claims'[l].owner = claims[l].owner
                     /\ claims'[l].reserved = claims[l].reserved
                     /\ claims'[l].generation = claims[l].generation
  <2>1. \/ claims' = claims
        \/ claims' = [claims EXCEPT ![k].staged = calls[o].response]
        \/ claims' = [claims EXCEPT ![k].recorded = TRUE]
        \/ claims' = [claims EXCEPT ![k] = [@ EXCEPT !.completed = TRUE, !.live = FALSE]]
    BY DEF CallStep, ReadStaged, Fetch, FetchFails, Stage, Publish, Record,
           RecordFailure, Recorded, Complete, ReadCache, Abort
  <2>2. /\ claims \in [Key -> ClaimRow]
        /\ \A l \in Key : l # k => claims'[l] = claims[l]
    BY <1>1, <2>1 DEF TypeOK
  <2>3. \/ claims'[k] = claims[k]
        \/ claims'[k] = [claims[k] EXCEPT !.staged = calls[o].response]
        \/ claims'[k] = [claims[k] EXCEPT !.recorded = TRUE]
        \/ claims'[k] = [claims[k] EXCEPT !.completed = TRUE, !.live = FALSE]
    BY <1>1, <2>1, <2>2
  <2>4. /\ claims'[k].owner = claims[k].owner
        /\ claims'[k].reserved = claims[k].reserved
        /\ claims'[k].generation = claims[k].generation
    BY <1>1, <2>3 DEF ClaimRow
  <2>5. QED
    BY <2>2, <2>4
<1>4. \A q \in Owner : /\ calls'[q].key = calls[q].key
                       /\ calls'[q].generation = calls[q].generation
                       /\ calls[q].pc # "idle" => calls'[q].pc # "idle"
                       /\ calls'[q].pc \in {"reading", "fetching"} =>
                            calls[q].pc \in {"reading", "fetching"}
  <2>1. CASE ReadStaged(o)
    BY <1>1, <2>1 DEF ReadStaged, TypeOK, CallState
  <2>2. CASE Fetch(o) \/ ReadCache(o)
    <3>1. PICK pc \in {"staging", "done"}, r \in {o, cache[k].response} :
            calls' = [calls EXCEPT ![o] = [calls[o] EXCEPT !.pc = pc, !.response = r]]
      BY <1>1, <2>2 DEF Fetch, ReadCache
    <3>2. calls'[o] = [calls[o] EXCEPT !.pc = pc, !.response = r]
      BY <3>1 DEF TypeOK
    <3>3. /\ calls'[o].key = calls[o].key
          /\ calls'[o].generation = calls[o].generation
          /\ calls'[o].pc = pc
      BY <1>1, <3>2 DEF CallState
    <3>4. \A q \in Owner : q # o => calls'[q] = calls[q]
      BY <3>1 DEF TypeOK
    <3>5. QED
      BY <3>3, <3>4
  <2>3. CASE \E pc \in Pc \ {"idle", "reading", "fetching"} : Goto(o, pc)
    BY <2>3, GotoCalls
  <2>4. QED
    BY <2>1, <2>2, <2>3 DEF CallStep, FetchFails, Stage, Publish, Record,
       RecordFailure, Complete, Abort, Pc
<1>5. \A p \in paid' : \/ p \in paid
                       \/ /\ calls[o].pc = "fetching"
                          /\ p.key = calls[o].key
                          /\ p.generation = calls[o].generation
  <2>1. CASE Fetch(o)
    BY <2>1 DEF Fetch
  <2>2. CASE ~Fetch(o)
    <3>1. paid' = paid
      BY <2>2 DEF CallStep, ReadStaged, FetchFails, Stage, Publish, Record,
                  RecordFailure, Complete, ReadCache, Abort
    <3>2. QED
      BY <3>1
  <2>3. QED
    BY <2>1, <2>2
<1>6. QED
  BY <1>2, <1>3, <1>4, <1>5 DEF Quiet

LEMMA TimeStepQuiet ==
    ASSUME TypeOK, TimeStep \/ UNCHANGED vars
    PROVE  Quiet
<1>1. \/ claims' = claims
      \/ \E k \in Key : claims' = [claims EXCEPT ![k].live = FALSE]
  BY DEF TimeStep, ClaimExpires, CacheExpires, NextDay, vars
<1>2. \A k \in Key : /\ claims'[k].owner = claims[k].owner
                     /\ claims'[k].reserved = claims[k].reserved
                     /\ claims'[k].generation = claims[k].generation
  BY <1>1 DEF TypeOK, ClaimRow
<1>3. UNCHANGED <<budgetVars, calls, paid>>
  BY DEF TimeStep, ClaimExpires, CacheExpires, NextDay, vars, budgetVars
<1>4. QED
  BY <1>2, <1>3 DEF Quiet

LEMMA QuietKeepsBooks ==
    ASSUME TypeOK, BooksInv, PaidIsCharged, Quiet
    PROVE  BooksInv' /\ PaidIsCharged'
<1>1. charges' = charges
  BY DEF Quiet, budgetVars
<1>2. OwnersMatch'
  BY DEF BooksInv, OwnersMatch, Quiet
<1>3. ReservedIsCharged'
  BY <1>1 DEF BooksInv, ReservedIsCharged, Charged, Quiet
<1>4. ChargesKnown'
  BY <1>1 DEF BooksInv, ChargesKnown, Quiet, TypeOK, Charge
<1>5. WorkIsCharged'
  BY <1>1 DEF BooksInv, WorkIsCharged, Charged, Quiet
<1>6. PaidIsCharged'
  BY <1>1 DEF BooksInv, WorkIsCharged, Charged, PaidIsCharged, Quiet
<1>7. QED
  BY <1>1, <1>2, <1>3, <1>4, <1>5, <1>6 DEF BooksInv

\* A takeover keeps the reservation with the charge it stands for, a blank
\* claim starts a generation no charge has reached.
LEMMA ClaimCallKeepsBooks ==
    ASSUME TypeOK, BooksInv, PaidIsCharged, NEW o \in Owner, NEW k \in Key,
           ClaimCall(o, k)
    PROVE  BooksInv' /\ PaidIsCharged' /\ UNCHANGED budgetVars
<1> USE ApiAssumption
<1>1. UNCHANGED <<budgetVars, paid>> /\ calls[o] \in CallState /\ calls[o].pc = "idle"
  BY DEF ClaimCall, TypeOK
<1>2. charges' = charges
  BY <1>1 DEF budgetVars
<1>3. /\ \A q \in Owner \ {o} : calls'[q] = calls[q]
      /\ calls'[o].pc \notin {"idle", "reading", "fetching"}
      /\ calls'[o].key = k
  <2>1. PICK pc \in {"cached", "done", "claimed"}, g \in {calls[o].generation,
                                                        claims'[k].generation} :
          calls' = [calls EXCEPT ![o] =
                      [calls[o] EXCEPT !.pc = pc, !.key = k, !.generation = g]]
    <3>1. [calls[o] EXCEPT !.pc = "cached", !.key = k] =
            [calls[o] EXCEPT !.pc = "cached", !.key = k,
                             !.generation = calls[o].generation]
      BY <1>1 DEF CallState
    <3>2. [calls[o] EXCEPT !.pc = "done", !.key = k] =
            [calls[o] EXCEPT !.pc = "done", !.key = k,
                             !.generation = calls[o].generation]
      BY <1>1 DEF CallState
    <3>3. \/ calls' = [calls EXCEPT ![o] = [calls[o] EXCEPT !.pc = "cached", !.key = k]]
          \/ calls' = [calls EXCEPT ![o] = [calls[o] EXCEPT !.pc = "done", !.key = k]]
          \/ calls' = [calls EXCEPT ![o] =
                         [calls[o] EXCEPT !.pc = "claimed", !.key = k,
                                          !.generation = claims'[k].generation]]
      BY DEF ClaimCall
    <3>4. QED
      BY <3>1, <3>2, <3>3
  <2>2. /\ \A q \in Owner \ {o} : calls'[q] = calls[q]
        /\ calls'[o] = [calls[o] EXCEPT !.pc = pc, !.key = k, !.generation = g]
    BY <2>1 DEF TypeOK
  <2>3. calls'[o].pc = pc /\ calls'[o].key = k
    BY <1>1, <2>2 DEF CallState
  <2>4. QED
    BY <2>2, <2>3
<1>4. \A l \in Key : claims[l].owner # o
  BY <1>1 DEF BooksInv, OwnersMatch
<1>5. WorkIsCharged'
  BY <1>2, <1>3 DEF BooksInv, WorkIsCharged, Charged
<1>6. CASE claims' = claims
  <2>1. OwnersMatch'
    BY <1>3, <1>4, <1>6 DEF BooksInv, OwnersMatch
  <2>2. ReservedIsCharged' /\ ChargesKnown'
    BY <1>2, <1>6 DEF BooksInv, ReservedIsCharged, ChargesKnown, Charged
  <2>3. QED
    BY <1>1, <1>2, <1>5, <2>1, <2>2 DEF BooksInv, PaidIsCharged
<1>7. CASE claims' # claims
  <2>1. /\ Unfinished(k) \/ claims[k].generation < MaxGeneration
        /\ claims' = [claims EXCEPT ![k] = Claimed(claims[k], o)]
        /\ calls' = [calls EXCEPT ![o] =
                       [calls[o] EXCEPT !.pc = "claimed", !.key = k,
                                        !.generation = claims'[k].generation]]
    BY <1>7 DEF ClaimCall
  <2>2. /\ \A l \in Key \ {k} : claims'[l] = claims[l]
        /\ claims'[k] = Claimed(claims[k], o)
        /\ claims'[k].owner = o
        /\ calls'[o].generation = claims'[k].generation
    BY <1>1, <2>1, ClaimedRow DEF TypeOK, CallState
  <2>3. \/ /\ claims'[k].generation = claims[k].generation
           /\ claims'[k].reserved = claims[k].reserved
        \/ /\ claims'[k].generation = claims[k].generation + 1
           /\ claims'[k].reserved = FALSE
    <3> DEFINE r == Claimed(claims[k], o)
    <3>1. CASE Unfinished(k)
      <4>1. r.generation = claims[k].generation /\ r.reserved = claims[k].reserved
        BY <3>1, ClaimedRow
      <4>2. QED
        BY <2>2, <4>1
    <3>2. CASE ~Unfinished(k)
      <4>1. r.generation = claims[k].generation + 1 /\ r.reserved = FALSE
        BY <2>1, <3>2, ClaimedRow
      <4>2. QED
        BY <2>2, <4>1
    <3>3. QED
      BY <3>1, <3>2
  <2>4. OwnersMatch'
    BY <1>3, <1>4, <2>2 DEF BooksInv, OwnersMatch
  <2>5. ReservedIsCharged'
    BY <1>2, <2>2, <2>3 DEF BooksInv, ReservedIsCharged, Charged
  <2>6. ChargesKnown'
    <3>1. SUFFICES ASSUME NEW c \in charges
                   PROVE  /\ c.generation <= claims'[c.key].generation
                          /\ c.generation = claims'[c.key].generation =>
                               claims'[c.key].reserved
      BY <1>2 DEF ChargesKnown
    <3>2. /\ c.key \in Key /\ c.generation \in Nat
          /\ claims[c.key].generation \in Nat
      BY DEF TypeOK, Charge, ClaimRow, Generation
    <3>3. /\ c.generation <= claims[c.key].generation
          /\ c.generation = claims[c.key].generation => claims[c.key].reserved
      BY DEF BooksInv, ChargesKnown
    <3>4. QED
      BY <2>2, <2>3, <3>2, <3>3
  <2>7. QED
    BY <1>1, <1>2, <1>5, <2>4, <2>5, <2>6 DEF BooksInv, PaidIsCharged
<1>8. QED
  BY <1>1, <1>6, <1>7

\* The charge that an authorization adds.
NewCharge(o) ==
    [day |-> day, key |-> calls[o].key, generation |-> calls[o].generation, owner |-> o]

Charges(o) ==
    /\ Owns(o, calls[o].key) /\ ~claims[calls[o].key].reserved
    /\ used[day] + 1 <= Ceiling(o)
    /\ claims' = [claims EXCEPT ![calls[o].key].reserved = TRUE]
    /\ used' = [used EXCEPT ![day] = @ + 1]
    /\ reservedUsed' =
         IF o \in Normal THEN reservedUsed
         ELSE [reservedUsed EXCEPT ![day] =
                 @ + (FromReserve(used[day] + 1) - FromReserve(used[day]))]
    /\ charges' = charges \cup {NewCharge(o)}

\* An authorization charges, lets a charged call go on, or ends the call.
LEMMA AuthorizeCases ==
    ASSUME TypeOK, NEW o \in Owner, Authorize(o)
    PROVE  /\ UNCHANGED <<day, paid>>
           /\ calls[o].pc = "claimed"
           /\ \A q \in Owner : /\ calls'[q].key = calls[q].key
                               /\ calls'[q].generation = calls[q].generation
                               /\ q # o => calls'[q].pc = calls[q].pc
           /\ calls'[o].pc \in {"done", "cached", "reading"}
           /\ \/ Charges(o)
              \/ /\ UNCHANGED <<claims, budgetVars>>
                 /\ calls'[o].pc = "reading" =>
                      Owns(o, calls[o].key) /\ claims[calls[o].key].reserved
<1>1. \E pc \in {"done", "cached", "reading"} : Goto(o, pc)
  BY DEF Authorize
<1>2. /\ \A q \in Owner : /\ calls'[q].key = calls[q].key
                          /\ calls'[q].generation = calls[q].generation
                          /\ q # o => calls'[q].pc = calls[q].pc
      /\ calls'[o].pc \in {"done", "cached", "reading"}
  BY <1>1, GotoCalls DEF Pc
<1>3. UNCHANGED <<day, paid>> /\ calls[o].pc = "claimed"
  BY DEF Authorize
<1>4. CASE ~UNCHANGED <<claims, budgetVars>>
  <2>1. Charges(o)
    BY <1>4 DEF Authorize, Charges, NewCharge
  <2>2. QED
    BY <1>2, <1>3, <2>1
<1>5. CASE UNCHANGED <<claims, budgetVars>>
  <2>1. ASSUME calls'[o].pc = "reading", ~Charges(o)
        PROVE  Owns(o, calls[o].key) /\ claims[calls[o].key].reserved
    <3>1. ~Goto(o, "done") /\ ~Goto(o, "cached")
      BY <2>1, GotoCalls DEF Pc
    <3>2. QED
      BY <2>1, <3>1 DEF Authorize, Charges, NewCharge
  <2>2. QED
    BY <1>2, <1>3, <1>5, <2>1
<1>6. QED
  BY <1>4, <1>5

LEMMA AuthorizeKeepsBooks ==
    ASSUME TypeOK, BooksInv, PaidIsCharged, NEW o \in Owner, Authorize(o)
    PROVE  BooksInv' /\ PaidIsCharged'
<1> USE ApiAssumption
<1> DEFINE k == calls[o].key
           g == calls[o].generation
<1>1. k \in Key /\ claims[k] \in ClaimRow
  BY DEF TypeOK, CallState
<1>2. CASE UNCHANGED <<claims, budgetVars>> /\ ~Charges(o)
  <2>1. charges' = charges /\ claims' = claims
    BY <1>2 DEF budgetVars
  <2>2. calls'[o].pc = "reading" => Charged(k, g)
    BY <1>1, <1>2, AuthorizeCases
       DEF BooksInv, OwnersMatch, ReservedIsCharged, Owns
  <2>3. OwnersMatch'
    BY <2>1, AuthorizeCases DEF BooksInv, OwnersMatch
  <2>4. ReservedIsCharged' /\ ChargesKnown' /\ PaidIsCharged'
    BY <2>1, AuthorizeCases
       DEF BooksInv, ReservedIsCharged, ChargesKnown, PaidIsCharged, Charged
  <2>5. WorkIsCharged'
    BY <2>1, <2>2, AuthorizeCases DEF BooksInv, WorkIsCharged, Charged
  <2>6. QED
    BY <2>1, <2>3, <2>4, <2>5 DEF BooksInv
<1>3. CASE Charges(o)
  <2>1. /\ claims' = [claims EXCEPT ![k].reserved = TRUE]
        /\ charges' = charges \cup {NewCharge(o)}
        /\ claims[k].owner = o
    BY <1>3 DEF Charges, Owns
  <2>2. /\ \A l \in Key : /\ claims'[l].owner = claims[l].owner
                          /\ claims'[l].generation = claims[l].generation
                          /\ claims'[l].reserved = IF l = k THEN TRUE
                                                   ELSE claims[l].reserved
    BY <1>1, <2>1 DEF TypeOK, ClaimRow
  <2>3. /\ g = claims[k].generation
        /\ NewCharge(o).key = k /\ NewCharge(o).generation = g
    BY <1>1, <2>1 DEF BooksInv, OwnersMatch, NewCharge
  <2>4. OwnersMatch'
    <3>1. \A q \in Owner : /\ calls'[q].key = calls[q].key
                           /\ calls'[q].generation = calls[q].generation
                           /\ calls[q].pc # "idle" => calls'[q].pc # "idle"
      BY AuthorizeCases
    <3>2. ASSUME NEW l \in Key, NEW q \in Owner, claims'[l].owner = q
          PROVE  /\ calls'[q].pc # "idle"
                 /\ calls'[q].key = l
                 /\ calls'[q].generation = claims'[l].generation
      <4>1. claims[l].owner = q /\ claims'[l].generation = claims[l].generation
        BY <2>2, <3>2
      <4>2. QED
        BY <3>1, <4>1 DEF BooksInv, OwnersMatch
    <3>3. QED
      BY <3>2 DEF OwnersMatch
  <2>5. ReservedIsCharged'
    BY <2>1, <2>2, <2>3 DEF BooksInv, ReservedIsCharged, Charged
  <2>6. ChargesKnown'
    <3>1. claims[k].generation \in Nat
      BY <1>1 DEF ClaimRow, Generation
    <3>2. \A c \in charges : c.key \in Key
      BY DEF TypeOK, Charge
    <3>3. \A c \in charges : /\ c.generation <= claims'[c.key].generation
                             /\ c.generation = claims'[c.key].generation =>
                                  claims'[c.key].reserved
      BY <2>2, <3>2 DEF BooksInv, ChargesKnown
    <3>4. /\ g <= claims'[k].generation
          /\ claims'[k].reserved
      <4>1. claims'[k].generation = claims[k].generation
        BY <1>1, <2>2
      <4>2. claims'[k].reserved
        BY <1>1, <2>2, Zenon
      <4>3. QED
        BY <2>3, <3>1, <4>1, <4>2
    <3>5. QED
      BY <2>1, <2>3, <3>3, <3>4 DEF ChargesKnown
  <2>7. WorkIsCharged'
    BY <2>1, <2>3, AuthorizeCases DEF BooksInv, WorkIsCharged, Charged
  <2>8. PaidIsCharged'
    BY <2>1, AuthorizeCases DEF PaidIsCharged
  <2>9. IsFiniteSet(charges')
    BY <2>1, FS_AddElement DEF BooksInv
  <2>10. QED
    BY <2>4, <2>5, <2>6, <2>7, <2>8, <2>9 DEF BooksInv
<1>4. QED
  BY <1>2, <1>3, AuthorizeCases

LEMMA InitBooks ==
    ASSUME Init
    PROVE  BooksInv /\ PaidIsCharged
<1>1. charges = {} /\ paid = {} /\ IsFiniteSet(charges)
  BY FS_EmptySet DEF Init
<1>2. \A k \in Key : claims[k].owner = NoOwner /\ claims[k].reserved = FALSE
  BY DEF Init, NoClaim
<1>3. \A o \in Owner : calls[o].pc = "idle" /\ o # NoOwner
  BY ApiAssumption DEF Init
<1>4. QED
  BY <1>1, <1>2, <1>3 DEF BooksInv, OwnersMatch, ReservedIsCharged, ChargesKnown,
                          WorkIsCharged, PaidIsCharged

LEMMA BooksStep ==
    ASSUME TypeOK, BooksInv, PaidIsCharged, [Next]_vars
    PROVE  BooksInv' /\ PaidIsCharged'
<1>1. CASE \E o \in Owner, k \in Key : ClaimCall(o, k)
  BY <1>1, ClaimCallKeepsBooks
<1>2. CASE \E o \in Owner : Authorize(o)
  BY <1>2, AuthorizeKeepsBooks
<1>3. CASE \E o \in Owner : CallStep(o)
  BY <1>3, CallStepQuiet, QuietKeepsBooks
<1>4. CASE TimeStep \/ UNCHANGED vars
  BY <1>4, TimeStepQuiet, QuietKeepsBooks
<1>5. QED
  BY <1>1, <1>2, <1>3, <1>4, Steps

\* Whatever claims expire and change hands, no attempt pays the provider but
\* under a reservation that was charged to the budget.
THEOREM PaymentsCharged == Spec => []PaidIsCharged
<1>1. Init => BooksInv /\ PaidIsCharged
  BY InitBooks
<1>2. TypeOK /\ BooksInv /\ PaidIsCharged /\ [Next]_vars => BooksInv' /\ PaidIsCharged'
  BY BooksStep
<1>3. QED
  BY <1>1, <1>2, TypeCorrect, PTL DEF Spec

-----------------------------------------------------------------------------
(***************************************************************************)
(* Counting charges.                                                       *)
(***************************************************************************)
OnDay(d) == {c \in charges : c.day = d}

NormalOnDay(d) == {c \in charges : c.day = d /\ c.owner \in Normal}

\* No generation is charged that was charged before.
LEMMA ChargeIsNew ==
    ASSUME TypeOK, BooksInv, NEW o \in Owner, Charges(o)
    PROVE  \A c \in charges : ~(/\ c.key = NewCharge(o).key
                                /\ c.generation = NewCharge(o).generation)
<1> DEFINE k == calls[o].key
<1>1. k \in Key
  BY DEF TypeOK, CallState
<1>2. claims[k].owner = o /\ ~claims[k].reserved
  BY DEF Charges, Owns
<1>3. calls[o].generation = claims[k].generation
  BY <1>1, <1>2 DEF BooksInv, OwnersMatch
<1>4. NewCharge(o).key = k /\ NewCharge(o).generation = claims[k].generation
  BY <1>3 DEF NewCharge
<1>5. QED
  BY <1>2, <1>4 DEF BooksInv, ChargesKnown

\* A charge adds one to its day's charges, and to the normal ones if it is one.
LEMMA ChargeCounts ==
    ASSUME TypeOK, BooksInv, NEW o \in Owner, Charges(o), NEW d \in Day
    PROVE  /\ Cardinality(OnDay(d)) \in Nat
           /\ Cardinality(OnDay(d)') =
                IF d = day THEN Cardinality(OnDay(d)) + 1 ELSE Cardinality(OnDay(d))
           /\ Cardinality(NormalOnDay(d)') <= Cardinality(OnDay(d)')
           /\ ~(d = day /\ o \in Normal) => NormalOnDay(d)' = NormalOnDay(d)
<1> DEFINE x == NewCharge(o)
<1>1. charges' = charges \cup {x} /\ x \notin charges
  BY ChargeIsNew DEF Charges
<1>2. x.day = day /\ x.owner = o
  BY DEF NewCharge
<1>3. IsFiniteSet(OnDay(d)) /\ IsFiniteSet(charges')
  BY <1>1, FS_Subset, FS_AddElement DEF BooksInv, OnDay
<1>4. Cardinality(OnDay(d)) \in Nat
  BY <1>3, FS_CardinalityType
<1>5. ASSUME d = day
      PROVE  Cardinality(OnDay(d)') = Cardinality(OnDay(d)) + 1
  <2>1. OnDay(d)' = OnDay(d) \cup {x} /\ x \notin OnDay(d)
    BY <1>1, <1>2, <1>5 DEF OnDay
  <2>2. Cardinality(OnDay(d) \cup {x}) = Cardinality(OnDay(d)) + 1
    BY <1>3, <2>1, FS_AddElement
  <2>3. Cardinality(OnDay(d)') = Cardinality(OnDay(d)) + 1
    BY <2>1, <2>2, Zenon
  <2>4. QED
    BY <2>3
<1>6. ASSUME d # day
      PROVE  Cardinality(OnDay(d)') = Cardinality(OnDay(d))
  <2>1. OnDay(d)' = OnDay(d)
    BY <1>1, <1>2, <1>6 DEF OnDay
  <2>2. QED
    BY <2>1, Zenon
<1>7. Cardinality(NormalOnDay(d)') <= Cardinality(OnDay(d)')
  <2>1. NormalOnDay(d)' \subseteq OnDay(d)'
    BY DEF NormalOnDay, OnDay
  <2>2. OnDay(d)' \subseteq charges'
    BY DEF OnDay
  <2>3. IsFiniteSet(OnDay(d)')
    BY <1>3, <2>2, FS_Subset
  <2>4. QED
    BY <2>1, <2>3, FS_Subset
<1>8. ~(d = day /\ o \in Normal) => NormalOnDay(d)' = NormalOnDay(d)
  BY <1>1, <1>2 DEF NormalOnDay
<1>9. Cardinality(OnDay(d)') =
        IF d = day THEN Cardinality(OnDay(d)) + 1 ELSE Cardinality(OnDay(d))
  BY <1>5, <1>6
<1>10. QED
  BY <1>4, <1>7, <1>8, <1>9

\* The reserve's share and the count of the day, after a charge.
LEMMA ChargeUses ==
    ASSUME TypeOK, NEW o \in Owner, Charges(o), NEW d \in Day,
           reservedUsed[d] = FromReserve(used[d])
    PROVE  /\ used'[d] = IF d = day THEN used[d] + 1 ELSE used[d]
           /\ d = day => used'[d] <= Ceiling(o)
           /\ reservedUsed'[d] = FromReserve(used'[d])
<1> USE ApiAssumption
<1>1. used[d] \in Nat /\ reservedUsed[d] \in Nat /\ day \in Day
  BY DEF TypeOK
<1>2. /\ used'[d] = IF d = day THEN used[d] + 1 ELSE used[d]
      /\ d = day => used'[d] <= Ceiling(o)
  BY <1>1 DEF Charges, TypeOK
<1>3. CASE d # day
  BY <1>1, <1>2, <1>3 DEF Charges, TypeOK
<1>4. CASE d = day /\ o \in Normal
  <2>1. used[d] + 1 <= DailyLimit - ReservedLimit
    BY <1>2, <1>4 DEF Ceiling
  <2>2. FromReserve(used[d]) = 0 /\ FromReserve(used[d] + 1) = 0
    BY <1>1, <2>1, ReserveGrows
  <2>3. reservedUsed' = reservedUsed
    BY <1>4 DEF Charges
  <2>4. QED
    BY <1>2, <1>4, <2>2, <2>3
<1>5. CASE d = day /\ o \notin Normal
  <2>1. reservedUsed'[d] =
          reservedUsed[d] + (FromReserve(used[d] + 1) - FromReserve(used[d]))
    BY <1>5 DEF Charges, TypeOK
  <2>2. FromReserve(used[d]) \in Nat /\ FromReserve(used[d] + 1) \in Nat
    BY <1>1, ReserveGrows
  <2>3. QED
    BY <1>2, <1>5, <2>1, <2>2
<1>6. QED
  BY <1>2, <1>3, <1>4, <1>5

\* A step charges the budget by an authorization or not at all.
LEMMA ChargesOrNot ==
    ASSUME TypeOK, [Next]_vars
    PROVE  UNCHANGED budgetVars \/ \E o \in Owner : Charges(o)
<1>1. CASE \E o \in Owner, k \in Key : ClaimCall(o, k)
  BY <1>1 DEF ClaimCall
<1>2. CASE \E o \in Owner : Authorize(o)
  BY <1>2, AuthorizeCases
<1>3. CASE \E o \in Owner : CallStep(o)
  BY <1>3, CallStepQuiet DEF Quiet
<1>4. CASE TimeStep \/ UNCHANGED vars
  BY <1>4, TimeStepQuiet DEF Quiet
<1>5. QED
  BY <1>1, <1>2, <1>3, <1>4, Steps

LEMMA ChargedOnceStep ==
    ASSUME TypeOK, BooksInv, ChargedOnce, [Next]_vars
    PROVE  ChargedOnce'
<1>1. CASE UNCHANGED budgetVars
  BY <1>1 DEF budgetVars, ChargedOnce
<1>2. ASSUME NEW o \in Owner, Charges(o)
      PROVE  ChargedOnce'
  <2>1. charges' = charges \cup {NewCharge(o)}
    BY <1>2 DEF Charges
  <2>2. ASSUME NEW c \in charges', NEW e \in charges',
               c.key = e.key, c.generation = e.generation
        PROVE  c = e
    BY <1>2, <2>1, <2>2, ChargeIsNew DEF ChargedOnce
  <2>3. ASSUME NEW d \in Day
        PROVE  used'[d] = Cardinality(OnDay(d)')
    <3>1. used[d] = Cardinality(OnDay(d))
      BY DEF ChargedOnce, OnDay
    <3>2. used'[d] = IF d = day THEN used[d] + 1 ELSE used[d]
      BY <1>2 DEF Charges, TypeOK
    <3>3. QED
      BY <1>2, <3>1, <3>2, ChargeCounts
  <2>4. QED
    BY <2>2, <2>3 DEF ChargedOnce, OnDay
<1>3. QED
  BY <1>1, <1>2, ChargesOrNot

LEMMA BudgetStep ==
    ASSUME TypeOK, BooksInv, ChargedOnce, BudgetHeld, [Next]_vars
    PROVE  BudgetHeld'
<1> USE ApiAssumption
<1>1. CASE UNCHANGED budgetVars
  BY <1>1 DEF budgetVars, BudgetHeld
<1>2. ASSUME NEW o \in Owner, Charges(o)
      PROVE  BudgetHeld'
  <2>1. ASSUME NEW d \in Day
        PROVE  /\ used'[d] <= DailyLimit
               /\ reservedUsed'[d] = FromReserve(used'[d])
               /\ Cardinality(NormalOnDay(d)') <= DailyLimit - ReservedLimit
    <3>1. /\ used[d] <= DailyLimit
          /\ reservedUsed[d] = FromReserve(used[d])
          /\ Cardinality(NormalOnDay(d)) <= DailyLimit - ReservedLimit
          /\ used[d] \in Nat
      BY DEF BudgetHeld, NormalOnDay, TypeOK
    <3>2. /\ used'[d] = IF d = day THEN used[d] + 1 ELSE used[d]
          /\ d = day => used'[d] <= Ceiling(o)
          /\ reservedUsed'[d] = FromReserve(used'[d])
      BY <1>2, <3>1, ChargeUses
    <3>3. Ceiling(o) <= DailyLimit
      BY DEF Ceiling
    <3>4. Ceiling(o) \in Nat
      BY DEF Ceiling
    <3>5. used'[d] <= DailyLimit
      BY <3>1, <3>2, <3>3, <3>4
    <3>6. used'[d] = Cardinality(OnDay(d)')
      BY <1>2, ChargedOnceStep DEF ChargedOnce, OnDay
    <3>7. Cardinality(NormalOnDay(d)') <= DailyLimit - ReservedLimit
      <4>1. CASE d = day /\ o \in Normal
        <5>1. Ceiling(o) = DailyLimit - ReservedLimit
          BY <4>1 DEF Ceiling
        <5>2. Cardinality(NormalOnDay(d)') <= used'[d]
          BY <1>2, <3>6, ChargeCounts
        <5>3. Cardinality(NormalOnDay(d)') \in Nat
          <6>1. charges' = charges \cup {NewCharge(o)}
            BY <1>2 DEF Charges
          <6>2. IsFiniteSet(charges')
            BY <6>1, FS_AddElement DEF BooksInv
          <6>3. NormalOnDay(d)' \subseteq charges'
            BY DEF NormalOnDay
          <6>4. IsFiniteSet(NormalOnDay(d)')
            BY <6>2, <6>3, FS_Subset
          <6>5. QED
            BY <6>4, FS_CardinalityType
        <5>4. used'[d] \in Nat
          BY <3>1, <3>2
        <5>5. QED
          BY <3>2, <4>1, <5>1, <5>2, <5>3, <5>4
      <4>2. CASE ~(d = day /\ o \in Normal)
        BY <1>2, <3>1, <4>2, ChargeCounts
      <4>3. QED
        BY <4>1, <4>2
    <3>8. QED
      BY <3>2, <3>5, <3>7
  <2>2. QED
    BY <2>1 DEF BudgetHeld, NormalOnDay
<1>3. QED
  BY <1>1, <1>2, ChargesOrNot

LEMMA InitBudget ==
    ASSUME Init
    PROVE  ChargedOnce /\ BudgetHeld
<1> USE ApiAssumption
<1>1. charges = {} /\ \A d \in Day : used[d] = 0 /\ reservedUsed[d] = 0
  BY DEF Init
<1>2. \A d \in Day : OnDay(d) = {} /\ NormalOnDay(d) = {}
  BY <1>1 DEF OnDay, NormalOnDay
<1>3. Cardinality({}) = 0
  BY FS_EmptySet
<1>4. DailyLimit - ReservedLimit \in Nat /\ FromReserve(0) = 0
  BY ReserveGrows
<1>5. ChargedOnce
  BY <1>1, <1>2, <1>3 DEF ChargedOnce, OnDay
<1>6. BudgetHeld
  BY <1>1, <1>2, <1>3, <1>4 DEF BudgetHeld, NormalOnDay
<1>7. QED
  BY <1>5, <1>6

\* A generation of a claim is charged at most once, through any crashes and
\* takeovers, and used_count counts exactly the charges of its day.
THEOREM OneCharge == Spec => []ChargedOnce
<1>1. Init => BooksInv /\ PaidIsCharged /\ ChargedOnce
  BY InitBooks, InitBudget
<1>2. /\ TypeOK /\ BooksInv /\ PaidIsCharged /\ ChargedOnce /\ [Next]_vars
      => BooksInv' /\ PaidIsCharged' /\ ChargedOnce'
  BY BooksStep, ChargedOnceStep
<1>3. QED
  BY <1>1, <1>2, TypeCorrect, PTL DEF Spec

\* The day's limit holds, and normal validation never spends the reserve.
THEOREM BudgetRespected == Spec => []BudgetHeld
<1>1. Init => BooksInv /\ PaidIsCharged /\ ChargedOnce /\ BudgetHeld
  BY InitBooks, InitBudget
<1>2. /\ TypeOK /\ BooksInv /\ PaidIsCharged /\ ChargedOnce /\ BudgetHeld
      /\ [Next]_vars
      => BooksInv' /\ PaidIsCharged' /\ ChargedOnce' /\ BudgetHeld'
  BY BooksStep, ChargedOnceStep, BudgetStep
<1>3. QED
  BY <1>1, <1>2, TypeCorrect, PTL DEF Spec

-----------------------------------------------------------------------------
(***************************************************************************)
(* The usage ledger and the staged responses.  What makes them exact is    *)
(* that a row of the ledger, the flag on the claim and the place its owner *)
(* has reached go together: a recorded claim has its row, a claim that is  *)
(* not recorded has none yet, and who is about to complete a claim has     *)
(* published a response and has the row of his generation.                 *)
(***************************************************************************)
Accounted(k, g) == \E r \in usage : r.key = k /\ r.generation = g

UsageKnown ==
    \A r \in usage : r.owner \notin Probing =>
      /\ r.generation <= claims[r.key].generation
      /\ r.generation = claims[r.key].generation => claims[r.key].recorded

RecordedIsAccounted ==
    \A k \in Key : claims[k].recorded => Accounted(k, claims[k].generation)

CompletingIsAccounted ==
    \A o \in Owner : calls[o].pc = "completing" =>
      Accounted(calls[o].key, calls[o].generation)

PublishedIsCached ==
    \A o \in Owner : calls[o].pc \in {"recording", "completing"} =>
      cache[calls[o].key].response # NoOwner

\* A response recovered by a call that lost its claim may be of a younger
\* generation than the call: it is published, never staged again.
ResponseInHand ==
    \A o \in Owner :
      /\ calls[o].pc \in {"staging", "publishing"} => calls[o].response # NoOwner
      /\ calls[o].pc = "staging" =>
           [key |-> calls[o].key, generation |-> calls[o].generation,
            owner |-> calls[o].response] \in paid

LedgerInv == /\ UsageKnown /\ RecordedIsAccounted /\ CompletingIsAccounted
             /\ PublishedIsCached /\ ResponseInHand
             /\ LedgerExact

\* The call of o moves on, within its key and generation, and no other does.
OnlyCall(o) ==
    /\ \A q \in Owner : /\ calls'[q].key = calls[q].key
                        /\ calls'[q].generation = calls[q].generation
    /\ \A q \in Owner : q # o => calls'[q] = calls[q]

LEMMA GotoOnlyCall ==
    ASSUME TypeOK, NEW o \in Owner, NEW pc \in Pc, Goto(o, pc)
    PROVE  OnlyCall(o) /\ calls'[o].pc = pc /\ calls'[o].response = calls[o].response
<1>1. calls \in [Owner -> CallState] /\ calls[o] \in CallState
  BY DEF TypeOK
<1>2. calls' = [calls EXCEPT ![o] = [calls[o] EXCEPT !.pc = pc]]
  BY <1>1 DEF Goto
<1>3. /\ calls'[o] = [calls[o] EXCEPT !.pc = pc]
      /\ \A q \in Owner : q # o => calls'[q] = calls[q]
  BY <1>1, <1>2
<1>4. /\ calls'[o].pc = pc /\ calls'[o].response = calls[o].response
      /\ calls'[o].key = calls[o].key /\ calls'[o].generation = calls[o].generation
  BY <1>1, <1>3 DEF CallState
<1>5. QED
  BY <1>3, <1>4 DEF OnlyCall

\* What a step that touches neither ledger nor staged response leaves alone.
Still ==
    /\ usage' = usage /\ paid \subseteq paid'
    /\ \A k \in Key : /\ claims'[k].generation = claims[k].generation
                      /\ claims'[k].staged = claims[k].staged
                      /\ claims'[k].recorded = claims[k].recorded
                      /\ claims'[k].completed = claims[k].completed
                      /\ cache'[k].response = cache[k].response
    /\ \A o \in Owner :
         /\ calls'[o].key = calls[o].key
         /\ calls'[o].generation = calls[o].generation
         /\ \/ calls'[o].pc \notin {"staging", "publishing", "recording", "completing"}
            \/ calls'[o].pc = calls[o].pc /\ calls'[o].response = calls[o].response
            \/ calls'[o].pc = "publishing" /\ calls'[o].response # NoOwner
            \/ /\ calls'[o].pc = "staging" /\ calls'[o].response # NoOwner
               /\ [key |-> calls[o].key, generation |-> calls[o].generation,
                   owner |-> calls'[o].response] \in paid'

LEMMA StillKeepsLedger ==
    ASSUME TypeOK, LedgerInv, Still
    PROVE  LedgerInv'
<1>1. usage' = usage /\ \A k \in Key : \A g : Accounted(k, g)' <=> Accounted(k, g)
  BY DEF Still, Accounted
<1>2. \A r \in usage : r.key \in Key
  BY DEF TypeOK, UsageRow
<1>3. \A o \in Owner : calls[o].key \in Key
  BY DEF TypeOK, CallState
<1>4. UsageKnown'
  BY <1>1, <1>2 DEF LedgerInv, UsageKnown, Still
<1>5. RecordedIsAccounted'
  BY <1>1 DEF LedgerInv, RecordedIsAccounted, Accounted, Still
<1>6. CompletingIsAccounted'
  <2>1. SUFFICES ASSUME NEW o \in Owner, calls'[o].pc = "completing"
                 PROVE  \E r \in usage' : /\ r.key = calls'[o].key
                                         /\ r.generation = calls'[o].generation
    BY DEF CompletingIsAccounted, Accounted
  <2>2. /\ calls[o].pc = "completing"
        /\ calls'[o].key = calls[o].key /\ calls'[o].generation = calls[o].generation
    BY <2>1 DEF Still
  <2>3. QED
    BY <1>1, <2>2 DEF LedgerInv, CompletingIsAccounted, Accounted
<1>7. PublishedIsCached'
  <2>1. SUFFICES ASSUME NEW o \in Owner, calls'[o].pc \in {"recording", "completing"}
                 PROVE  cache'[calls'[o].key].response # NoOwner
    BY DEF PublishedIsCached
  <2>2. calls[o].pc \in {"recording", "completing"} /\ calls'[o].key = calls[o].key
    BY <2>1 DEF Still
  <2>3. cache'[calls[o].key].response = cache[calls[o].key].response
    BY <1>3 DEF Still
  <2>4. QED
    BY <2>2, <2>3 DEF LedgerInv, PublishedIsCached
<1>8. ResponseInHand'
  BY DEF LedgerInv, ResponseInHand, Still
<1>9. UsageOnce'
  BY <1>1 DEF LedgerInv, LedgerExact, UsageOnce
<1>10. CompletedIsAccounted'
  BY <1>1 DEF LedgerInv, LedgerExact, CompletedIsAccounted, Still
<1>11. StagedOfGeneration'
  BY DEF LedgerInv, LedgerExact, StagedOfGeneration, Still
<1>12. QED
  BY <1>4, <1>5, <1>6, <1>7, <1>8, <1>9, <1>10, <1>11 DEF LedgerInv, LedgerExact

LEMMA TimeStepStill ==
    ASSUME TypeOK, TimeStep \/ UNCHANGED vars
    PROVE  Still
<1>1. UNCHANGED <<calls, usage, paid>>
  BY DEF TimeStep, ClaimExpires, CacheExpires, NextDay, vars
<1>2. \/ claims' = claims
      \/ \E k \in Key : claims' = [claims EXCEPT ![k].live = FALSE]
  BY DEF TimeStep, ClaimExpires, CacheExpires, NextDay, vars
<1>3. \/ cache' = cache
      \/ \E k \in Key : cache' = [cache EXCEPT ![k].fresh = FALSE]
  BY DEF TimeStep, ClaimExpires, CacheExpires, NextDay, vars
<1>4. \A k \in Key : /\ claims'[k].generation = claims[k].generation
                     /\ claims'[k].staged = claims[k].staged
                     /\ claims'[k].recorded = claims[k].recorded
                     /\ claims'[k].completed = claims[k].completed
  BY <1>2 DEF TypeOK, ClaimRow
<1>5. \A k \in Key : cache'[k].response = cache[k].response
  BY <1>3 DEF TypeOK, CacheRow
<1>6. QED
  BY <1>1, <1>4, <1>5 DEF Still

LEMMA AuthorizeStill ==
    ASSUME TypeOK, NEW o \in Owner, Authorize(o)
    PROVE  Still
<1>1. UNCHANGED <<cache, usage, paid>>
  BY DEF Authorize
<1>2. PICK pc \in {"done", "cached", "reading"} : Goto(o, pc)
  BY DEF Authorize
<1>3. OnlyCall(o) /\ calls'[o].pc = pc
  BY <1>2, GotoOnlyCall DEF Pc
<1>4. \/ claims' = claims
      \/ claims' = [claims EXCEPT ![calls[o].key].reserved = TRUE]
  BY DEF Authorize
<1>5. \A k \in Key : /\ claims'[k].generation = claims[k].generation
                     /\ claims'[k].staged = claims[k].staged
                     /\ claims'[k].recorded = claims[k].recorded
                     /\ claims'[k].completed = claims[k].completed
  BY <1>4 DEF TypeOK, ClaimRow
<1>6. QED
  BY <1>1, <1>3, <1>5 DEF Still, OnlyCall

\* Reading a staged response and fetching a new one only touch the call.
LEMMA QuietCallStill ==
    ASSUME TypeOK, NEW o \in Owner,
           ReadStaged(o) \/ Fetch(o) \/ FetchFails(o) \/ ReadCache(o) \/ Abort(o)
    PROVE  Still
<1> USE ApiAssumption
<1> DEFINE k == calls[o].key
<1>1. /\ calls \in [Owner -> CallState] /\ calls[o] \in CallState /\ k \in Key
      /\ claims[k] \in ClaimRow
  BY DEF TypeOK, CallState
<1>2. UNCHANGED <<claims, cache, usage>> /\ paid \subseteq paid'
  BY DEF ReadStaged, Fetch, FetchFails, ReadCache, Abort
<1>3. CASE FetchFails(o) \/ Abort(o)
  <2>1. PICK pc \in {"reporting", "done"} : Goto(o, pc)
    BY <1>3 DEF FetchFails, Abort
  <2>2. OnlyCall(o) /\ calls'[o].pc = pc
    BY <2>1, GotoOnlyCall DEF Pc
  <2>3. QED
    BY <1>2, <2>2 DEF Still, OnlyCall
<1>4. CASE ReadStaged(o)
  <2>1. CASE Recovers(o, claims[k].staged)
    <3>1. calls' = [calls EXCEPT ![o] = [calls[o] EXCEPT !.pc = "publishing",
                                                       !.response = claims[k].staged]]
      BY <1>4, <2>1 DEF ReadStaged
    <3>2. /\ calls'[o] = [calls[o] EXCEPT !.pc = "publishing",
                                        !.response = claims[k].staged]
          /\ \A q \in Owner : q # o => calls'[q] = calls[q]
      BY <1>1, <3>1
    <3>3. /\ calls'[o].pc = "publishing" /\ calls'[o].response = claims[k].staged
          /\ calls'[o].key = k /\ calls'[o].generation = calls[o].generation
      BY <1>1, <3>2 DEF CallState
    <3>4. claims[k].staged # NoOwner
      BY <2>1 DEF Recovers
    <3>5. QED
      BY <1>2, <3>2, <3>3, <3>4 DEF Still
  <2>2. CASE ~Recovers(o, claims[k].staged)
    <3>1. Goto(o, "fetching")
      BY <1>1, <1>4, <2>2 DEF ReadStaged, Goto
    <3>2. OnlyCall(o) /\ calls'[o].pc = "fetching"
      BY <3>1, GotoOnlyCall DEF Pc
    <3>3. QED
      BY <1>2, <3>2 DEF Still, OnlyCall
  <2>3. QED
    BY <2>1, <2>2
<1>5. CASE Fetch(o)
  <2>1. calls' = [calls EXCEPT ![o] = [calls[o] EXCEPT !.pc = "staging", !.response = o]]
    BY <1>5 DEF Fetch
  <2>2. /\ calls'[o] = [calls[o] EXCEPT !.pc = "staging", !.response = o]
        /\ \A q \in Owner : q # o => calls'[q] = calls[q]
    BY <1>1, <2>1
  <2>3. /\ calls'[o].pc = "staging" /\ calls'[o].response = o
        /\ calls'[o].key = k /\ calls'[o].generation = calls[o].generation
    BY <1>1, <2>2 DEF CallState
  <2>4. [key |-> k, generation |-> calls[o].generation, owner |-> o] \in paid'
    BY <1>5 DEF Fetch
  <2>5. QED
    BY <1>2, <2>2, <2>3, <2>4 DEF Still
<1>6. CASE ReadCache(o)
  <2>1. calls' = [calls EXCEPT ![o] = [calls[o] EXCEPT !.pc = "done",
                                                     !.response = cache[k].response]]
    BY <1>6 DEF ReadCache
  <2>2. /\ calls'[o] = [calls[o] EXCEPT !.pc = "done", !.response = cache[k].response]
        /\ \A q \in Owner : q # o => calls'[q] = calls[q]
    BY <1>1, <2>1
  <2>3. /\ calls'[o].pc = "done"
        /\ calls'[o].key = k /\ calls'[o].generation = calls[o].generation
    BY <1>1, <2>2 DEF CallState
  <2>4. QED
    BY <1>2, <2>2, <2>3 DEF Still
<1>7. QED
  BY <1>3, <1>4, <1>5, <1>6

\* A takeover inherits the flags with the rows they stand for, a blank claim
\* starts a generation no row has reached.
LEMMA ClaimCallKeepsLedger ==
    ASSUME TypeOK, BooksInv, LedgerInv, NEW o \in Owner, NEW k \in Key,
           ClaimCall(o, k)
    PROVE  LedgerInv'
<1> USE ApiAssumption
<1>1. /\ UNCHANGED <<cache, usage, paid>>
      /\ calls \in [Owner -> CallState] /\ calls[o] \in CallState
      /\ claims \in [Key -> ClaimRow] /\ claims[k] \in ClaimRow
  BY DEF ClaimCall, TypeOK
<1>2. /\ \A q \in Owner : q # o => calls'[q] = calls[q]
      /\ calls'[o].pc \in {"cached", "done", "claimed"}
  <2>1. \/ calls' = [calls EXCEPT ![o] = [calls[o] EXCEPT !.pc = "cached", !.key = k]]
        \/ calls' = [calls EXCEPT ![o] = [calls[o] EXCEPT !.pc = "done", !.key = k]]
        \/ calls' = [calls EXCEPT ![o] =
                       [calls[o] EXCEPT !.pc = "claimed", !.key = k,
                                        !.generation = claims'[k].generation]]
    BY DEF ClaimCall
  <2>2. /\ \A q \in Owner : q # o => calls'[q] = calls[q]
        /\ \/ calls'[o] = [calls[o] EXCEPT !.pc = "cached", !.key = k]
           \/ calls'[o] = [calls[o] EXCEPT !.pc = "done", !.key = k]
           \/ calls'[o] = [calls[o] EXCEPT !.pc = "claimed", !.key = k,
                                           !.generation = claims'[k].generation]
    BY <1>1, <2>1
  <2>3. QED
    BY <1>1, <2>2 DEF CallState
<1>3. \A l \in Key : \A g : Accounted(l, g)' <=> Accounted(l, g)
  BY <1>1 DEF Accounted
<1>4. CompletingIsAccounted' /\ PublishedIsCached' /\ ResponseInHand' /\ UsageOnce'
  <2>1. CompletingIsAccounted'
    BY <1>1, <1>2 DEF LedgerInv, CompletingIsAccounted, Accounted
  <2>2. PublishedIsCached'
    BY <1>1, <1>2 DEF LedgerInv, PublishedIsCached
  <2>3. ResponseInHand'
    BY <1>1, <1>2 DEF LedgerInv, ResponseInHand
  <2>4. UsageOnce'
    BY <1>1 DEF LedgerInv, LedgerExact, UsageOnce
  <2>5. QED
    BY <2>1, <2>2, <2>3, <2>4
<1>5. CASE claims' = claims
  <2>1. UsageKnown' /\ RecordedIsAccounted'
    BY <1>1, <1>5 DEF LedgerInv, UsageKnown, RecordedIsAccounted, Accounted
  <2>2. CompletedIsAccounted' /\ StagedOfGeneration'
    BY <1>1, <1>5 DEF LedgerInv, LedgerExact, CompletedIsAccounted, StagedOfGeneration
  <2>3. QED
    BY <1>4, <2>1, <2>2 DEF LedgerInv, LedgerExact
<1>6. CASE claims' # claims
  <2>1. claims' = [claims EXCEPT ![k] = Claimed(claims[k], o)]
    BY <1>6 DEF ClaimCall
  <2>2. claims'[k] = Claimed(claims[k], o) /\ \A l \in Key \ {k} : claims'[l] = claims[l]
    BY <1>1, <2>1
  <2>3. \/ /\ claims'[k].generation = claims[k].generation
           /\ claims'[k].staged = claims[k].staged
           /\ claims'[k].recorded = claims[k].recorded
           /\ claims'[k].completed = claims[k].completed
        \/ /\ claims'[k].generation = claims[k].generation + 1
           /\ claims'[k].staged = NoOwner
           /\ claims'[k].recorded = FALSE /\ claims'[k].completed = FALSE
    <3>1. CASE claims[k].owner = NoOwner \/ claims[k].completed
      <4>1. claims'[k] = [NoClaim EXCEPT !.owner = o, !.live = TRUE,
                                         !.generation = claims[k].generation + 1]
        BY <2>2, <3>1 DEF Claimed
      <4>2. QED
        BY <4>1 DEF NoClaim
    <3>2. CASE ~(claims[k].owner = NoOwner \/ claims[k].completed)
      <4>1. claims'[k] = [claims[k] EXCEPT !.owner = o, !.live = TRUE]
        BY <2>2, <3>2 DEF Claimed
      <4>2. QED
        BY <1>1, <4>1 DEF ClaimRow
    <3>3. QED
      BY <3>1, <3>2
  <2>4. UsageKnown'
    <3>1. SUFFICES ASSUME NEW r \in usage, r.owner \notin Probing
                   PROVE  /\ r.generation <= claims'[r.key].generation
                          /\ r.generation = claims'[r.key].generation =>
                               claims'[r.key].recorded
      BY <1>1 DEF UsageKnown
    <3>2. /\ r.key \in Key /\ r.generation \in Nat
          /\ claims[r.key].generation \in Nat
      BY DEF TypeOK, UsageRow, ClaimRow, Generation
    <3>3. /\ r.generation <= claims[r.key].generation
          /\ r.generation = claims[r.key].generation => claims[r.key].recorded
      BY <3>1 DEF LedgerInv, UsageKnown
    <3>4. QED
      BY <2>2, <2>3, <3>2, <3>3
  <2>5. RecordedIsAccounted'
    BY <1>1, <2>2, <2>3 DEF LedgerInv, RecordedIsAccounted, Accounted
  <2>6. CompletedIsAccounted'
    BY <1>1, <2>2, <2>3 DEF LedgerInv, LedgerExact, CompletedIsAccounted
  <2>7. StagedOfGeneration'
    BY <1>1, <2>2, <2>3 DEF LedgerInv, LedgerExact, StagedOfGeneration
  <2>8. QED
    BY <1>4, <2>4, <2>5, <2>6, <2>7 DEF LedgerInv, LedgerExact
<1>7. QED
  BY <1>5, <1>6

\* The steps that write the ledger, the cache or the claim.
LEMMA StageKeepsLedger ==
    ASSUME TypeOK, BooksInv, LedgerInv, NEW o \in Owner, Stage(o)
    PROVE  LedgerInv'
<1> USE ApiAssumption
<1> DEFINE k == calls[o].key
<1>1. /\ k \in Key /\ claims \in [Key -> ClaimRow] /\ claims[k] \in ClaimRow
      /\ UNCHANGED <<cache, usage, paid>> /\ calls[o].pc = "staging"
  BY DEF Stage, TypeOK, CallState
<1>2. CASE ~Stages(o, k)
  <2>1. Goto(o, "done") /\ claims' = claims
    BY <1>2 DEF Stage
  <2>2. OnlyCall(o) /\ calls'[o].pc = "done"
    BY <2>1, GotoOnlyCall DEF Pc
  <2>3. Still
    BY <1>1, <2>1, <2>2 DEF Still, OnlyCall
  <2>4. QED
    BY <2>3, StillKeepsLedger
<1>3. CASE Stages(o, k)
  <2>1. /\ Goto(o, "publishing") /\ claims[k].owner = o
        /\ claims' = [claims EXCEPT ![k] = [claims[k] EXCEPT !.staged = calls[o].response]]
    BY <1>1, <1>3 DEF Stage, Stages
  <2>2. /\ OnlyCall(o) /\ calls'[o].pc = "publishing"
        /\ calls'[o].response = calls[o].response
    BY <2>1, GotoOnlyCall DEF Pc
  <2>3. /\ claims'[k] = [claims[k] EXCEPT !.staged = calls[o].response]
        /\ \A l \in Key \ {k} : claims'[l] = claims[l]
    BY <1>1, <2>1
  <2>4. /\ claims'[k].staged = calls[o].response
        /\ claims'[k].generation = claims[k].generation
        /\ claims'[k].recorded = claims[k].recorded
        /\ claims'[k].completed = claims[k].completed
    BY <1>1, <2>3 DEF ClaimRow
  <2>5. /\ calls[o].response # NoOwner
        /\ [key |-> k, generation |-> claims[k].generation,
            owner |-> calls[o].response] \in paid
    BY <1>1, <2>1 DEF LedgerInv, ResponseInHand, BooksInv, OwnersMatch
  <2>6. StagedOfGeneration'
    BY <1>1, <2>3, <2>4, <2>5 DEF LedgerInv, LedgerExact, StagedOfGeneration
  <2>7. \A l \in Key : /\ claims'[l].generation = claims[l].generation
                       /\ claims'[l].recorded = claims[l].recorded
                       /\ claims'[l].completed = claims[l].completed
    BY <2>3, <2>4
  <2>8. UsageKnown'
    BY <1>1, <2>7 DEF LedgerInv, UsageKnown, TypeOK, UsageRow
  <2>9. RecordedIsAccounted'
    BY <1>1, <2>7 DEF LedgerInv, RecordedIsAccounted, Accounted
  <2>10. CompletingIsAccounted' /\ PublishedIsCached'
    BY <1>1, <2>2 DEF LedgerInv, CompletingIsAccounted, PublishedIsCached, Accounted,
                      OnlyCall
  <2>11. ResponseInHand'
    BY <1>1, <2>2, <2>5 DEF LedgerInv, ResponseInHand, OnlyCall
  <2>12. UsageOnce' /\ CompletedIsAccounted'
    BY <1>1, <2>7 DEF LedgerInv, LedgerExact, UsageOnce, CompletedIsAccounted
  <2>13. QED
    BY <2>6, <2>8, <2>9, <2>10, <2>11, <2>12 DEF LedgerInv, LedgerExact
<1>4. QED
  BY <1>2, <1>3

LEMMA PublishKeepsLedger ==
    ASSUME TypeOK, LedgerInv, NEW o \in Owner, Publish(o)
    PROVE  LedgerInv'
<1> USE ApiAssumption
<1> DEFINE k == calls[o].key
<1>1. /\ k \in Key /\ UNCHANGED <<claims, usage, paid>>
      /\ calls[o].pc = "publishing" /\ Goto(o, "recording")
      /\ cache' = [cache EXCEPT ![k] = [response |-> calls[o].response, fresh |-> TRUE]]
  BY DEF Publish, TypeOK, CallState
<1>2. OnlyCall(o) /\ calls'[o].pc = "recording"
  BY <1>1, GotoOnlyCall DEF Pc
<1>3. calls[o].response # NoOwner
  BY <1>1 DEF LedgerInv, ResponseInHand
<1>4. /\ cache'[k].response # NoOwner
      /\ \A l \in Key \ {k} : cache'[l] = cache[l]
  BY <1>1, <1>3 DEF TypeOK
<1>5. \A q \in Owner : calls[q].key \in Key
  BY DEF TypeOK, CallState
<1>6. PublishedIsCached'
  BY <1>2, <1>4, <1>5 DEF LedgerInv, PublishedIsCached, OnlyCall
<1>7. CompletedIsAccounted'
  BY <1>1, <1>4 DEF LedgerInv, LedgerExact, CompletedIsAccounted
<1>8. CompletingIsAccounted' /\ ResponseInHand'
  BY <1>1, <1>2 DEF LedgerInv, CompletingIsAccounted, ResponseInHand, Accounted, OnlyCall
<1>9. UsageKnown' /\ RecordedIsAccounted' /\ UsageOnce' /\ StagedOfGeneration'
  BY <1>1 DEF LedgerInv, LedgerExact, UsageKnown, RecordedIsAccounted, Accounted,
              UsageOnce, StagedOfGeneration
<1>10. QED
  BY <1>6, <1>7, <1>8, <1>9 DEF LedgerInv, LedgerExact

\* A row of the ledger is written by a Probing owner, past the claim, or by the
\* owner of a claim that has none yet and is marked with it.
LEMMA RecordsKeepLedger ==
    ASSUME TypeOK, BooksInv, LedgerInv, NEW o \in Owner, Record(o) \/ RecordFailure(o)
    PROVE  LedgerInv'
<1> USE ApiAssumption
<1> DEFINE k == calls[o].key
           g == calls[o].generation
<1>1. /\ k \in Key /\ claims \in [Key -> ClaimRow] /\ claims[k] \in ClaimRow
      /\ g \in Nat /\ UNCHANGED <<cache, paid>>
  <2>1. UNCHANGED <<cache, paid>>
    BY DEF Record, RecordFailure
  <2>2. calls[o] \in CallState /\ claims \in [Key -> ClaimRow]
    BY DEF TypeOK
  <2>3. k \in Key /\ g \in Nat
    BY <2>2 DEF CallState, Generation
  <2>4. QED
    BY <2>1, <2>2, <2>3
<1>2. PICK ok \in BOOLEAN : /\ o \in Probing => /\ usage' = usage \cup {Row(o, ok)}
                                                /\ claims' = claims
                            /\ o \notin Probing => Recorded(o, k, ok)
  BY DEF Record, RecordFailure
<1>3. PICK pc \in {"completing", "done"} : Goto(o, pc)
  BY DEF Record, RecordFailure
<1>4. OnlyCall(o) /\ calls'[o].pc = pc
  BY <1>3, GotoOnlyCall DEF Pc
<1>5. /\ Row(o, ok).key = k /\ Row(o, ok).generation = g /\ Row(o, ok).owner = o
  BY DEF Row
<1>6. /\ usage \subseteq usage'
      /\ \A r \in usage' : r \in usage \/ r = Row(o, ok)
  BY <1>2 DEF Recorded
<1>7. \/ claims' = claims
      \/ /\ o \notin Probing /\ Owns(o, k)
         /\ claims' = [claims EXCEPT ![k] = [claims[k] EXCEPT !.recorded = TRUE]]
  BY <1>2 DEF Recorded
<1>8. Owns(o, k) => claims[k].generation = g
  BY <1>1 DEF Owns, BooksInv, OwnersMatch
<1>9. /\ \A l \in Key : /\ claims'[l].generation = claims[l].generation
                        /\ claims'[l].staged = claims[l].staged
                        /\ claims'[l].completed = claims[l].completed
                        /\ claims[l].recorded => claims'[l].recorded
      /\ \A l \in Key \ {k} : claims'[l].recorded = claims[l].recorded
      /\ o \notin Probing /\ Owns(o, k) => claims'[k].recorded
      /\ ~(o \notin Probing /\ Owns(o, k)) => claims'[k].recorded = claims[k].recorded
  <2>1. CASE claims' = claims
    <3>1. o \notin Probing /\ Owns(o, k) => claims'[k].recorded
      <4>1. SUFFICES ASSUME o \notin Probing, Owns(o, k) PROVE claims'[k].recorded
        OBVIOUS
      <4>2. claims' = [claims EXCEPT ![k] = [claims[k] EXCEPT !.recorded = TRUE]]
        BY <1>2, <4>1 DEF Recorded
      <4>3. claims'[k] = [claims[k] EXCEPT !.recorded = TRUE]
        BY <1>1, <4>2
      <4>4. QED
        BY <1>1, <4>3 DEF ClaimRow
    <3>2. QED
      BY <2>1, <3>1
  <2>2. CASE /\ o \notin Probing /\ Owns(o, k)
             /\ claims' = [claims EXCEPT ![k] = [claims[k] EXCEPT !.recorded = TRUE]]
    <3>1. /\ claims'[k] = [claims[k] EXCEPT !.recorded = TRUE]
          /\ \A l \in Key \ {k} : claims'[l] = claims[l]
      BY <1>1, <2>2
    <3>2. /\ claims'[k].recorded = TRUE
          /\ claims'[k].generation = claims[k].generation
          /\ claims'[k].staged = claims[k].staged
          /\ claims'[k].completed = claims[k].completed
      BY <1>1, <3>1 DEF ClaimRow
    <3>3. QED
      BY <2>2, <3>1, <3>2
  <2>3. QED
    BY <1>7, <2>1, <2>2
<1>10. \A r \in usage' : r \notin usage /\ r.owner \notin Probing =>
         Owns(o, k) /\ ~claims[k].recorded
  BY <1>2, <1>5, <1>6 DEF Recorded
<1>11. UsageKnown'
  <2>1. SUFFICES ASSUME NEW r \in usage', r.owner \notin Probing
                 PROVE  /\ r.generation <= claims'[r.key].generation
                        /\ r.generation = claims'[r.key].generation =>
                             claims'[r.key].recorded
    BY DEF UsageKnown
  <2>2. CASE r \in usage
    <3>1. r.key \in Key
      BY <2>2 DEF TypeOK, UsageRow
    <3>2. QED
      BY <1>9, <2>1, <2>2, <3>1 DEF LedgerInv, UsageKnown
  <2>3. CASE r \notin usage
    <3>1. r.key = k /\ r.generation = g /\ o \notin Probing /\ Owns(o, k)
      BY <1>5, <1>6, <1>10, <2>1, <2>3
    <3>2. claims'[k].generation = g /\ claims'[k].recorded
      BY <1>1, <1>8, <1>9, <3>1
    <3>3. QED
      BY <1>1, <3>1, <3>2
  <2>4. QED
    BY <2>2, <2>3
<1>12. RecordedIsAccounted'
  <2>1. SUFFICES ASSUME NEW l \in Key, claims'[l].recorded
                 PROVE  Accounted(l, claims[l].generation)'
    BY <1>9 DEF RecordedIsAccounted, Accounted
  <2>2. CASE claims[l].recorded
    <3>1. Accounted(l, claims[l].generation)
      BY <2>2 DEF LedgerInv, RecordedIsAccounted
    <3>2. QED
      BY <1>6, <1>9, <3>1 DEF Accounted
  <2>3. CASE ~claims[l].recorded
    <3>1. l = k /\ o \notin Probing /\ Owns(o, k)
      BY <1>9, <2>1, <2>3
    <3>2. Row(o, ok) \in usage'
      BY <1>2, <2>3, <3>1 DEF Recorded
    <3>3. claims'[l].generation = g
      BY <1>8, <1>9, <3>1
    <3>4. QED
      BY <1>5, <3>1, <3>2, <3>3 DEF Accounted
  <2>4. QED
    BY <2>2, <2>3
<1>13. CompletingIsAccounted'
  <2>1. SUFFICES ASSUME NEW q \in Owner, calls'[q].pc = "completing"
                 PROVE  \E r \in usage' : r.key = calls[q].key
                                          /\ r.generation = calls[q].generation
    BY <1>4 DEF CompletingIsAccounted, Accounted, OnlyCall
  <2>2. CASE q # o
    BY <1>4, <1>6, <2>1, <2>2 DEF LedgerInv, CompletingIsAccounted, Accounted, OnlyCall
  <2>3. CASE q = o
    <3>1. ~Goto(o, "done")
      BY <2>1, <2>3, GotoOnlyCall DEF Pc
    <3>2. Record(o) /\ (o \in Probing \/ Owns(o, k))
      BY <3>1 DEF Record, RecordFailure
    <3>3. CASE Row(o, ok) \in usage'
      BY <1>5, <2>3, <3>3
    <3>4. CASE Row(o, ok) \notin usage'
      <4>1. Owns(o, k) /\ claims[k].recorded
        BY <1>2, <3>2, <3>4 DEF Recorded
      <4>2. Accounted(k, g)
        BY <1>1, <1>8, <4>1 DEF LedgerInv, RecordedIsAccounted
      <4>3. QED
        BY <1>6, <2>3, <4>2 DEF Accounted
    <3>5. QED
      BY <3>3, <3>4
  <2>4. QED
    BY <2>2, <2>3
<1>14. PublishedIsCached'
  <2>1. calls'[o].pc \in {"recording", "completing"} => calls[o].pc = "recording"
    <3>1. SUFFICES ASSUME calls'[o].pc \in {"recording", "completing"}
                   PROVE  calls[o].pc = "recording"
      OBVIOUS
    <3>2. ~Goto(o, "done")
      BY <3>1, GotoOnlyCall DEF Pc
    <3>3. QED
      BY <3>2 DEF Record, RecordFailure
  <2>2. QED
    BY <1>1, <1>4, <2>1 DEF LedgerInv, PublishedIsCached, OnlyCall
<1>15. ResponseInHand'
  BY <1>1, <1>4 DEF LedgerInv, ResponseInHand, OnlyCall
<1>16. UsageOnce'
  <2>1. SUFFICES ASSUME NEW r \in usage', NEW s \in usage',
                        r.owner \notin Probing, s.owner \notin Probing,
                        r.key = s.key, r.generation = s.generation
                 PROVE  r = s
    BY DEF UsageOnce
  <2>2. ASSUME NEW t \in usage, NEW u \in usage', u \notin usage,
               t.owner \notin Probing, u.owner \notin Probing,
               t.key = u.key, t.generation = u.generation
        PROVE  FALSE
    <3>1. u.key = k /\ u.generation = g /\ Owns(o, k) /\ ~claims[k].recorded
      BY <1>5, <1>6, <1>10, <2>2
    <3>2. t.key = k /\ t.generation = claims[k].generation
      BY <1>8, <2>2, <3>1
    <3>3. QED
      BY <2>2, <3>1, <3>2 DEF LedgerInv, UsageKnown
  <2>3. CASE r \in usage /\ s \in usage
    BY <2>1, <2>3 DEF LedgerInv, LedgerExact, UsageOnce
  <2>4. CASE r \notin usage /\ s \notin usage
    BY <1>6, <2>4
  <2>5. QED
    BY <2>1, <2>2, <2>3, <2>4
<1>17. CompletedIsAccounted'
  BY <1>1, <1>6, <1>9 DEF LedgerInv, LedgerExact, CompletedIsAccounted
<1>18. StagedOfGeneration'
  BY <1>1, <1>9 DEF LedgerInv, LedgerExact, StagedOfGeneration
<1>19. QED
  BY <1>11, <1>12, <1>13, <1>14, <1>15, <1>16, <1>17, <1>18 DEF LedgerInv, LedgerExact

LEMMA CompleteKeepsLedger ==
    ASSUME TypeOK, BooksInv, LedgerInv, NEW o \in Owner, Complete(o)
    PROVE  LedgerInv'
<1> USE ApiAssumption
<1> DEFINE k == calls[o].key
<1>1. /\ k \in Key /\ claims \in [Key -> ClaimRow] /\ claims[k] \in ClaimRow
      /\ UNCHANGED <<cache, usage, paid>>
      /\ calls[o].pc = "completing" /\ Goto(o, "done")
  BY DEF Complete, TypeOK, CallState
<1>2. OnlyCall(o) /\ calls'[o].pc = "done"
  BY <1>1, GotoOnlyCall DEF Pc
<1>3. CASE ~Completes(o, k)
  <2>1. claims' = claims
    BY <1>3 DEF Complete
  <2>2. Still
    BY <1>1, <1>2, <2>1 DEF Still, OnlyCall
  <2>3. QED
    BY <2>2, StillKeepsLedger
<1>4. CASE Completes(o, k)
  <2>1. claims' = [claims EXCEPT ![k] = [claims[k] EXCEPT !.completed = TRUE, !.live = FALSE]]
    BY <1>1, <1>4 DEF Complete
  <2>2. /\ claims'[k] = [claims[k] EXCEPT !.completed = TRUE, !.live = FALSE]
        /\ \A l \in Key \ {k} : claims'[l] = claims[l]
    BY <1>1, <2>1
  <2>3. \A l \in Key : /\ claims'[l].generation = claims[l].generation
                       /\ claims'[l].staged = claims[l].staged
                       /\ claims'[l].recorded = claims[l].recorded
                       /\ l # k => claims'[l].completed = claims[l].completed
    BY <1>1, <2>2 DEF ClaimRow
  <2>4. /\ Accounted(k, claims[k].generation) /\ cache[k].response # NoOwner
    BY <1>1, <1>4 DEF Completes, BooksInv, OwnersMatch, LedgerInv,
                      CompletingIsAccounted, PublishedIsCached
  <2>5. CompletedIsAccounted'
    BY <1>1, <2>3, <2>4 DEF LedgerInv, LedgerExact, CompletedIsAccounted, Accounted
  <2>6. StagedOfGeneration' /\ UsageOnce'
    BY <1>1, <2>3 DEF LedgerInv, LedgerExact, StagedOfGeneration, UsageOnce
  <2>7. UsageKnown'
    BY <1>1, <2>3 DEF LedgerInv, UsageKnown, TypeOK, UsageRow
  <2>8. RecordedIsAccounted'
    BY <1>1, <2>3 DEF LedgerInv, RecordedIsAccounted, Accounted
  <2>9. CompletingIsAccounted' /\ PublishedIsCached' /\ ResponseInHand'
    BY <1>1, <1>2 DEF LedgerInv, CompletingIsAccounted, PublishedIsCached,
                      ResponseInHand, Accounted, OnlyCall
  <2>10. QED
    BY <2>5, <2>6, <2>7, <2>8, <2>9 DEF LedgerInv, LedgerExact
<1>5. QED
  BY <1>3, <1>4

LEMMA InitLedger ==
    ASSUME Init
    PROVE  LedgerInv
<1>1. /\ usage = {} /\ \A o \in Owner : calls[o].pc = "idle"
      /\ \A k \in Key : /\ claims[k].recorded = FALSE /\ claims[k].completed = FALSE
                        /\ claims[k].staged = NoOwner
  BY DEF Init, NoClaim
<1>2. QED
  BY <1>1 DEF LedgerInv, LedgerExact, UsageKnown, RecordedIsAccounted,
              CompletingIsAccounted, PublishedIsCached, ResponseInHand, UsageOnce,
              CompletedIsAccounted, StagedOfGeneration

\* Whatever is taken over, resumed or lost, a generation has one usage row of
\* the calls that record through the claim, a completed claim has its row and a
\* published response, and only what was fetched for it is staged on a claim.
THEOREM LedgerStaysExact == Spec => []LedgerExact
<1>1. Init => BooksInv /\ PaidIsCharged /\ LedgerInv
  BY InitBooks, InitLedger
<1>2. TypeOK /\ BooksInv /\ PaidIsCharged /\ LedgerInv /\ [Next]_vars =>
        BooksInv' /\ PaidIsCharged' /\ LedgerInv'
  <2> SUFFICES ASSUME TypeOK, BooksInv, PaidIsCharged, LedgerInv, [Next]_vars
               PROVE  LedgerInv'
    BY BooksStep
  <2>1. CASE \E o \in Owner, k \in Key : ClaimCall(o, k)
    BY <2>1, ClaimCallKeepsLedger
  <2>2. CASE \E o \in Owner : Authorize(o)
    BY <2>2, AuthorizeStill, StillKeepsLedger
  <2>3. CASE \E o \in Owner : CallStep(o)
    BY <2>3, QuietCallStill, StillKeepsLedger, StageKeepsLedger, PublishKeepsLedger,
       RecordsKeepLedger, CompleteKeepsLedger DEF CallStep
  <2>4. CASE TimeStep \/ UNCHANGED vars
    BY <2>4, TimeStepStill, StillKeepsLedger
  <2>5. QED
    BY <2>1, <2>2, <2>3, <2>4, Steps
<1>3. LedgerInv => LedgerExact
  BY DEF LedgerInv
<1>4. QED
  BY <1>1, <1>2, <1>3, TypeCorrect, PTL DEF Spec
=============================================================================
