------------------------- MODULE DailyResearchProofs -------------------------
(***************************************************************************)
(* What holds of daily research for any number of runs, candidates, slots  *)
(* and attempts.                                                           *)
(***************************************************************************)
EXTENDS DailyResearch, FiniteSetTheorems, TLAPS

-----------------------------------------------------------------------------
(***************************************************************************)
(* The types.                                                              *)
(***************************************************************************)

\* A plan is a sequence of candidates that fits the slots.
LEMMA PlanIsSeq ==
    ASSUME NEW p \in Plans
    PROVE  p \in Seq(Item) /\ Len(p) \in 0..Slots /\ DOMAIN p = 1..Len(p)
<1>1. PICK n \in 0..Slots : p \in [1..n -> Item]
  BY DEF Plans
<1>2. n \in Nat
  BY <1>1, DailyAssumption
<1>3. QED
  BY <1>1, <1>2

LEMMA EmptyPlan == <<>> \in Plans /\ Len(<<>>) = 0 /\ Range(<<>>) = {}
<1>1. <<>> \in [1..0 -> Item]
  OBVIOUS
<1>2. 0 \in 0..Slots
  BY DailyAssumption
<1>3. QED
  BY <1>1, <1>2 DEF Plans, Range

\* An attempt that moves on is still an attempt, and no other one is touched.
LEMMA GotoWork ==
    ASSUME TypeOK, NEW r \in Run, NEW a \in Attempt, NEW pc \in Pc, Goto(r, a, pc)
    PROVE  /\ work' \in [Run -> [Attempt -> Work]]
           /\ work'[r][a] = [work[r][a] EXCEPT !.pc = pc]
           /\ \A q \in Run, b \in Attempt : <<q, b>> # <<r, a>> => work'[q][b] = work[q][b]
<1>0. work[r] \in [Attempt -> Work] /\ work[r][a] \in Work
  BY DEF TypeOK
<1>1. [work[r][a] EXCEPT !.pc = pc] \in Work
  BY <1>0 DEF Work
<1>2. work' = [work EXCEPT ![r] = [work[r] EXCEPT ![a] = [work[r][a] EXCEPT !.pc = pc]]]
  BY DEF Goto, TypeOK
<1>3. QED
  BY <1>0, <1>1, <1>2 DEF TypeOK

LEMMA SetWork ==
    ASSUME TypeOK, NEW r \in Run, NEW a \in Attempt, NEW w \in Work,
           work' = [work EXCEPT ![r][a] = w]
    PROVE  /\ work' \in [Run -> [Attempt -> Work]]
           /\ work'[r][a] = w
           /\ \A q \in Run, b \in Attempt : <<q, b>> # <<r, a>> => work'[q][b] = work[q][b]
<1>1. work' = [work EXCEPT ![r] = [work[r] EXCEPT ![a] = w]]
  BY DEF TypeOK
<1>2. QED
  BY <1>1 DEF TypeOK

-----------------------------------------------------------------------------
LEMMA InitTypes == Init => TypeOK
<1> SUFFICES ASSUME Init PROVE TypeOK
  OBVIOUS
<1>1. NoCheckpoint \in Checkpoint
  BY EmptyPlan DEF NoCheckpoint, Checkpoint, Phase
<1>2. NoRow \in Row
  BY <1>1, EmptyPlan DEF NoRow, Row
<1>3. NoWork \in Work
  BY EmptyPlan DEF NoWork, Work, Pc
<1>4. [status |-> "absent", attempts |-> 0] \in Job
  BY DailyAssumption DEF Job
<1>5. QED
  BY <1>2, <1>3, <1>4 DEF Init, TypeOK

\* What a step does to rows and jobs one at a time.
LEMMA SetRow ==
    ASSUME TypeOK, NEW r \in Run, NEW row \in Row, rows' = [rows EXCEPT ![r] = row]
    PROVE  /\ rows' \in [Run -> Row]
           /\ rows'[r] = row
           /\ \A q \in Run : q # r => rows'[q] = rows[q]
BY DEF TypeOK

LEMMA StartTypes ==
    ASSUME TypeOK, NEW r \in Run, StartStep(r)
    PROVE  TypeOK'
<1>1. jobs[r] \in Job /\ rows[r] \in Row
  BY DEF TypeOK
<1>2. [jobs[r] EXCEPT !.status = "queued"] \in Job
  BY <1>1 DEF Job
<1>3. /\ [NoRow EXCEPT !.source = "scheduled", !.status = "queued"] \in Row
      /\ [NoRow EXCEPT !.source = "manual", !.status = "queued"] \in Row
  BY EmptyPlan DEF NoRow, Row, NoCheckpoint, Checkpoint, Phase, ActiveStatus
<1>4. jobs' \in [Run -> Job]
  <2>1. CASE jobs' = jobs
    BY <2>1 DEF TypeOK
  <2>2. CASE jobs' = [jobs EXCEPT ![r].status = "queued"]
    BY <1>2, <2>2 DEF TypeOK
  <2>3. QED
    BY <2>1, <2>2 DEF StartStep, InsertScheduled, EnqueueScheduled, EnqueueManual
<1>5. rows' \in [Run -> Row]
  BY <1>3 DEF TypeOK, StartStep, InsertScheduled, EnqueueScheduled, EnqueueManual
<1>6. UNCHANGED <<work, outputVars>>
  BY DEF StartStep, InsertScheduled, EnqueueScheduled, EnqueueManual
<1>7. QED
  BY <1>4, <1>5, <1>6 DEF TypeOK, outputVars

LEMMA JobTypes ==
    ASSUME TypeOK, NEW r \in Run, JobStep(r)
    PROVE  TypeOK'
<1>1. jobs[r] \in Job /\ rows[r] \in Row
  BY DEF TypeOK
<1>2. CASE Take(r)
  <2> DEFINE a == jobs[r].attempts + 1
  <2>1. a \in Attempt /\ Goto(r, a, "reading")
    BY <1>2 DEF Take
  <2>2. [status |-> "running", attempts |-> a] \in Job
    BY <2>1, DailyAssumption DEF Attempt, Job
  <2>3. jobs' \in [Run -> Job]
    BY <1>2, <2>2 DEF Take, TypeOK
  <2>4. work' \in [Run -> [Attempt -> Work]]
    BY <2>1, GotoWork DEF Pc
  <2>5. QED
    BY <1>2, <2>3, <2>4 DEF TypeOK, Take, outputVars
<1>3. CASE Terminalize(r)
  <2>1. [jobs[r] EXCEPT !.status = "failed"] \in Job
    BY <1>1 DEF Job
  <2>2. \A s \in {"needs_attention", rows[r].status} :
          [rows[r] EXCEPT !.status = s] \in Row
    BY <1>1 DEF Row
  <2>3. jobs' \in [Run -> Job] /\ rows' \in [Run -> Row]
    BY <1>3, <2>1, <2>2 DEF Terminalize, TypeOK
  <2>4. QED
    BY <1>3, <2>3 DEF TypeOK, Terminalize, outputVars
<1>4. QED
  BY <1>2, <1>3 DEF JobStep

\* A write of persistDailyResearchCheckpoint leaves a row.
LEMMA AdvancedRow ==
    ASSUME NEW row \in Row, NEW status \in {"fanout", "completed"},
           NEW items \in Plans, NEW done \in SUBSET Item
    PROVE  Advanced(row, status, items, done) \in Row
<1>1. \A ph \in Phase : [phase |-> ph, items |-> items, done |-> done] \in Checkpoint
  BY DEF Checkpoint
<1>2. \A c \in Checkpoint : [row EXCEPT !.status = status, !.checkpoint = c] \in Row
  BY DEF Row, ActiveStatus
<1>3. QED
  BY <1>1, <1>2 DEF Advanced, Phase

LEMMA AdvanceTypes ==
    ASSUME TypeOK, NEW r \in Run, NEW a \in Attempt,
           NEW status \in {"fanout", "completed"}, NEW next \in Pc,
           Advance(r, a, status, next), UNCHANGED <<jobs, outputVars>>
    PROVE  TypeOK'
<1>1. work[r] \in [Attempt -> Work] /\ work[r][a] \in Work /\ rows[r] \in Row
  BY DEF TypeOK
<1>2. Advanced(rows[r], status, work[r][a].items, work[r][a].done) \in Row
  BY <1>1, AdvancedRow DEF Work
<1>3. rows' \in [Run -> Row]
  BY <1>2 DEF Advance, TypeOK
<1>4. Goto(r, a, next) \/ Goto(r, a, "rejected")
  BY DEF Advance
<1>5. work' \in [Run -> [Attempt -> Work]]
  BY <1>4, GotoWork DEF Pc
<1>6. QED
  BY <1>3, <1>5 DEF TypeOK, outputVars

LEMMA WorkTypes ==
    ASSUME TypeOK, NEW r \in Run, NEW a \in Attempt, WorkStep(r, a)
    PROVE  TypeOK'
<1>1. work[r] \in [Attempt -> Work] /\ work[r][a] \in Work /\ rows[r] \in Row
      /\ jobs[r] \in Job /\ rows[r].checkpoint \in Checkpoint
  BY DEF TypeOK, Row
<1>2. Loaded(rows[r]) \in Work /\ NoWork \in Work
  BY <1>1, EmptyPlan DEF Loaded, NoWork, Work, Checkpoint, Pc
<1>3. CASE Read(r, a)
  <2>1. work' = [work EXCEPT ![r][a] = Loaded(rows[r])] \/ Goto(r, a, "planning")
    BY <1>3 DEF Read
  <2>2. work' \in [Run -> [Attempt -> Work]]
    BY <1>2, <2>1, GotoWork, SetWork DEF Pc
  <2>3. QED
    BY <1>3, <2>2 DEF Read, TypeOK, outputVars
<1>4. CASE Publish(r, a)
  <2>1. Goto(r, a, "rereading")
    BY <1>4 DEF Publish
  <2>2. work' \in [Run -> [Attempt -> Work]]
    BY <2>1, GotoWork DEF Pc
  <2>3. ASSUME NEW p \in Plans
        PROVE  [rows[r] EXCEPT !.status = "fanout", !.plan = p,
                  !.checkpoint = [phase |-> "fanout", items |-> p, done |-> {}]] \in Row
    <3>1. [phase |-> "fanout", items |-> p, done |-> {}] \in Checkpoint
      BY DEF Checkpoint, Phase
    <3>2. QED
      BY <1>1, <3>1 DEF Row, ActiveStatus
  <2>4. rows' \in [Run -> Row]
    BY <1>4, <2>3 DEF Publish, TypeOK
  <2>5. QED
    BY <1>4, <2>2, <2>4 DEF Publish, TypeOK, outputVars
<1>5. CASE Reread(r, a)
  <2>1. work' \in [Run -> [Attempt -> Work]]
    BY <1>2, <1>5, SetWork DEF Reread
  <2>2. QED
    BY <1>5, <2>1 DEF Reread, TypeOK, outputVars
<1>6. CASE EnqueueChildren(r, a)
  <2>1. PICK n \in Remaining(work[r][a]) :
          /\ handled' = handled \cup {<<r, work[r][a].items[n]>>}
          /\ work' = [work EXCEPT ![r][a].pc = "saving",
                                  ![r][a].done = @ \cup {work[r][a].items[n]}]
    BY <1>6 DEF EnqueueChildren
  <2>2. work[r][a].items[n] \in Item
    BY <1>1, PlanIsSeq DEF Remaining, Work
  <2> DEFINE w == [work[r][a] EXCEPT !.pc = "saving",
                                     !.done = @ \cup {work[r][a].items[n]}]
  <2>3. w \in Work
    BY <1>1, <2>2 DEF Work, Pc
  <2>4. work' = [work EXCEPT ![r][a] = w]
    BY <1>1, <2>1 DEF TypeOK
  <2>5. work' \in [Run -> [Attempt -> Work]]
    BY <2>3, <2>4, SetWork
  <2>6. QED
    BY <1>6, <2>1, <2>2, <2>5 DEF EnqueueChildren, TypeOK
<1>7. CASE SaveProgress(r, a)
  BY <1>7, AdvanceTypes DEF SaveProgress, Pc
<1>8. CASE Complete(r, a)
  BY <1>8, AdvanceTypes DEF Complete, Pc
<1>9. CASE Adopt(r, a)
  BY <1>9, GotoWork DEF Adopt, TypeOK, outputVars, Pc
<1>10. CASE EnqueueDigest(r, a)
  <2>1. work' \in [Run -> [Attempt -> Work]]
    BY <1>10, GotoWork DEF EnqueueDigest, Pc
  <2>2. QED
    BY <1>10, <2>1 DEF EnqueueDigest, TypeOK
<1>11. CASE RecordSummary(r, a)
  <2>1. work' \in [Run -> [Attempt -> Work]]
    BY <1>11, GotoWork DEF RecordSummary, Pc
  <2>2. QED
    BY <1>11, <2>1 DEF RecordSummary, TypeOK
<1>12. CASE Return(r, a) \/ Throw(r, a)
  <2>1. work' = [work EXCEPT ![r][a] = NoWork] /\ UNCHANGED <<rows, outputVars>>
    BY <1>12 DEF Return, Throw
  <2>2. \A s \in {"completed", "failed", "queued"} : [jobs[r] EXCEPT !.status = s] \in Job
    BY <1>1 DEF Job
  <2>3. \/ UNCHANGED jobs
        \/ \E s \in {"completed", "failed", "queued"} :
             jobs' = [jobs EXCEPT ![r].status = s]
    BY <1>12 DEF Return, Throw
  <2>4. jobs' \in [Run -> Job]
    BY <2>2, <2>3 DEF TypeOK
  <2>5. work' \in [Run -> [Attempt -> Work]]
    BY <1>2, <2>1, SetWork
  <2>6. QED
    BY <2>1, <2>4, <2>5 DEF TypeOK, outputVars
<1>13. QED
  BY <1>3, <1>4, <1>5, <1>6, <1>7, <1>8, <1>9, <1>10, <1>11, <1>12 DEF WorkStep

\* Runs, jobs, attempts and what they put out keep their types; in particular
\* a job is never attempted more often than max_attempts allows.
THEOREM TypeCorrect == Spec => []TypeOK
<1>1. TypeOK /\ [Next]_vars => TypeOK'
  <2> SUFFICES ASSUME TypeOK, [Next]_vars PROVE TypeOK'
    OBVIOUS
  <2>1. CASE Next
    BY <2>1, StartTypes, JobTypes, WorkTypes DEF Next
  <2>2. CASE UNCHANGED vars
    BY <2>2 DEF vars, outputVars, TypeOK
  <2>3. QED
    BY <2>1, <2>2
<1>2. QED
  BY InitTypes, <1>1, PTL DEF Spec

-----------------------------------------------------------------------------
(***************************************************************************)
(* The invariant.  A row without a checkpoint has no plan and nobody works *)
(* on its items; a row with one has the plan's items in it, and so has     *)
(* every attempt that loaded it; whatever counts as done is a first part   *)
(* of that plan and was enqueued; what is past the completion saw it; and  *)
(* only attempts that the queue counted are at work.                       *)
(***************************************************************************)
Fresh == {"idle", "reading", "planning", "rereading"}

Ending == {"digest", "summary", "returning"}

Completed(r) == rows[r].status = "completed"

Published(r) == rows[r].checkpoint.phase # "none"

Prefix(p, done) == \E n \in 0..Len(p) : done = {p[m] : m \in 1..n}

Done(r, done) == Prefix(rows[r].plan, done) /\ \A i \in done : <<r, i>> \in handled

RowInv(r) ==
    /\ ~Published(r) => rows[r].plan = <<>> /\ rows[r].checkpoint.done = {}
    /\ Published(r) => rows[r].checkpoint.items = rows[r].plan /\ Exists(r)
    /\ Completed(r) <=> rows[r].checkpoint.phase = "fanout_complete"
    /\ Done(r, rows[r].checkpoint.done)
    /\ Completed(r) => \A i \in Range(rows[r].plan) : <<r, i>> \in handled

WorkInv(r, a) ==
    /\ work[r][a].pc \in Fresh => work[r][a].items = <<>> /\ work[r][a].done = {}
    /\ work[r][a].pc \notin Fresh => Published(r) /\ work[r][a].items = rows[r].plan
    /\ work[r][a].pc \in Ending => Completed(r)
    /\ work[r][a].pc # "idle" => a <= jobs[r].attempts
    /\ Done(r, work[r][a].done)

OutputInv(r) ==
    /\ r \in digests \cup summaries => Completed(r)
    /\ jobs[r].status = "completed" => Completed(r)
    /\ \A i \in Item : <<r, i>> \in handled => Published(r) /\ i \in Range(rows[r].plan)

RunInv(r) == RowInv(r) /\ OutputInv(r) /\ \A a \in Attempt : WorkInv(r, a)

FanOutInv == \A r \in Run : RunInv(r)

\* What every step does to a run: a plan stays, a completion stays, what was
\* enqueued stays enqueued, and attempts are counted up.
Grows(r) ==
    /\ Published(r) => /\ rows'[r].checkpoint.phase # "none"
                       /\ rows'[r].plan = rows[r].plan
    /\ Completed(r) => rows'[r].status = "completed"
    /\ handled \subseteq handled'
    /\ jobs'[r].attempts >= jobs[r].attempts

\* A step that concerns run r alone.
OnlyRun(r) ==
    \A q \in Run \ {r} :
      /\ rows'[q] = rows[q] /\ jobs'[q] = jobs[q] /\ work'[q] = work[q]
      /\ \A i \in Item : <<q, i>> \in handled' <=> <<q, i>> \in handled
      /\ q \in digests' \cup summaries' <=> q \in digests \cup summaries

\* A step that concerns attempt a at run r alone.
OnlyAttempt(r, a) == \A b \in Attempt \ {a} : work'[r][b] = work[r][b]

\* A first part of no length is one of any plan.
LEMMA NothingDone == \A p \in Plans : Prefix(p, {})
<1> SUFFICES ASSUME NEW p \in Plans PROVE Prefix(p, {})
  OBVIOUS
<1>1. 0 \in 0..Len(p) /\ {} = {p[m] : m \in 1..0}
  BY PlanIsSeq
<1>2. QED
  BY <1>1 DEF Prefix

\* The next item in the order of the plan extends a first part of it.
LEMMA PrefixGrows ==
    ASSUME NEW p \in Plans, NEW done, Prefix(p, done), NEW n \in 1..Len(p),
           p[n] \notin done, \A m \in 1..Len(p) : p[m] \notin done => n <= m
    PROVE  Prefix(p, done \cup {p[n]})
<1>1. Len(p) \in Nat
  BY PlanIsSeq, DailyAssumption
<1>2. PICK k \in 0..Len(p) : done = {p[m] : m \in 1..k}
  BY DEF Prefix
<1>3. k < n
  BY <1>1, <1>2
<1>4. \A m \in 1..n : m # n => p[m] \in done
  BY <1>1
<1>5. done \cup {p[n]} = {p[m] : m \in 1..n}
  BY <1>1, <1>2, <1>3, <1>4
<1>6. n \in 0..Len(p)
  BY <1>1
<1>7. QED
  BY <1>5, <1>6 DEF Prefix

LEMMA RowKept ==
    ASSUME NEW r \in Run, RowInv(r), rows'[r] = rows[r], handled \subseteq handled',
           jobs'[r].attempts >= jobs[r].attempts
    PROVE  RowInv(r)' /\ Grows(r)
BY DEF RowInv, Published, Completed, Exists, Grows, Done

LEMMA WorkKept ==
    ASSUME TypeOK, TypeOK', NEW r \in Run, NEW a \in Attempt, WorkInv(r, a), Grows(r),
           work'[r][a] = work[r][a]
    PROVE  WorkInv(r, a)'
<1>1. rows'[r].plan \in Plans /\ jobs[r].attempts \in Nat /\ jobs'[r].attempts \in Nat
  BY DailyAssumption DEF TypeOK, Row, Job
<1>2. /\ Prefix(rows'[r].plan, work[r][a].done)
      /\ \A i \in work[r][a].done : <<r, i>> \in handled'
  <2>1. CASE work[r][a].pc \in Fresh
    BY <1>1, <2>1, NothingDone DEF WorkInv
  <2>2. CASE work[r][a].pc \notin Fresh
    BY <2>2 DEF WorkInv, Grows, Done
  <2>3. QED
    BY <2>1, <2>2
<1>3. a \in Nat /\ (work[r][a].pc # "idle" => a <= jobs'[r].attempts)
  BY <1>1 DEF WorkInv, Grows, Attempt
<1>4. QED
  BY <1>2, <1>3 DEF WorkInv, Grows, Published, Completed, Done

\* Nothing changes for a run that the step does not concern.
LEMMA OthersKept ==
    ASSUME TypeOK, TypeOK', NEW r \in Run, NEW q \in Run \ {r}, RunInv(q), OnlyRun(r)
    PROVE  RunInv(q)'
<1>1. /\ rows'[q] = rows[q] /\ jobs'[q] = jobs[q] /\ work'[q] = work[q]
      /\ \A i \in Item : <<q, i>> \in handled' <=> <<q, i>> \in handled
      /\ q \in digests' \cup summaries' <=> q \in digests \cup summaries
  BY DEF OnlyRun
<1>2. OutputInv(q)'
  BY <1>1 DEF RunInv, OutputInv, Completed, Published
<1>3. /\ \A a \in Attempt : work[q][a].done \subseteq Item
      /\ rows[q].checkpoint.done \subseteq Item
      /\ Range(rows[q].plan) \subseteq Item
  <2>1. rows[q] \in Row /\ work[q] \in [Attempt -> Work]
    BY DEF TypeOK
  <2>2. rows[q].plan \in Plans
    BY <2>1 DEF Row
  <2>3. QED
    BY <2>1, <2>2, PlanIsSeq DEF Row, Checkpoint, Work, Range
<1>4. RowInv(q)'
  BY <1>1, <1>3 DEF RunInv, RowInv, Completed, Published, Exists, Done
<1>5. \A a \in Attempt : WorkInv(q, a)'
  BY <1>1, <1>3 DEF RunInv, WorkInv, Completed, Published, Done
<1>6. QED
  BY <1>2, <1>4, <1>5 DEF RunInv

\* So a step keeps the invariant if it does for its own run and attempt.
LEMMA RunKept ==
    ASSUME TypeOK, TypeOK', FanOutInv, NEW r \in Run, OnlyRun(r), RunInv(r)'
    PROVE  FanOutInv'
BY OthersKept DEF FanOutInv

LEMMA AttemptKept ==
    ASSUME TypeOK, TypeOK', FanOutInv, NEW r \in Run, NEW a \in Attempt,
           OnlyRun(r), OnlyAttempt(r, a), Grows(r),
           RowInv(r)', OutputInv(r)', WorkInv(r, a)'
    PROVE  FanOutInv'
<1>1. ASSUME NEW b \in Attempt PROVE WorkInv(r, b)'
  <2>1. CASE b = a
    BY <2>1
  <2>2. CASE b # a
    BY <2>2, WorkKept DEF OnlyAttempt, FanOutInv, RunInv
  <2>3. QED
    BY <2>1, <2>2
<1>2. QED
  BY <1>1, RunKept DEF RunInv

-----------------------------------------------------------------------------
(***************************************************************************)
(* What the steps leave alone.                                             *)
(***************************************************************************)
LEMMA StartOnly ==
    ASSUME TypeOK, NEW r \in Run, StartStep(r)
    PROVE  OnlyRun(r) /\ UNCHANGED <<work, outputVars>>
BY DEF StartStep, InsertScheduled, EnqueueScheduled, EnqueueManual, OnlyRun, TypeOK,
       outputVars

LEMMA GotoOnly ==
    ASSUME TypeOK, NEW r \in Run, NEW a \in Attempt, NEW pc \in Pc, Goto(r, a, pc)
    PROVE  OnlyAttempt(r, a) /\ \A q \in Run \ {r} : work'[q] = work[q]
BY DEF Goto, OnlyAttempt, TypeOK

LEMMA SetOnly ==
    ASSUME TypeOK, NEW r \in Run, NEW a \in Attempt, NEW w,
           work' = [work EXCEPT ![r][a] = w]
    PROVE  OnlyAttempt(r, a) /\ \A q \in Run \ {r} : work'[q] = work[q]
BY DEF OnlyAttempt, TypeOK

LEMMA JobOnly ==
    ASSUME TypeOK, NEW r \in Run, JobStep(r)
    PROVE  OnlyRun(r) /\ UNCHANGED outputVars
<1>1. CASE Take(r)
  <2>1. PICK a \in Attempt : Goto(r, a, "reading")
    BY <1>1 DEF Take
  <2>2. \A q \in Run \ {r} : work'[q] = work[q]
    BY <2>1, GotoOnly DEF Pc
  <2>3. QED
    BY <1>1, <2>2 DEF Take, OnlyRun, TypeOK, outputVars
<1>2. CASE Terminalize(r)
  BY <1>2 DEF Terminalize, OnlyRun, TypeOK, outputVars
<1>3. QED
  BY <1>1, <1>2 DEF JobStep

LEMMA WorkOnly ==
    ASSUME TypeOK, NEW r \in Run, NEW a \in Attempt, WorkStep(r, a)
    PROVE  /\ OnlyRun(r) /\ OnlyAttempt(r, a)
           /\ handled \subseteq handled'
           /\ jobs'[r].attempts = jobs[r].attempts
<1>1. OnlyAttempt(r, a) /\ \A q \in Run \ {r} : work'[q] = work[q]
  <2>1. CASE \E pc \in Pc : Goto(r, a, pc)
    BY <2>1, GotoOnly
  <2>2. CASE \E w : work' = [work EXCEPT ![r][a] = w]
    BY <2>2, SetOnly
  <2>3. CASE EnqueueChildren(r, a)
    BY <2>3 DEF EnqueueChildren, OnlyAttempt, TypeOK
  <2>4. QED
    BY <2>1, <2>2, <2>3 DEF WorkStep, Read, Publish, Reread, SaveProgress, Complete,
       Advance, Adopt, EnqueueDigest, RecordSummary, Return, Throw, Pc
<1>2. /\ \A q \in Run \ {r} : rows'[q] = rows[q] /\ jobs'[q] = jobs[q]
      /\ jobs'[r].attempts = jobs[r].attempts
  <2>1. rows \in [Run -> Row] /\ jobs \in [Run -> Job] /\ jobs[r] \in Job
    BY DEF TypeOK
  <2>2. UNCHANGED rows \/ \E row : rows' = [rows EXCEPT ![r] = row]
    BY <2>1 DEF WorkStep, Read, Publish, Reread, EnqueueChildren, SaveProgress, Complete,
       Advance, Adopt, EnqueueDigest, RecordSummary, Return, Throw
  <2>3. UNCHANGED jobs \/ \E s : jobs' = [jobs EXCEPT ![r].status = s]
    BY DEF WorkStep, Read, Publish, Reread, EnqueueChildren, SaveProgress, Complete,
       Adopt, EnqueueDigest, RecordSummary, Return, Throw
  <2>4. QED
    BY <2>1, <2>2, <2>3 DEF Job
<1>3. /\ handled \subseteq handled'
      /\ \A q \in Run \ {r} : \A i : <<q, i>> \in handled' <=> <<q, i>> \in handled
  <2>1. CASE EnqueueChildren(r, a)
    BY <2>1 DEF EnqueueChildren
  <2>2. CASE UNCHANGED handled
    BY <2>2
  <2>3. QED
    BY <2>1, <2>2 DEF WorkStep, Read, Publish, Reread, SaveProgress, Complete, Adopt,
       EnqueueDigest, RecordSummary, Return, Throw, outputVars
<1>4. \A q \in Run \ {r} : q \in digests' \cup summaries' <=> q \in digests \cup summaries
  BY DEF WorkStep, Read, Publish, Reread, EnqueueChildren, SaveProgress, Complete, Adopt,
     EnqueueDigest, RecordSummary, Return, Throw, outputVars
<1>5. QED
  BY <1>1, <1>2, <1>3, <1>4 DEF OnlyRun

-----------------------------------------------------------------------------
(***************************************************************************)
(* The invariant holds.                                                    *)
(***************************************************************************)
LEMMA InitInv == Init => FanOutInv
<1> SUFFICES ASSUME Init, NEW r \in Run PROVE RunInv(r)
  BY DEF FanOutInv
<1>1. /\ rows[r].plan = <<>> /\ rows[r].status = "absent"
      /\ rows[r].checkpoint.phase = "none" /\ rows[r].checkpoint.done = {}
      /\ \A a \in Attempt : /\ work[r][a].pc = "idle" /\ work[r][a].items = <<>>
                            /\ work[r][a].done = {}
  BY DEF Init, NoRow, NoCheckpoint, NoWork
<1>2. Prefix(rows[r].plan, {})
  BY <1>1, EmptyPlan, NothingDone
<1>3. RowInv(r)
  BY <1>1, <1>2 DEF RowInv, Published, Completed, Done
<1>4. OutputInv(r)
  BY DEF OutputInv, Init
<1>5. \A a \in Attempt : WorkInv(r, a)
  BY <1>1, <1>2 DEF WorkInv, Done, Fresh, Ending
<1>6. QED
  BY <1>3, <1>4, <1>5 DEF RunInv

LEMMA StartKept ==
    ASSUME TypeOK, TypeOK', FanOutInv, NEW r \in Run, StartStep(r)
    PROVE  FanOutInv'
<1>0. RunInv(r) /\ rows[r] \in Row /\ jobs[r] \in Job
  BY DEF FanOutInv, TypeOK
<1>1. OnlyRun(r) /\ UNCHANGED <<work, outputVars>>
  BY StartOnly
<1>2. /\ \/ rows'[r] = rows[r]
         \/ /\ ~Exists(r)
            /\ \E s : rows'[r] = [NoRow EXCEPT !.source = s, !.status = "queued"]
      /\ jobs'[r] = jobs[r] \/ jobs'[r] = [jobs[r] EXCEPT !.status = "queued"]
  BY DEF StartStep, InsertScheduled, EnqueueScheduled, EnqueueManual, TypeOK
<1>3. jobs'[r].attempts = jobs[r].attempts /\ jobs[r].attempts \in Nat
      /\ jobs'[r].status \in {jobs[r].status, "queued"}
  <2>1. jobs[r].attempts \in Nat
    BY <1>0, DailyAssumption DEF Job
  <2>2. CASE jobs'[r] = jobs[r]
    BY <2>1, <2>2
  <2>3. CASE jobs'[r] = [jobs[r] EXCEPT !.status = "queued"]
    BY <1>0, <2>1, <2>3 DEF Job
  <2>4. QED
    BY <1>2, <2>2, <2>3
<1>4. RowInv(r)' /\ Grows(r) /\ OutputInv(r)'
  <2>1. CASE rows'[r] = rows[r]
    <3>1. RowInv(r)' /\ Grows(r)
      BY <1>0, <1>1, <1>3, <2>1, RowKept DEF RunInv, outputVars
    <3>2. OutputInv(r)'
      BY <1>0, <1>1, <1>3, <2>1 DEF RunInv, OutputInv, Published, Completed, outputVars
    <3>3. QED
      BY <3>1, <3>2
  <2>2. CASE /\ ~Exists(r)
             /\ \E s : rows'[r] = [NoRow EXCEPT !.source = s, !.status = "queued"]
    <3>1. ~Published(r) /\ ~Completed(r)
      BY <1>0, <2>2 DEF RunInv, RowInv, Exists, Completed
    <3>2. /\ rows'[r].plan = <<>> /\ rows'[r].checkpoint = NoCheckpoint
          /\ rows'[r].status = "queued"
      BY <2>2 DEF NoRow
    <3>3. Prefix(rows'[r].plan, {})
      BY <3>2, EmptyPlan, NothingDone
    <3>4. RowInv(r)'
      BY <3>2, <3>3 DEF RowInv, Published, Completed, Done, NoCheckpoint
    <3>5. Grows(r)
      BY <1>1, <1>3, <3>1 DEF Grows, outputVars
    <3>6. OutputInv(r)'
      BY <1>0, <1>1, <1>3, <3>1 DEF RunInv, OutputInv, outputVars
    <3>7. QED
      BY <3>4, <3>5, <3>6
  <2>3. QED
    BY <1>2, <2>1, <2>2
<1>5. \A a \in Attempt : WorkInv(r, a)'
  BY <1>0, <1>1, <1>4, WorkKept DEF RunInv
<1>6. QED
  BY <1>1, <1>4, <1>5, RunKept DEF RunInv

LEMMA JobKept ==
    ASSUME TypeOK, TypeOK', FanOutInv, NEW r \in Run, JobStep(r)
    PROVE  FanOutInv'
<1>0. /\ RunInv(r) /\ rows[r] \in Row /\ jobs[r] \in Job /\ jobs[r].attempts \in Nat
      /\ rows[r].plan \in Plans
  BY DailyAssumption DEF FanOutInv, TypeOK, Job, Row
<1>1. OnlyRun(r) /\ UNCHANGED outputVars
  BY JobOnly
<1>2. CASE Take(r)
  <2>1. PICK a \in Attempt :
          /\ a = jobs[r].attempts + 1 /\ Goto(r, a, "reading") /\ UNCHANGED rows
          /\ jobs'[r] = [status |-> "running", attempts |-> a]
    BY <1>2 DEF Take, TypeOK
  <2>2. RowInv(r)' /\ Grows(r)
    BY <1>0, <1>1, <2>1, RowKept DEF RunInv, outputVars
  <2>3. OutputInv(r)'
    BY <1>0, <1>1, <2>1 DEF RunInv, OutputInv, Published, Completed, outputVars
  <2>4. work[r][a].pc = "idle" /\ work[r][a] \in Work
    BY <1>0, <2>1 DEF RunInv, WorkInv, TypeOK
  <2>5. work'[r][a] = [work[r][a] EXCEPT !.pc = "reading"]
    BY <2>1, GotoWork DEF Pc
  <2>6. /\ work'[r][a].pc = "reading" /\ work'[r][a].items = <<>>
        /\ work'[r][a].done = {}
    BY <1>0, <2>1, <2>4, <2>5 DEF RunInv, WorkInv, Fresh, Work
  <2>7. WorkInv(r, a)'
    BY <1>0, <2>1, <2>6, NothingDone DEF WorkInv, Done, Fresh, Ending, Attempt
  <2>8. OnlyAttempt(r, a)
    BY <2>1, GotoOnly DEF Pc
  <2>9. QED
    BY <1>1, <2>1, <2>2, <2>3, <2>7, <2>8, AttemptKept
<1>3. CASE Terminalize(r)
  <2>1. /\ UNCHANGED work
        /\ jobs'[r] = [jobs[r] EXCEPT !.status = "failed"]
        /\ rows'[r] = [rows[r] EXCEPT
                         !.status = IF IsActive(r) THEN "needs_attention" ELSE @]
    BY <1>3 DEF Terminalize, TypeOK
  <2>2. /\ rows'[r].plan = rows[r].plan /\ rows'[r].checkpoint = rows[r].checkpoint
        /\ rows'[r].status = "completed" <=> Completed(r)
        /\ Exists(r) => rows'[r].status # "absent"
        /\ jobs'[r].attempts = jobs[r].attempts /\ jobs'[r].status # "completed"
    BY <1>0, <2>1 DEF Row, Job, IsActive, ActiveStatus, Completed, Exists
  <2>3. RowInv(r)' /\ Grows(r) /\ OutputInv(r)'
    BY <1>0, <1>1, <2>2 DEF RunInv, RowInv, OutputInv, Published, Completed, Exists, Done,
       Grows, outputVars
  <2>4. \A a \in Attempt : WorkInv(r, a)'
    BY <1>0, <2>1, <2>3, WorkKept DEF RunInv
  <2>5. QED
    BY <1>1, <2>3, <2>4, RunKept DEF RunInv
<1>4. QED
  BY <1>2, <1>3 DEF JobStep

\* A step of an attempt that leaves its row alone.
LEMMA Moves ==
    ASSUME TypeOK, TypeOK', FanOutInv, NEW r \in Run, NEW a \in Attempt, WorkStep(r, a),
           UNCHANGED rows, OutputInv(r)', WorkInv(r, a)'
    PROVE  FanOutInv'
<1>1. /\ OnlyRun(r) /\ OnlyAttempt(r, a) /\ handled \subseteq handled'
      /\ jobs'[r].attempts = jobs[r].attempts /\ jobs[r].attempts \in Nat
  BY WorkOnly, DailyAssumption DEF TypeOK, Job
<1>2. RowInv(r)' /\ Grows(r)
  BY <1>1, RowKept DEF FanOutInv, RunInv
<1>3. QED
  BY <1>1, <1>2, AttemptKept

\* What the own attempt of a step looks like after it.
LEMMA GotoInv ==
    ASSUME TypeOK, TypeOK', NEW r \in Run, NEW a \in Attempt, NEW pc \in Pc,
           Goto(r, a, pc), WorkInv(r, a), Grows(r), work[r][a].pc # "idle",
           pc \in Fresh <=> work[r][a].pc \in Fresh,
           pc \in Ending => rows'[r].status = "completed"
    PROVE  WorkInv(r, a)'
<1>1. /\ rows'[r].plan \in Plans /\ jobs[r].attempts \in Nat
      /\ jobs'[r].attempts \in Nat /\ work[r][a] \in Work
  BY DailyAssumption DEF TypeOK, Row, Job
<1>2. /\ work'[r][a].pc = pc /\ work'[r][a].items = work[r][a].items
      /\ work'[r][a].done = work[r][a].done
  <2>1. work'[r][a] = [work[r][a] EXCEPT !.pc = pc]
    BY GotoWork
  <2>2. QED
    BY <1>1, <2>1 DEF Work
<1>3. Prefix(rows'[r].plan, work[r][a].done)
      /\ \A i \in work[r][a].done : <<r, i>> \in handled'
  <2>1. CASE pc \in Fresh
    BY <1>1, <2>1, NothingDone DEF WorkInv
  <2>2. CASE pc \notin Fresh
    BY <2>2 DEF WorkInv, Grows, Done
  <2>3. QED
    BY <2>1, <2>2
<1>4. a <= jobs'[r].attempts
  BY <1>1 DEF WorkInv, Grows, Attempt
<1>5. QED
  BY <1>2, <1>3, <1>4 DEF WorkInv, Grows, Published, Completed, Done

LEMMA LoadInv ==
    ASSUME TypeOK, NEW r \in Run, NEW a \in Attempt, RowInv(r), WorkInv(r, a),
           work[r][a].pc # "idle", Published(r),
           work' = [work EXCEPT ![r][a] = Loaded(rows[r])],
           UNCHANGED <<rows, jobs, outputVars>>
    PROVE  WorkInv(r, a)'
<1>1. rows[r] \in Row /\ rows[r].checkpoint \in Checkpoint
  BY DEF TypeOK, Row
<1>2. Loaded(rows[r]) \in Work
  BY <1>1 DEF Loaded, Work, Checkpoint, Pc
<1>3. work'[r][a] = Loaded(rows[r])
  BY <1>2, SetWork
<1>4. QED
  BY <1>3 DEF WorkInv, RowInv, Loaded, Published, Completed, Done, Fresh, Ending, outputVars

LEMMA ResetInv ==
    ASSUME TypeOK, TypeOK', NEW r \in Run, NEW a \in Attempt,
           work' = [work EXCEPT ![r][a] = NoWork]
    PROVE  WorkInv(r, a)'
<1>1. NoWork \in Work
  BY EmptyPlan DEF NoWork, Work, Pc
<1>2. work'[r][a] = NoWork
  BY <1>1, SetWork
<1>3. rows'[r].plan \in Plans
  BY DEF TypeOK, Row
<1>4. Prefix(rows'[r].plan, {})
  BY <1>3, NothingDone
<1>5. /\ work'[r][a].pc = "idle" /\ work'[r][a].items = <<>>
      /\ work'[r][a].done = {}
  BY <1>2 DEF NoWork
<1>6. QED
  BY <1>4, <1>5 DEF WorkInv, Done, Fresh, Ending

\* The steps that read the row and those that end an attempt.
LEMMA ReadKept ==
    ASSUME TypeOK, TypeOK', FanOutInv, NEW r \in Run, NEW a \in Attempt,
           Read(r, a) \/ Reread(r, a)
    PROVE  FanOutInv'
<1>0. RunInv(r) /\ RowInv(r) /\ WorkInv(r, a) /\ work[r][a].pc # "idle"
  BY DEF FanOutInv, RunInv, Read, Reread
<1>1. UNCHANGED <<rows, jobs, outputVars>>
  BY DEF Read, Reread
<1>2. OutputInv(r)'
  BY <1>0, <1>1 DEF RunInv, OutputInv, Completed, Published, outputVars
<1>3. \/ Usable(rows[r]) /\ work' = [work EXCEPT ![r][a] = Loaded(rows[r])]
      \/ work[r][a].pc = "reading" /\ Goto(r, a, "planning")
  BY DEF Read, Reread
<1>4. WorkInv(r, a)'
  <2>1. CASE Usable(rows[r]) /\ work' = [work EXCEPT ![r][a] = Loaded(rows[r])]
    BY <1>0, <1>1, <2>1, LoadInv DEF Usable, Published
  <2>2. CASE work[r][a].pc = "reading" /\ Goto(r, a, "planning")
    <3>1. Grows(r)
      BY <1>1, DailyAssumption DEF Grows, Published, Completed, outputVars, TypeOK, Job
    <3>2. QED
      BY <1>0, <2>2, <3>1, GotoInv DEF Fresh, Ending, Pc
  <2>3. QED
    BY <1>3, <2>1, <2>2
<1>5. QED
  BY <1>1, <1>2, <1>4, Moves DEF WorkStep

LEMMA EndKept ==
    ASSUME TypeOK, TypeOK', FanOutInv, NEW r \in Run, NEW a \in Attempt,
           Return(r, a) \/ Throw(r, a)
    PROVE  FanOutInv'
<1>0. RunInv(r) /\ WorkInv(r, a) /\ jobs[r] \in Job
  BY DEF FanOutInv, RunInv, TypeOK
<1>1. UNCHANGED <<rows, outputVars>> /\ work' = [work EXCEPT ![r][a] = NoWork]
  BY DEF Return, Throw
<1>2. jobs'[r].status = "completed" => Completed(r)
  <2>1. CASE Return(r, a)
    BY <1>0, <2>1 DEF Return, WorkInv, Ending
  <2>2. CASE Throw(r, a)
    <3>1. UNCHANGED jobs \/ \E s \in {"failed", "queued"} : jobs' = [jobs EXCEPT ![r].status = s]
      BY <2>2 DEF Throw
    <3>2. jobs'[r].status \in {jobs[r].status, "failed", "queued"}
      BY <1>0, <3>1 DEF TypeOK, Job
    <3>3. QED
      BY <1>0, <3>2 DEF RunInv, OutputInv
  <2>3. QED
    BY <2>1, <2>2
<1>3. OutputInv(r)'
  BY <1>0, <1>1, <1>2 DEF RunInv, OutputInv, Completed, Published, outputVars
<1>4. WorkInv(r, a)'
  BY <1>1, ResetInv
<1>5. QED
  BY <1>1, <1>3, <1>4, Moves DEF WorkStep

\* The steps after the completion of the run.
LEMMA ReportKept ==
    ASSUME TypeOK, TypeOK', FanOutInv, NEW r \in Run, NEW a \in Attempt,
           Adopt(r, a) \/ EnqueueDigest(r, a) \/ RecordSummary(r, a)
    PROVE  FanOutInv'
<1>0. RunInv(r) /\ WorkInv(r, a)
  BY DEF FanOutInv, RunInv
<1>1. /\ UNCHANGED <<rows, jobs, handled>> /\ Completed(r)
      /\ digests' \cup summaries' \subseteq digests \cup summaries \cup {r}
  BY <1>0 DEF Adopt, EnqueueDigest, RecordSummary, WorkInv, Ending, Completed, outputVars
<1>2. PICK pc \in Ending : Goto(r, a, pc)
  BY DEF Adopt, EnqueueDigest, RecordSummary, Ending
<1>3. work[r][a].pc \notin Fresh
  BY DEF Adopt, EnqueueDigest, RecordSummary, Fresh
<1>4. Grows(r)
  BY <1>1, DailyAssumption DEF Grows, Published, Completed, TypeOK, Job
<1>5. WorkInv(r, a)'
  BY <1>0, <1>1, <1>2, <1>3, <1>4, GotoInv DEF Fresh, Ending, Pc, Completed
<1>6. OutputInv(r)'
  BY <1>0, <1>1 DEF RunInv, OutputInv, Completed, Published
<1>7. QED
  BY <1>1, <1>5, <1>6, Moves DEF WorkStep

\* Two attempts may plan; only the first plan is published, and nothing was
\* enqueued before it.
LEMMA PublishKept ==
    ASSUME TypeOK, TypeOK', FanOutInv, NEW r \in Run, NEW a \in Attempt, Publish(r, a)
    PROVE  FanOutInv'
<1>0. /\ RunInv(r) /\ RowInv(r) /\ WorkInv(r, a) /\ OutputInv(r)
      /\ rows[r] \in Row /\ work[r][a].pc = "planning"
  BY DEF FanOutInv, RunInv, TypeOK, Publish
<1>1. /\ OnlyRun(r) /\ OnlyAttempt(r, a) /\ UNCHANGED <<jobs, outputVars>>
      /\ Goto(r, a, "rereading") /\ jobs[r].attempts \in Nat
  <2>1. WorkStep(r, a) /\ UNCHANGED <<jobs, outputVars>> /\ Goto(r, a, "rereading")
    BY DEF WorkStep, Publish
  <2>2. jobs[r].attempts \in Nat
    BY DailyAssumption DEF TypeOK, Job
  <2>3. QED
    BY <2>1, <2>2, WorkOnly
<1>2. RowInv(r)' /\ Grows(r) /\ OutputInv(r)'
  <2>1. CASE Publishable(rows[r])
    <3>1. ~Published(r) /\ ~Completed(r)
      BY <2>1 DEF Publishable, Unpublished, Published, Completed, ActiveStatus
    <3>2. PICK p \in Plans :
            rows'[r] = [rows[r] EXCEPT
                          !.status = "fanout", !.plan = p,
                          !.checkpoint = [phase |-> "fanout", items |-> p, done |-> {}]]
      BY <2>1 DEF Publish, TypeOK
    <3>3. /\ rows'[r].status = "fanout" /\ rows'[r].plan = p
          /\ rows'[r].checkpoint.phase = "fanout" /\ rows'[r].checkpoint.items = p
          /\ rows'[r].checkpoint.done = {}
      BY <1>0, <3>2 DEF Row
    <3>4. Prefix(p, {})
      BY NothingDone
    <3>5. RowInv(r)'
      BY <3>3, <3>4 DEF RowInv, Published, Completed, Exists, Done
    <3>6. Grows(r)
      BY <1>1, <3>1 DEF Grows, outputVars
    <3>7. OutputInv(r)'
      BY <1>0, <1>1, <3>1 DEF OutputInv, outputVars
    <3>8. QED
      BY <3>5, <3>6, <3>7
  <2>2. CASE ~Publishable(rows[r])
    <3>1. UNCHANGED rows
      BY <2>2 DEF Publish
    <3>2. RowInv(r)' /\ Grows(r)
      BY <1>0, <1>1, <3>1, RowKept DEF outputVars
    <3>3. OutputInv(r)'
      BY <1>0, <1>1, <3>1 DEF OutputInv, Published, Completed, outputVars
    <3>4. QED
      BY <3>2, <3>3
  <2>3. QED
    BY <2>1, <2>2
<1>3. WorkInv(r, a)'
  BY <1>0, <1>1, <1>2, GotoInv DEF Fresh, Ending, Pc
<1>4. QED
  BY <1>1, <1>2, <1>3, AttemptKept

\* The loop enqueues the first item that is left, so what it did stays a first
\* part of the plan.
LEMMA EnqueueKept ==
    ASSUME TypeOK, TypeOK', FanOutInv, NEW r \in Run, NEW a \in Attempt,
           EnqueueChildren(r, a)
    PROVE  FanOutInv'
<1>0. /\ RowInv(r) /\ WorkInv(r, a) /\ OutputInv(r)
      /\ rows[r].plan \in Plans /\ work[r][a] \in Work /\ work[r][a].pc = "fanout"
  BY DEF FanOutInv, RunInv, TypeOK, Row, EnqueueChildren
<1>1. /\ Published(r) /\ work[r][a].items = rows[r].plan
      /\ Done(r, work[r][a].done) /\ a <= jobs[r].attempts
  BY <1>0 DEF WorkInv, Fresh
<1>2. PICK n \in Remaining(work[r][a]) :
        /\ NextItem(work[r][a], n)
        /\ handled' = handled \cup {<<r, work[r][a].items[n]>>}
        /\ work' = [work EXCEPT ![r][a].pc = "saving",
                                ![r][a].done = @ \cup {work[r][a].items[n]}]
  BY DEF EnqueueChildren
<1>3. UNCHANGED <<rows, jobs, digests, summaries>>
  BY DEF EnqueueChildren
<1> DEFINE p == rows[r].plan
<1>4. /\ n \in 1..Len(p) /\ p[n] \notin work[r][a].done
      /\ \A m \in 1..Len(p) : p[m] \notin work[r][a].done => n <= m
      /\ p[n] \in Item /\ p[n] \in Range(p)
  BY <1>0, <1>1, <1>2, PlanIsSeq DEF Remaining, NextItem, Range
<1>5. Prefix(p, work[r][a].done \cup {p[n]})
  BY <1>0, <1>1, <1>4, PrefixGrows DEF Done
<1>6. \A i \in work[r][a].done \cup {p[n]} : <<r, i>> \in handled'
  BY <1>1, <1>2 DEF Done
<1>7. /\ work'[r][a].pc = "saving" /\ work'[r][a].items = p
      /\ work'[r][a].done = work[r][a].done \cup {p[n]}
  <2> DEFINE w == [work[r][a] EXCEPT !.pc = "saving", !.done = @ \cup {p[n]}]
  <2>1. w \in Work
    BY <1>0, <1>4 DEF Work, Pc
  <2>2. work' = [work EXCEPT ![r][a] = w]
    BY <1>0, <1>1, <1>2 DEF TypeOK
  <2>3. work'[r][a] = w
    BY <2>1, <2>2, SetWork
  <2>4. QED
    BY <1>0, <1>1, <2>3 DEF Work
<1>8. WorkInv(r, a)'
  <2>1. Prefix(rows'[r].plan, work'[r][a].done)
    BY <1>3, <1>5, <1>7
  <2>2. \A i \in work'[r][a].done : <<r, i>> \in handled'
    BY <1>6, <1>7
  <2>3. QED
    BY <1>1, <1>3, <1>7, <2>1, <2>2 DEF WorkInv, Done, Published, Fresh, Ending
<1>9. OutputInv(r)'
  BY <1>0, <1>1, <1>2, <1>3, <1>4 DEF OutputInv, Completed, Published
<1>10. QED
  BY <1>3, <1>8, <1>9, Moves DEF WorkStep

\* A write of progress or of the completion.
LEMMA AdvanceKept ==
    ASSUME TypeOK, TypeOK', FanOutInv, NEW r \in Run, NEW a \in Attempt,
           WorkStep(r, a), UNCHANGED <<jobs, outputVars>>,
           work[r][a].pc \in {"fanout", "saving"},
           NEW status \in {"fanout", "completed"}, NEW next \in Pc \ Fresh,
           Advance(r, a, status, next),
           status = "completed" => Remaining(work[r][a]) = {},
           next \in Ending => status = "completed"
    PROVE  FanOutInv'
<1>0. /\ RowInv(r) /\ WorkInv(r, a) /\ OutputInv(r)
      /\ rows[r] \in Row /\ rows[r].plan \in Plans /\ work[r][a] \in Work
      /\ work[r][a].pc \notin Fresh
  BY DEF FanOutInv, RunInv, TypeOK, Row, Fresh
<1>1. /\ OnlyRun(r) /\ OnlyAttempt(r, a) /\ jobs[r].attempts \in Nat
  BY WorkOnly, DailyAssumption DEF TypeOK, Job
<1>2. Published(r) /\ work[r][a].items = rows[r].plan /\ Done(r, work[r][a].done)
  BY <1>0 DEF WorkInv
<1>3. /\ RowInv(r)' /\ Grows(r) /\ OutputInv(r)'
      /\ \/ Goto(r, a, "rejected")
         \/ Goto(r, a, next) /\ (status = "completed" => rows'[r].status = "completed")
  <2> DEFINE done == work[r][a].done
  <2>1. ASSUME UNCHANGED rows PROVE RowInv(r)' /\ Grows(r) /\ OutputInv(r)'
    <3>1. RowInv(r)' /\ Grows(r)
      BY <1>0, <1>1, <2>1, RowKept DEF outputVars
    <3>2. OutputInv(r)'
      BY <1>0, <2>1 DEF OutputInv, Published, Completed, outputVars
    <3>3. QED
      BY <3>1, <3>2
  <2>2. CASE ~Accepts(rows[r], status, done)
    BY <2>1, <2>2 DEF Advance
  <2>3. CASE Accepts(rows[r], status, done) /\ Closed(rows[r])
    <3>1. UNCHANGED rows
      BY <2>3 DEF Advance, Advanced, TypeOK
    <3>2. Completed(r)
      BY <1>0, <2>3 DEF Closed, RowInv, Completed
    <3>3. Goto(r, a, next)
      BY <2>3 DEF Advance
    <3>4. QED
      BY <2>1, <3>1, <3>2, <3>3 DEF Completed
  <2>4. CASE Accepts(rows[r], status, done) /\ ~Closed(rows[r])
    <3>1. Goto(r, a, next)
      BY <2>4 DEF Advance
    <3>2. rows'[r] = [rows[r] EXCEPT
                        !.status = status,
                        !.checkpoint = [phase |-> IF status = "completed"
                                                  THEN "fanout_complete" ELSE "fanout",
                                        items |-> work[r][a].items, done |-> done]]
      BY <2>4 DEF Advance, Advanced, TypeOK
    <3>3. /\ rows'[r].status = status /\ rows'[r].plan = rows[r].plan
          /\ rows'[r].checkpoint.phase = IF status = "completed"
                                         THEN "fanout_complete" ELSE "fanout"
          /\ rows'[r].checkpoint.items = rows[r].plan
          /\ rows'[r].checkpoint.done = done
      BY <1>0, <1>2, <3>2 DEF Row
    <3>4. ~Completed(r)
      BY <2>4 DEF Closed, Completed
    <3>5. ASSUME status = "completed"
          PROVE  \A i \in Range(rows[r].plan) : <<r, i>> \in handled
      BY <1>2, <3>5 DEF Remaining, Range, Done
    <3>6. RowInv(r)'
      BY <1>2, <3>3, <3>5 DEF RowInv, Published, Completed, Exists, Done, outputVars
    <3>7. Grows(r)
      BY <1>1, <3>3, <3>4 DEF Grows, outputVars
    <3>8. OutputInv(r)'
      BY <1>0, <1>2, <3>3, <3>4 DEF OutputInv, Published, outputVars
    <3>9. QED
      BY <3>1, <3>3, <3>6, <3>7, <3>8
  <2>5. QED
    BY <2>2, <2>3, <2>4
<1>4. PICK pc \in (Pc \ Fresh) :
        Goto(r, a, pc) /\ (pc \in Ending => rows'[r].status = "completed")
  <2>1. CASE Goto(r, a, "rejected")
    BY <2>1 DEF Pc, Fresh, Ending
  <2>2. CASE Goto(r, a, next) /\ (status = "completed" => rows'[r].status = "completed")
    BY <2>2
  <2>3. QED
    BY <1>3, <2>1, <2>2
<1>5. WorkInv(r, a)'
  BY <1>0, <1>3, <1>4, GotoInv DEF Fresh
<1>6. QED
  BY <1>1, <1>3, <1>5, AttemptKept

LEMMA SaveKept ==
    ASSUME TypeOK, TypeOK', FanOutInv, NEW r \in Run, NEW a \in Attempt, SaveProgress(r, a)
    PROVE  FanOutInv'
<1>1. WorkStep(r, a) /\ UNCHANGED <<jobs, outputVars>> /\ work[r][a].pc = "saving"
      /\ Advance(r, a, "fanout", "fanout")
  BY DEF WorkStep, SaveProgress
<1>2. "fanout" \in Pc \ Fresh /\ "fanout" \notin Ending
  BY DEF Pc, Fresh, Ending
<1>3. QED
  BY <1>1, <1>2, AdvanceKept

LEMMA CompleteKept ==
    ASSUME TypeOK, TypeOK', FanOutInv, NEW r \in Run, NEW a \in Attempt, Complete(r, a)
    PROVE  FanOutInv'
<1>1. WorkStep(r, a) /\ UNCHANGED <<jobs, outputVars>> /\ work[r][a].pc = "fanout"
      /\ Remaining(work[r][a]) = {} /\ Advance(r, a, "completed", "digest")
  BY DEF WorkStep, Complete
<1>2. "digest" \in Pc \ Fresh
  BY DEF Pc, Fresh
<1>3. QED
  BY <1>1, <1>2, AdvanceKept

LEMMA StutterKept == ASSUME FanOutInv, UNCHANGED vars PROVE FanOutInv'
BY DEF vars, outputVars, FanOutInv, RunInv, RowInv, WorkInv, OutputInv, Done, Published,
   Completed, Exists

LEMMA Invariance == Spec => [](TypeOK /\ FanOutInv)
<1>1. ASSUME TypeOK, FanOutInv, TypeOK', Next PROVE FanOutInv'
  <2>1. ASSUME NEW r \in Run, StartStep(r) \/ JobStep(r) PROVE FanOutInv'
    BY <1>1, <2>1, StartKept, JobKept
  <2>2. ASSUME NEW r \in Run, NEW a \in Attempt, WorkStep(r, a) PROVE FanOutInv'
    BY <1>1, <2>2, ReadKept, PublishKept, EnqueueKept, SaveKept, CompleteKept, ReportKept,
       EndKept DEF WorkStep
  <2>3. QED
    BY <1>1, <2>1, <2>2 DEF Next
<1>2. TypeOK /\ FanOutInv /\ TypeOK' /\ [Next]_vars => FanOutInv'
  BY <1>1, StutterKept
<1>3. QED
  BY InitInv, TypeCorrect, <1>2, PTL DEF Spec

-----------------------------------------------------------------------------
(***************************************************************************)
(* What follows.                                                           *)
(***************************************************************************)

\* A job that is completed leaves its run completed.
THEOREM JobDone == Spec => []JobDoneRunDone
<1>1. FanOutInv => JobDoneRunDone
  BY DEF FanOutInv, RunInv, OutputInv, Completed, JobDoneRunDone
<1>2. QED
  BY <1>1, Invariance, PTL

\* What counts as done was enqueued and is a first part of the plan.
THEOREM Prefixes == Spec => []ProgressIsPrefix
<1>1. TypeOK /\ FanOutInv => ProgressIsPrefix
  <2> SUFFICES ASSUME TypeOK, FanOutInv, NEW r \in Run,
                      NEW done \in {rows[r].checkpoint.done} \cup {work[r][a].done : a \in Attempt}
               PROVE  IsPrefixOfPlan(r, done) /\ done \subseteq HandledOf(r)
    BY DEF ProgressIsPrefix
  <2>1. Done(r, done)
    <3>1. RowInv(r) /\ \A a \in Attempt : WorkInv(r, a)
      BY DEF FanOutInv, RunInv
    <3>2. CASE done = rows[r].checkpoint.done
      BY <3>1, <3>2 DEF RowInv, Done
    <3>3. CASE \E a \in Attempt : done = work[r][a].done
      BY <3>1, <3>3 DEF WorkInv, Done
    <3>4. QED
      BY <3>2, <3>3
  <2>2. done \subseteq Item
    <3>1. rows[r] \in Row /\ work[r] \in [Attempt -> Work]
      BY DEF TypeOK
    <3>2. QED
      BY <3>1 DEF Row, Checkpoint, Work
  <2>3. QED
    BY <2>1, <2>2 DEF Done, Prefix, IsPrefixOfPlan, HandledOf
<1>2. QED
  BY <1>1, Invariance, PTL

\* Of two first parts of a plan, the one with as many items contains the other:
\* comparing lengths is enough.
LEMMA LongerContains ==
    ASSUME NEW p \in Plans, NEW d, NEW e, Prefix(p, d), Prefix(p, e),
           Cardinality(e) >= Cardinality(d)
    PROVE  d \subseteq e
<1>1. Len(p) \in Nat /\ DOMAIN p = 1..Len(p)
  BY PlanIsSeq, DailyAssumption
<1>2. PICK k \in 0..Len(p), l \in 0..Len(p) :
        d = {p[m] : m \in 1..k} /\ e = {p[m] : m \in 1..l}
  BY DEF Prefix
<1>3. CASE k <= l
  BY <1>1, <1>2, <1>3
<1>4. CASE l < k
  <2>1. e \subseteq d
    BY <1>1, <1>2, <1>4
  <2>2. IsFiniteSet(d)
    <3>1. d \subseteq Item
      BY <1>1, <1>2, PlanIsSeq
    <3>2. QED
      BY <3>1, FS_Subset, DailyAssumption
  <2>3. Cardinality(e) <= Cardinality(d) /\ Cardinality(e) \in Nat /\ Cardinality(d) \in Nat
    BY <2>1, <2>2, FS_Subset, FS_CardinalityType
  <2>4. e = d
    BY <2>1, <2>2, <2>3, FS_Subset
  <2>5. QED
    BY <2>4
<1>5. QED
  BY <1>1, <1>2, <1>3, <1>4

\* What a step does to a row it writes.
RowForward(r) ==
    /\ rows[r].checkpoint.done \subseteq rows'[r].checkpoint.done
    /\ Completed(r) => rows'[r] = rows[r]

LEMMA AdvanceForward ==
    ASSUME TypeOK, FanOutInv, NEW r \in Run, NEW a \in Attempt,
           work[r][a].pc \notin Fresh, NEW status \in {"fanout", "completed"}, NEW next,
           Advance(r, a, status, next)
    PROVE  RowForward(r)
<1>0. RowInv(r) /\ WorkInv(r, a) /\ rows[r] \in Row /\ rows[r].plan \in Plans
  BY DEF FanOutInv, RunInv, TypeOK, Row
<1>1. CASE UNCHANGED rows
  BY <1>1 DEF RowForward
<1>2. CASE Accepts(rows[r], status, work[r][a].done) /\ ~Closed(rows[r])
  <2>1. /\ rows'[r].checkpoint.done = work[r][a].done
        /\ ~Completed(r)
    <3>1. PICK ph \in Phase :
            rows'[r] = [rows[r] EXCEPT
                          !.status = status,
                          !.checkpoint = [phase |-> ph, items |-> work[r][a].items,
                                          done |-> work[r][a].done]]
      BY <1>2 DEF Advance, Advanced, TypeOK, Phase
    <3>2. QED
      BY <1>0, <1>2, <3>1 DEF Row, Closed, Completed
  <2>2. rows[r].checkpoint.done \subseteq work[r][a].done
    BY <1>0, <1>2, LongerContains DEF RowInv, WorkInv, Done, Accepts
  <2>3. QED
    BY <2>1, <2>2 DEF RowForward
<1>3. QED
  BY <1>1, <1>2 DEF Advance, Advanced, TypeOK

LEMMA StepForward ==
    ASSUME TypeOK, FanOutInv, Next
    PROVE  \A q \in Run : RowForward(q)
<1>1. ASSUME NEW r \in Run, NEW q \in Run \ {r}, OnlyRun(r)
      PROVE  RowForward(q)
  BY <1>1 DEF OnlyRun, RowForward
<1>2. ASSUME NEW r \in Run, StartStep(r) \/ JobStep(r) PROVE RowForward(r)
  <2>1. RowInv(r) /\ rows[r] \in Row
    BY DEF FanOutInv, RunInv, TypeOK
  <2>2. CASE UNCHANGED rows
    BY <2>2 DEF RowForward
  <2>3. CASE ~Exists(r)
    BY <2>1, <2>3 DEF RowForward, RowInv, Completed, Exists
  <2>4. CASE Terminalize(r)
    <3>1. rows'[r] = [rows[r] EXCEPT
                        !.status = IF IsActive(r) THEN "needs_attention" ELSE @]
      BY <2>4 DEF Terminalize, TypeOK
    <3>2. rows'[r].checkpoint = rows[r].checkpoint
      BY <2>1, <3>1 DEF Row
    <3>3. Completed(r) => rows'[r] = rows[r]
      BY <2>1, <3>1 DEF Row, Completed, IsActive, ActiveStatus
    <3>4. QED
      BY <3>2, <3>3 DEF RowForward
  <2>5. QED
    BY <1>2, <2>2, <2>3, <2>4 DEF StartStep, InsertScheduled, EnqueueScheduled,
       EnqueueManual, JobStep, Take
<1>3. ASSUME NEW r \in Run, NEW a \in Attempt, WorkStep(r, a) PROVE RowForward(r)
  <2>1. RowInv(r) /\ rows[r] \in Row
    BY DEF FanOutInv, RunInv, TypeOK
  <2>2. CASE UNCHANGED rows
    BY <2>2 DEF RowForward
  <2>3. CASE Publish(r, a) /\ Publishable(rows[r])
    BY <2>1, <2>3 DEF Publishable, Unpublished, Published, RowInv, RowForward, Completed,
       ActiveStatus
  <2>4. CASE SaveProgress(r, a) \/ Complete(r, a)
    <3>1. work[r][a].pc \notin Fresh
      BY <2>4 DEF SaveProgress, Complete, Fresh
    <3>2. QED
      BY <2>4, <3>1, AdvanceForward DEF SaveProgress, Complete
  <2>5. QED
    BY <1>3, <2>2, <2>3, <2>4 DEF WorkStep, Read, Publish, Reread, EnqueueChildren, Adopt,
       EnqueueDigest, RecordSummary, Return, Throw
<1>4. ASSUME NEW r \in Run, StartStep(r) \/ JobStep(r), NEW q \in Run PROVE RowForward(q)
  <2>1. OnlyRun(r)
    BY <1>4, StartOnly, JobOnly
  <2>2. QED
    BY <1>1, <1>2, <1>4, <2>1
<1>5. ASSUME NEW r \in Run, NEW a \in Attempt, WorkStep(r, a), NEW q \in Run
      PROVE  RowForward(q)
  <2>1. OnlyRun(r)
    BY <1>5, WorkOnly
  <2>2. QED
    BY <1>1, <1>3, <1>5, <2>1
<1>6. QED
  BY <1>4, <1>5 DEF Next

\* Saved progress is never taken back and a completed run is left as it is.
THEOREM NothingLost == Spec => NoRegression
<1>1. TypeOK /\ FanOutInv /\ [Next]_vars =>
        [\A r \in Run :
           /\ rows[r].checkpoint.done \subseteq rows'[r].checkpoint.done
           /\ rows[r].status = "completed" => rows'[r] = rows[r]]_vars
  BY StepForward DEF RowForward, Completed
<1>2. QED
  BY <1>1, Invariance, PTL DEF Spec, NoRegression

-----------------------------------------------------------------------------
(***************************************************************************)
(* Daily research implements FanOut: each step is one of its steps or none *)
(* at all.                                                                 *)
(***************************************************************************)

\* The state FanOut sees.
CompletedRuns == {r \in Run : rows[r].status = "completed"}
Reported == digests \cup summaries
PlansSeen == [r \in Run |-> PlanOf(r)]

LEMMA PlansAgree == Plans = Promise!Plans /\ \A p : Range(p) = Promise!Range(p)
BY DEF Plans, Promise!Plans, Range, Promise!Range

LEMMA PlanSeen ==
    ASSUME TypeOK, NEW r \in Run, Published(r)
    PROVE  PlanOf(r) = rows[r].plan /\ Promise!Planned(r)
<1>1. rows[r].plan \in Plans
  BY DEF TypeOK, Row
<1>2. rows[r].plan # NoPlan
  BY <1>1, PlanIsSeq, DailyAssumption
<1>3. QED
  BY <1>2 DEF Published, PlanOf, Promise!Planned

LEMMA InitRefines == Init => Promise!Init
BY DEF Init, NoRow, NoCheckpoint, Promise!Init, PlanOf

\* What FanOut sees of a row.
SameRow(r) ==
    /\ rows'[r].checkpoint.phase = "none" <=> rows[r].checkpoint.phase = "none"
    /\ rows[r].checkpoint.phase # "none" => rows'[r].plan = rows[r].plan
    /\ rows'[r].status = "completed" <=> rows[r].status = "completed"

LEMMA Unseen ==
    ASSUME \A r \in Run : SameRow(r)
    PROVE  UNCHANGED PlansSeen /\ UNCHANGED CompletedRuns
BY DEF SameRow, PlansSeen, CompletedRuns, PlanOf

LEMMA StutterRefines ==
    ASSUME \A r \in Run : SameRow(r), UNCHANGED <<handled, Reported>>
    PROVE  UNCHANGED Promise!vars
BY Unseen DEF Promise!vars, PlansSeen, CompletedRuns, Reported

LEMMA OthersSame ==
    ASSUME NEW r \in Run, OnlyRun(r), SameRow(r)
    PROVE  \A q \in Run : SameRow(q)
BY DEF OnlyRun, SameRow

LEMMA StartRefines ==
    ASSUME TypeOK, FanOutInv, NEW r \in Run, StartStep(r) \/ JobStep(r)
    PROVE  UNCHANGED Promise!vars
<1>0. RowInv(r) /\ rows[r] \in Row
  BY DEF FanOutInv, RunInv, TypeOK
<1>1. OnlyRun(r) /\ UNCHANGED outputVars
  BY StartOnly, JobOnly
<1>2. SameRow(r)
  <2>1. CASE UNCHANGED rows
    BY <2>1 DEF SameRow
  <2>2. CASE ~Exists(r) /\ \E s : rows'[r] = [NoRow EXCEPT !.source = s, !.status = "queued"]
    BY <1>0, <2>2 DEF SameRow, RowInv, Published, Exists, NoRow, NoCheckpoint
  <2>3. CASE Terminalize(r)
    <3>1. rows'[r] = [rows[r] EXCEPT
                        !.status = IF IsActive(r) THEN "needs_attention" ELSE @]
      BY <2>3 DEF Terminalize, TypeOK
    <3>2. QED
      BY <1>0, <3>1 DEF SameRow, Row, IsActive, ActiveStatus
  <2>4. QED
    BY <2>1, <2>2, <2>3 DEF StartStep, InsertScheduled, EnqueueScheduled, EnqueueManual,
       JobStep, Take, TypeOK
<1>3. QED
  BY <1>1, <1>2, OthersSame, StutterRefines DEF outputVars, Reported

LEMMA PublishRefines ==
    ASSUME TypeOK, FanOutInv, NEW r \in Run, NEW a \in Attempt, Publish(r, a)
    PROVE  [Promise!Next]_Promise!vars
<1>0. rows[r] \in Row /\ OnlyRun(r) /\ UNCHANGED outputVars
  BY WorkOnly DEF TypeOK, WorkStep, Publish
<1>1. CASE UNCHANGED rows
  BY <1>0, <1>1, StutterRefines DEF SameRow, outputVars, Reported
<1>2. CASE Publishable(rows[r])
  <2>1. PICK p \in Plans :
          rows'[r] = [rows[r] EXCEPT
                        !.status = "fanout", !.plan = p,
                        !.checkpoint = [phase |-> "fanout", items |-> p, done |-> {}]]
    BY <1>2 DEF Publish, TypeOK
  <2>2. /\ rows'[r].status = "fanout" /\ rows'[r].plan = p
        /\ rows'[r].checkpoint.phase = "fanout"
    BY <1>0, <2>1 DEF Row
  <2>3. PlanOf(r) = NoPlan /\ rows[r].status # "completed"
    BY <1>2 DEF Publishable, Unpublished, PlanOf, ActiveStatus
  <2>4. PlansSeen' = [PlansSeen EXCEPT ![r] = p]
    BY <1>0, <2>2 DEF PlansSeen, PlanOf, OnlyRun
  <2>5. UNCHANGED CompletedRuns
    BY <1>0, <2>2, <2>3 DEF CompletedRuns, OnlyRun
  <2>6. Promise!Publish(r)
    BY <1>0, <2>3, <2>4, <2>5, PlansAgree
       DEF Promise!Publish, Promise!Planned, PlansSeen, CompletedRuns, outputVars
  <2>7. QED
    BY <2>6 DEF Promise!Next
<1>3. QED
  BY <1>1, <1>2 DEF Publish

LEMMA EnqueueRefines ==
    ASSUME TypeOK, FanOutInv, NEW r \in Run, NEW a \in Attempt, EnqueueChildren(r, a)
    PROVE  [Promise!Next]_Promise!vars
<1>0. WorkInv(r, a) /\ rows[r].plan \in Plans
  BY DEF FanOutInv, RunInv, TypeOK, Row
<1>1. work[r][a].items = rows[r].plan /\ Published(r)
  BY <1>0 DEF WorkInv, EnqueueChildren, Fresh
<1>2. PICK n \in Remaining(work[r][a]) : handled' = handled \cup {<<r, work[r][a].items[n]>>}
  BY DEF EnqueueChildren
<1>3. work[r][a].items[n] \in Range(PlanOf(r)) /\ Promise!Planned(r)
  BY <1>1, <1>2, PlanSeen DEF Remaining, Range
<1>4. UNCHANGED <<PlansSeen, CompletedRuns, Reported>>
  BY Unseen DEF EnqueueChildren, SameRow, Reported
<1>5. Promise!Handle(r)
  BY <1>2, <1>3, <1>4, PlansAgree DEF Promise!Handle, PlansSeen, CompletedRuns, Reported
<1>6. QED
  BY <1>5 DEF Promise!Next

LEMMA SaveRefines ==
    ASSUME TypeOK, FanOutInv, NEW r \in Run, NEW a \in Attempt, SaveProgress(r, a)
    PROVE  UNCHANGED Promise!vars
<1>0. /\ RowInv(r) /\ WorkInv(r, a) /\ rows[r] \in Row /\ OnlyRun(r)
      /\ UNCHANGED outputVars /\ Advance(r, a, "fanout", "fanout")
  BY WorkOnly DEF FanOutInv, RunInv, TypeOK, WorkStep, SaveProgress
<1>1. Published(r)
  BY <1>0 DEF WorkInv, SaveProgress, Fresh
<1>2. SameRow(r)
  <2>1. CASE UNCHANGED rows
    BY <2>1 DEF SameRow
  <2>2. CASE Accepts(rows[r], "fanout", work[r][a].done)
    <3>1. ~Closed(rows[r])
      BY <2>2 DEF Accepts
    <3>2. rows'[r] = [rows[r] EXCEPT
                        !.status = "fanout",
                        !.checkpoint = [phase |-> "fanout", items |-> work[r][a].items,
                                        done |-> work[r][a].done]]
      BY <1>0, <2>2, <3>1 DEF Advance, Advanced, TypeOK
    <3>3. QED
      BY <1>0, <1>1, <3>1, <3>2 DEF SameRow, Row, Closed, Published
  <2>3. QED
    BY <1>0, <2>1, <2>2 DEF Advance
<1>3. QED
  BY <1>0, <1>2, OthersSame, StutterRefines DEF outputVars, Reported

LEMMA CompleteRefines ==
    ASSUME TypeOK, FanOutInv, NEW r \in Run, NEW a \in Attempt, Complete(r, a)
    PROVE  [Promise!Next]_Promise!vars
<1>0. /\ RowInv(r) /\ WorkInv(r, a) /\ rows[r] \in Row /\ OnlyRun(r)
      /\ rows[r].plan \in Plans
      /\ UNCHANGED outputVars /\ Advance(r, a, "completed", "digest")
  BY WorkOnly DEF FanOutInv, RunInv, TypeOK, Row, WorkStep, Complete
<1>1. Published(r) /\ work[r][a].items = rows[r].plan /\ Done(r, work[r][a].done)
  BY <1>0 DEF WorkInv, Complete, Fresh
<1>2. CASE UNCHANGED rows
  BY <1>0, <1>2, StutterRefines DEF SameRow, outputVars, Reported
<1>3. CASE Accepts(rows[r], "completed", work[r][a].done) /\ ~Closed(rows[r])
  <2>1. rows'[r] = [rows[r] EXCEPT
                      !.status = "completed",
                      !.checkpoint = [phase |-> "fanout_complete",
                                      items |-> work[r][a].items,
                                      done |-> work[r][a].done]]
    BY <1>0, <1>3 DEF Advance, Advanced, TypeOK
  <2>2. /\ rows'[r].status = "completed" /\ rows'[r].plan = rows[r].plan
        /\ rows'[r].checkpoint.phase = "fanout_complete"
    BY <1>0, <2>1 DEF Row
  <2>3. UNCHANGED PlansSeen
    BY <1>0, <1>1, <2>2 DEF PlansSeen, PlanOf, OnlyRun, Published
  <2>4. CompletedRuns' = CompletedRuns \cup {r}
    BY <1>0, <2>2 DEF CompletedRuns, OnlyRun
  <2>5. Promise!Planned(r) /\ PlanOf(r) = rows[r].plan
    BY <1>1, PlanSeen
  <2>6. \A i \in Range(PlanOf(r)) : <<r, i>> \in handled
    BY <1>1, <2>5 DEF Complete, Remaining, Range, Done
  <2>7. Promise!Complete(r)
    BY <1>0, <2>3, <2>4, <2>5, <2>6, PlansAgree
       DEF Promise!Complete, PlansSeen, CompletedRuns, outputVars
  <2>8. QED
    BY <2>7 DEF Promise!Next
<1>4. QED
  BY <1>0, <1>2, <1>3 DEF Advance, Advanced, TypeOK

LEMMA ReportRefines ==
    ASSUME TypeOK, FanOutInv, NEW r \in Run, NEW a \in Attempt,
           EnqueueDigest(r, a) \/ RecordSummary(r, a)
    PROVE  [Promise!Next]_Promise!vars
<1>1. Completed(r)
  BY DEF FanOutInv, RunInv, WorkInv, Ending, EnqueueDigest, RecordSummary
<1>2. UNCHANGED <<PlansSeen, CompletedRuns, handled>>
  BY Unseen DEF EnqueueDigest, RecordSummary, SameRow
<1>3. CASE UNCHANGED Reported
  BY <1>3, StutterRefines DEF EnqueueDigest, RecordSummary, SameRow
<1>4. CASE Reported' = Reported \cup {r}
  <2>1. Promise!Report(r)
    BY <1>1, <1>2, <1>4 DEF Promise!Report, PlansSeen, CompletedRuns, Reported, Completed
  <2>2. QED
    BY <2>1 DEF Promise!Next
<1>5. QED
  BY <1>3, <1>4 DEF EnqueueDigest, RecordSummary, Reported

\* Whatever attempts run side by side, crash and start again: each run keeps
\* its first plan, enqueues what the plan names and nothing else, is completed
\* after all of it, and is reported on only when completed.
THEOREM Refinement == Spec => ImplementsFanOut
<1>1. TypeOK /\ FanOutInv /\ [Next]_vars => [Promise!Next]_Promise!vars
  <2> SUFFICES ASSUME TypeOK, FanOutInv, [Next]_vars PROVE [Promise!Next]_Promise!vars
    OBVIOUS
  <2>1. ASSUME NEW r \in Run, StartStep(r) \/ JobStep(r)
        PROVE  [Promise!Next]_Promise!vars
    BY <2>1, StartRefines
  <2>2. ASSUME NEW r \in Run, NEW a \in Attempt, WorkStep(r, a)
        PROVE  [Promise!Next]_Promise!vars
    <3>1. CASE UNCHANGED <<rows, outputVars>>
      BY <3>1, StutterRefines DEF SameRow, outputVars, Reported
    <3>2. QED
      BY <2>2, <3>1, PublishRefines, EnqueueRefines, SaveRefines, CompleteRefines,
         ReportRefines DEF WorkStep, Read, Reread, Adopt, Return, Throw
  <2>3. CASE UNCHANGED vars
    BY <2>3, StutterRefines DEF SameRow, vars, outputVars, Reported
  <2>4. QED
    BY <2>1, <2>2, <2>3 DEF Next
<1>2. QED
  BY <1>1, InitRefines, Invariance, PTL DEF Spec, ImplementsFanOut, Promise!Spec

-----------------------------------------------------------------------------
(***************************************************************************)
(* The job implements JobLifecycle.                                        *)
(***************************************************************************)

\* A job is never without its run: the run is inserted first.
JobHasRow ==
    \A r \in Run : ~Exists(r) => jobs[r].status = "absent" /\ rows[r].source = "none"

\* What an attempt writes to its row leaves it a row of the same source.
LEMMA RowWrites ==
    ASSUME TypeOK, NEW r \in Run, NEW a \in Attempt, WorkStep(r, a)
    PROVE  /\ rows'[r].source = rows[r].source
           /\ Exists(r) => rows'[r].status # "absent"
<1>1. rows \in [Run -> Row] /\ rows[r] \in Row
  BY DEF TypeOK
<1>2. CASE UNCHANGED rows
  BY <1>2 DEF Exists
<1>3. CASE Publish(r, a)
  BY <1>1, <1>2, <1>3 DEF Publish, Row
<1>4. CASE SaveProgress(r, a) \/ Complete(r, a)
  <2>1. PICK status \in {"fanout", "completed"}, next \in Pc : Advance(r, a, status, next)
    BY <1>4 DEF SaveProgress, Complete, Pc
  <2>2. rows' = [rows EXCEPT ![r] = Advanced(@, status, work[r][a].items, work[r][a].done)]
        \/ UNCHANGED rows
    BY <2>1 DEF Advance
  <2>3. rows'[r] = rows[r] \/ Advanced(rows[r], status, work[r][a].items, work[r][a].done)
                                = rows'[r]
    BY <1>1, <2>2
  <2>4. QED
    BY <1>1, <2>3 DEF Advanced, Row, Exists
<1>5. QED
  BY <1>2, <1>3, <1>4 DEF WorkStep, Read, Reread, EnqueueChildren, Adopt, EnqueueDigest,
     RecordSummary, Return, Throw

LEMMA RowStays ==
    ASSUME TypeOK, NEW r \in Run, Exists(r), Next
    PROVE  rows'[r].status # "absent"
<1>1. rows \in [Run -> Row] /\ rows[r] \in Row
  BY DEF TypeOK
<1>2. CASE rows'[r] = rows[r]
  BY <1>2 DEF Exists
<1>3. CASE StartStep(r) \/ JobStep(r)
  BY <1>1, <1>2, <1>3 DEF StartStep, InsertScheduled, EnqueueScheduled, EnqueueManual, JobStep,
     Take, Terminalize, Exists, Row
<1>4. CASE \E a \in Attempt : WorkStep(r, a)
  BY <1>4, RowWrites
<1>5. CASE \E q \in Run \ {r} : OnlyRun(q)
  BY <1>2, <1>5 DEF OnlyRun
<1>6. QED
  BY <1>3, <1>4, <1>5, StartOnly, JobOnly, WorkOnly DEF Next

\* The steps of a job, as JobLifecycle has them.
LEMMA StartIsAdd ==
    ASSUME TypeOK, JobHasRow, NEW r \in Run, StartStep(r)
    PROVE  Lifecycle!Add(r) \/ UNCHANGED Lifecycle!vars
<1>0. jobs \in [Run -> Job] /\ jobs[r] \in Job
  BY DEF TypeOK
<1>1. CASE UNCHANGED jobs
  BY <1>1 DEF Lifecycle!vars
<1>2. CASE jobs[r].status = "absent" /\ jobs' = [jobs EXCEPT ![r].status = "queued"]
  BY <1>0, <1>2 DEF Lifecycle!Add, Job
<1>3. QED
  BY <1>1, <1>2 DEF StartStep, InsertScheduled, EnqueueScheduled, EnqueueManual, JobHasRow

LEMMA JobIsTaken ==
    ASSUME TypeOK, NEW r \in Run, JobStep(r)
    PROVE  Lifecycle!Take({r}) \/ Lifecycle!GiveUp({r})
<1>0. jobs \in [Run -> Job] /\ jobs[r] \in Job /\ MaxAttempts \in Nat
  BY DailyAssumption DEF TypeOK
<1>1. CASE Take(r)
  BY <1>0, <1>1 DEF Take, Lifecycle!Take, Job, Attempt
<1>2. CASE Terminalize(r)
  BY <1>0, <1>2 DEF Terminalize, Holds, Lifecycle!GiveUp, Job
<1>3. QED
  BY <1>1, <1>2 DEF JobStep

LEMMA WorkEnds ==
    ASSUME TypeOK, NEW r \in Run, NEW a \in Attempt, WorkStep(r, a)
    PROVE  \/ Lifecycle!PutBack(r) \/ Lifecycle!Finish(r) \/ Lifecycle!GiveUp({r})
           \/ UNCHANGED Lifecycle!vars
<1>0. /\ jobs \in [Run -> Job] /\ jobs[r] \in Job /\ MaxAttempts \in Nat
      /\ a \in 1..MaxAttempts
  BY DailyAssumption DEF TypeOK, Attempt
<1>1. CASE UNCHANGED jobs
  BY <1>1 DEF Lifecycle!vars
<1>2. CASE Holds(r, a) /\ jobs' = [jobs EXCEPT ![r].status = "completed"]
  BY <1>0, <1>2 DEF Holds, Lifecycle!Finish, Job
<1>3. CASE Holds(r, a) /\ a # MaxAttempts /\ jobs' = [jobs EXCEPT ![r].status = "queued"]
  <2>1. jobs[r].attempts < MaxAttempts /\ jobs[r].status = "running"
    BY <1>0, <1>3 DEF Holds
  <2>2. Lifecycle!PutBack(r)
    BY <1>0, <1>3, <2>1 DEF Lifecycle!PutBack, Job
  <2>3. QED
    BY <2>2
<1>4. CASE Holds(r, a) /\ a = MaxAttempts /\ jobs' = [jobs EXCEPT ![r].status = "failed"]
  BY <1>0, <1>4 DEF Holds, Lifecycle!GiveUp, Job
<1>5. CASE Return(r, a) \/ Throw(r, a)
  BY <1>1, <1>2, <1>3, <1>4, <1>5 DEF Return, Throw
<1>6. CASE UNCHANGED jobs \/ Return(r, a) \/ Throw(r, a)
  BY <1>1, <1>5, <1>6
<1>7. UNCHANGED jobs \/ Return(r, a) \/ Throw(r, a)
  BY DEF WorkStep, Read, Publish, Reread, EnqueueChildren, SaveProgress, Complete,
     Adopt, EnqueueDigest, RecordSummary
<1>8. QED
  BY <1>6, <1>7

LEMMA JobRowInvariance == Spec => []JobHasRow
<1>1. Init => JobHasRow
  BY DEF Init, NoRow, JobHasRow
<1>2. TypeOK /\ JobHasRow /\ [Next]_vars => JobHasRow'
  <2> SUFFICES ASSUME TypeOK, JobHasRow, [Next]_vars, NEW r \in Run,
                      rows'[r].status = "absent"
               PROVE  jobs'[r].status = "absent" /\ rows'[r].source = "none"
    BY DEF JobHasRow, Exists
  <2>1. CASE UNCHANGED vars
    BY <2>1 DEF vars, JobHasRow, Exists
  <2>2. CASE Next
    <3>1. ~Exists(r) /\ jobs[r].status = "absent" /\ rows[r].source = "none"
      BY <2>2, RowStays DEF JobHasRow
    <3>2. CASE \E q \in Run \ {r} : OnlyRun(q)
      BY <3>1, <3>2 DEF OnlyRun
    <3>3. ASSUME StartStep(r) PROVE FALSE
      <4>1. rows'[r].status = "queued"
        BY <3>1, <3>3 DEF StartStep, InsertScheduled, EnqueueScheduled, EnqueueManual,
           TypeOK, NoRow
      <4>2. QED
        BY <4>1
    <3>4. ASSUME JobStep(r) PROVE FALSE
      BY <3>1, <3>4 DEF JobStep, Take, Terminalize, Holds
    <3>5. CASE \E a \in Attempt : WorkStep(r, a)
      <4>1. PICK a \in Attempt : WorkStep(r, a)
        BY <3>5
      <4>2. UNCHANGED jobs
        BY <3>1, <4>1 DEF WorkStep, Read, Publish, Reread, EnqueueChildren, SaveProgress,
           Complete, Adopt, EnqueueDigest, RecordSummary, Return, Throw, Holds
      <4>3. QED
        BY <3>1, <4>1, <4>2, RowWrites
    <3>6. QED
      BY <2>2, <3>2, <3>3, <3>4, <3>5, StartOnly, JobOnly, WorkOnly DEF Next
  <2>3. QED
    BY <2>1, <2>2
<1>3. QED
  BY <1>1, <1>2, TypeCorrect, PTL DEF Spec

\* To those who enqueue it, the job behaves as the queue promises.
THEOREM JobRefinement == Spec => ImplementsLifecycle
<1>1. Init => Lifecycle!Init
  BY DEF Init, Lifecycle!Init
<1>2. TypeOK /\ JobHasRow /\ [Next]_vars => [Lifecycle!Next]_(Lifecycle!vars)
  <2> SUFFICES ASSUME TypeOK, JobHasRow, [Next]_vars
               PROVE  Lifecycle!Next \/ UNCHANGED Lifecycle!vars
    OBVIOUS
  <2>1. ASSUME NEW r \in Run, StartStep(r) \/ JobStep(r)
        PROVE  Lifecycle!Next \/ UNCHANGED Lifecycle!vars
    <3>1. {r} \in SUBSET Run
      OBVIOUS
    <3>2. QED
      BY <2>1, <3>1, StartIsAdd, JobIsTaken DEF Lifecycle!Next
  <2>2. ASSUME NEW r \in Run, NEW a \in Attempt, WorkStep(r, a)
        PROVE  Lifecycle!Next \/ UNCHANGED Lifecycle!vars
    <3>1. {r} \in SUBSET Run
      OBVIOUS
    <3>2. QED
      BY <2>2, <3>1, WorkEnds DEF Lifecycle!Next
  <2>3. CASE UNCHANGED vars
    BY <2>3 DEF vars, Lifecycle!vars
  <2>4. QED
    BY <2>1, <2>2, <2>3 DEF Next
<1>3. QED
  BY <1>1, <1>2, JobRowInvariance, TypeCorrect, PTL DEF Spec, ImplementsLifecycle, Lifecycle!Spec
=============================================================================
