--------------------------- MODULE ContinuationProofs ---------------------------
(***************************************************************************)
(* The market probe of a candidate does not lose its way: whatever others  *)
(* claim, however often a claim lapses, an attempt fails or the budget is  *)
(* used up.  That holds because its resume jobs are keyed by the window    *)
(* they wait for; with one key per candidate it does not hold, which a run *)
(* shows, and the hypothesis Windowed is where the proof needs the keys.   *)
(***************************************************************************)
EXTENDS Continuation, TLAPS

-----------------------------------------------------------------------------
(***************************************************************************)
(* The inductive invariant.                                                *)
(***************************************************************************)

Busy == \A j \in JobKey : jobs[j] = "running" <=> runs[j].pc # "idle"

\* The days on which a deferral is scheduled have a morrow.
DayLeft == /\ exhausted => day < LastDay
           /\ \A j \in JobKey : runs[j].pc = "deferred" => day <= LastDay

\* No job waits for a window that has not come, and none is about to be enqueued
\* that does.
NotAhead ==
    /\ \A j \in JobKey : j.kind = "inflight" /\ jobs[j] # "absent" => j.at <= window
    /\ \A j \in JobKey : /\ runs[j].pc = "enqueueing" /\ runs[j].key.kind = "inflight"
                            => runs[j].key.at <= window

\* A job that waits for the present window is not over: it begins when the claim
\* has lapsed, and any call that makes a claim again ends the window.
WaitsForWindow ==
    ~validated => \A j \in JobKey : j.kind = "inflight" /\ j.at = window =>
                     jobs[j] \in {"absent", "queued"} \/ (runs[j].pc = "calling" /\ ~live)

\* A job that waits for another day has not begun.
WaitsForDay ==
    \A j \in JobKey : j.kind = "resume" /\ j.at > day => jobs[j] \in {"absent", "queued"}

\* What carries the research on: a job that waits or has not met its refusal, or
\* one that is about to enqueue another that does not exist.
Going(j) == \/ jobs[j] = "queued"
            \/ runs[j].pc \in {"calling", "paying", "inflight", "deferred"}
            \/ runs[j].pc = "enqueueing" /\ jobs[runs[j].key] = "absent"

GoesOn == validated \/ \E j \in JobKey : Going(j)

ContinuationInv == /\ TypeOK /\ Busy /\ DayLeft
                   /\ NotAhead /\ WaitsForWindow /\ WaitsForDay /\ GoesOn

-----------------------------------------------------------------------------
LEMMA Keys ==
    /\ Initial \in JobKey /\ Initial.kind = "initial"
    /\ \A d \in 1..LastDay + 1 :
         Resume(d) \in JobKey /\ Resume(d).kind = "resume" /\ Resume(d).at = d
    /\ \A w \in Windows, r \in BOOLEAN :
         /\ InFlight(w, r) \in JobKey
         /\ InFlight(w, r).kind = "inflight" /\ InFlight(w, r).at = w
    /\ \A j \in JobKey : j.kind \in {"resume", "inflight"} => j.at \in Nat
<1>1. \A j \in JobKey : j.kind \in {"resume", "inflight"} => j.at \in Nat
  <2>1. SUFFICES ASSUME NEW j \in JobKey, j.kind \in {"resume", "inflight"}
                 PROVE  j.at \in Nat
    OBVIOUS
  <2>2. CASE j = Initial
    BY <2>1, <2>2 DEF Initial
  <2>3. ASSUME NEW d \in 1..LastDay + 1, j = Resume(d)
        PROVE  j.at \in Nat
    BY <2>3, ContinuationAssumption DEF Resume
  <2>4. ASSUME NEW w \in Windows, NEW r \in BOOLEAN, j = InFlight(w, r)
        PROVE  j.at \in Nat
    BY <2>4, ContinuationAssumption DEF InFlight
  <2>5. QED
    BY <2>2, <2>3, <2>4 DEF JobKey
<1>2. Initial \in JobKey /\ Initial.kind = "initial"
  <2>1. Initial \in JobKey
    BY DEF JobKey
  <2>2. QED
    BY <2>1 DEF Initial
<1>3. \A d \in 1..LastDay + 1 :
        Resume(d) \in JobKey /\ Resume(d).kind = "resume" /\ Resume(d).at = d
  <2>1. \A d \in 1..LastDay + 1 : Resume(d) \in JobKey
    BY DEF JobKey
  <2>2. QED
    BY <2>1 DEF Resume
<1>4. \A w \in Windows, r \in BOOLEAN :
        /\ InFlight(w, r) \in JobKey
        /\ InFlight(w, r).kind = "inflight" /\ InFlight(w, r).at = w
  <2>1. \A w \in Windows, r \in BOOLEAN : InFlight(w, r) \in JobKey
    BY DEF JobKey
  <2>2. QED
    BY <2>1 DEF InFlight
<1>5. QED
  BY <1>1, <1>2, <1>3, <1>4

LEMMA ContinuationInit ==
    ASSUME Init
    PROVE  ContinuationInv
<1>1. /\ jobs = [j \in JobKey |-> IF j = Initial THEN "queued" ELSE "absent"]
      /\ runs = [j \in JobKey |-> [pc |-> "idle", key |-> Initial]]
      /\ live = FALSE /\ payer = Others /\ window = 0 /\ cached = FALSE /\ day = 1
      /\ exhausted \in BOOLEAN /\ (exhausted => LastDay > 1)
      /\ validated = FALSE /\ mishaps = 0
  BY DEF Init
<1>2. Initial \in JobKey /\ Initial.kind = "initial"
  BY Keys
<1>3. \A j \in JobKey : runs[j].pc = "idle" /\ jobs[j] \in {"queued", "absent"}
                        /\ (j # Initial => jobs[j] = "absent")
  BY <1>1
<1>4. TypeOK
  <2>1. runs \in [JobKey -> [pc : Pc, key : JobKey]]
    BY <1>1, <1>2 DEF Pc
  <2>2. jobs \in [JobKey -> {"absent", "queued", "running", "settled"}]
    BY <1>1
  <2>3. window \in Windows /\ day \in 1..LastDay + 1 /\ mishaps \in 0..MaxMishaps
    BY <1>1, ContinuationAssumption
  <2>4. QED
    BY <1>1, <2>1, <2>2, <2>3 DEF TypeOK
<1>5. Busy /\ DayLeft
  BY <1>1, <1>3, ContinuationAssumption DEF Busy, DayLeft
<1>6. NotAhead /\ WaitsForWindow /\ WaitsForDay
  BY <1>2, <1>3 DEF NotAhead, WaitsForWindow, WaitsForDay
<1>7. GoesOn
  BY <1>1, <1>2 DEF GoesOn, Going
<1>8. QED
  BY <1>4, <1>5, <1>6, <1>7 DEF ContinuationInv

\* Where one run goes, the others stay.
LEMMA GotoRow ==
    ASSUME TypeOK, NEW j \in JobKey, NEW p \in Pc, Goto(j, p)
    PROVE  /\ runs' \in [JobKey -> [pc : Pc, key : JobKey]]
           /\ runs'[j].pc = p /\ runs'[j].key = runs[j].key
           /\ \A i \in JobKey : i # j => runs'[i] = runs[i]
<1>1. runs \in [JobKey -> [pc : Pc, key : JobKey]]
  BY DEF TypeOK
<1>2. runs[j] \in [pc : Pc, key : JobKey]
  BY <1>1
<1>3. PICK q \in Pc, k \in JobKey : runs[j] = [pc |-> q, key |-> k] /\ runs[j].key = k
  BY <1>2
<1>4. [runs[j] EXCEPT !.pc = p] = [pc |-> p, key |-> k]
  BY <1>3
<1>5. runs' = [runs EXCEPT ![j] = [pc |-> p, key |-> k]]
  BY <1>4 DEF Goto
<1>6. [pc |-> p, key |-> k] \in [pc : Pc, key : JobKey]
  OBVIOUS
<1>7. QED
  BY <1>1, <1>3, <1>5, <1>6

-----------------------------------------------------------------------------
(***************************************************************************)
(* The surroundings.                                                       *)
(***************************************************************************)

\* A window that has just come is not one a job waits for.
LEMMA NewWindow ==
    ASSUME ContinuationInv, UNCHANGED jobs, window' = window + 1
    PROVE  WaitsForWindow'
<1>1. window \in Nat /\ window' = window + 1
  BY ContinuationAssumption DEF ContinuationInv, TypeOK
<1>2. ASSUME NEW j \in JobKey, j.kind = "inflight", j.at = window'
      PROVE  jobs'[j] = "absent"
  <2>1. ~(j.at <= window)
    BY <1>1, <1>2
  <2>2. QED
    BY <1>2, <2>1 DEF ContinuationInv, NotAhead
<1>3. QED
  BY <1>2 DEF WaitsForWindow

\* Neither the jobs nor what is scheduled depends on a window that is over.
LEMMA StillNotAhead ==
    ASSUME ContinuationInv, window' \in Nat, window <= window',
           \A j \in JobKey : jobs'[j] # "absent" => jobs[j] # "absent",
           \A j \in JobKey : runs'[j].pc = "enqueueing" => runs'[j] = runs[j]
    PROVE  NotAhead'
<1>1. window \in Nat
  BY ContinuationAssumption DEF ContinuationInv, TypeOK
<1>2. ASSUME NEW j \in JobKey, j.kind = "inflight", jobs'[j] # "absent"
      PROVE  j.at <= window'
  <2>1. j.at \in Nat /\ j.at <= window
    BY <1>2, Keys DEF ContinuationInv, NotAhead
  <2>2. QED
    BY <1>1, <2>1
<1>3. ASSUME NEW j \in JobKey, runs'[j].pc = "enqueueing", runs'[j].key.kind = "inflight"
      PROVE  runs'[j].key.at <= window'
  <2>1. runs'[j] = runs[j] /\ runs[j].key \in JobKey
    BY <1>3 DEF ContinuationInv, TypeOK
  <2>2. runs[j].key.at \in Nat /\ runs[j].key.at <= window
    BY <1>3, <2>1, Keys DEF ContinuationInv, NotAhead
  <2>3. QED
    BY <1>1, <2>1, <2>2
<1>4. QED
  BY <1>2, <1>3 DEF NotAhead

LEMMA SurroundingsKeep ==
    ASSUME ContinuationInv, Windows = Nat,
           OthersClaim \/ OthersComplete \/ Lapse \/ NextDay
    PROVE  ContinuationInv'
<1>1. /\ TypeOK /\ window \in Nat /\ day \in Nat /\ LastDay \in Nat /\ mishaps \in Nat
      /\ UNCHANGED <<jobs, runs, validated>>
  BY ContinuationAssumption DEF ContinuationInv, TypeOK, OthersClaim, OthersComplete, Lapse, NextDay
<1>2. mishaps' \in 0..MaxMishaps
  BY <1>1, ContinuationAssumption DEF TypeOK, Mishap, OthersClaim, OthersComplete, Lapse, NextDay
<1>3. Busy' /\ GoesOn'
  BY <1>1 DEF ContinuationInv, Busy, GoesOn, Going
<1>4. CASE OthersClaim \/ OthersComplete
  <2>1. window' = window + 1 /\ UNCHANGED <<day, exhausted>>
    BY <1>4 DEF OthersClaim, OthersComplete
  <2>2. window' \in Windows /\ window' \in Nat /\ window <= window'
    BY <1>1, <2>1
  <2>3. /\ live' \in BOOLEAN /\ cached' \in BOOLEAN /\ payer' \in JobKey \cup {Others}
    BY <1>1, <1>4 DEF OthersClaim, OthersComplete, TypeOK
  <2>4. TypeOK'
    BY <1>1, <1>2, <2>1, <2>2, <2>3 DEF TypeOK
  <2>5. DayLeft' /\ WaitsForDay'
    BY <1>1, <2>1 DEF ContinuationInv, DayLeft, WaitsForDay
  <2>6. NotAhead'
    BY <1>1, <2>2, StillNotAhead
  <2>7. WaitsForWindow'
    BY <1>1, <2>1, NewWindow
  <2>8. QED
    BY <1>3, <2>4, <2>5, <2>6, <2>7 DEF ContinuationInv
<1>5. CASE Lapse
  <2>1. live' = FALSE /\ UNCHANGED <<payer, window, cached, day, exhausted>>
    BY <1>5 DEF Lapse
  <2>2. TypeOK'
    BY <1>1, <1>2, <2>1 DEF TypeOK
  <2>3. DayLeft' /\ NotAhead' /\ WaitsForDay' /\ WaitsForWindow'
    BY <1>1, <2>1 DEF ContinuationInv, DayLeft, NotAhead, WaitsForDay, WaitsForWindow
  <2>4. QED
    BY <1>3, <2>2, <2>3 DEF ContinuationInv
<1>6. CASE NextDay
  <2>1. /\ day <= LastDay /\ day' = day + 1
        /\ day = LastDay => \A j \in JobKey : runs[j].pc \notin {"deferred", "enqueueing"}
        /\ exhausted' \in BOOLEAN /\ (exhausted' => day' < LastDay)
        /\ UNCHANGED <<live, payer, window, cached>>
    BY <1>6 DEF NextDay, claimVars
  <2>2. day' \in 1..LastDay + 1
    BY <1>1, <2>1 DEF TypeOK
  <2>3. TypeOK'
    BY <1>1, <1>2, <2>1, <2>2 DEF TypeOK
  <2>4. DayLeft'
    <3>1. ASSUME NEW j \in JobKey, runs'[j].pc = "deferred"
          PROVE  day' <= LastDay
      <4>1. day # LastDay
        BY <1>1, <2>1, <3>1
      <4>2. QED
        BY <1>1, <2>1, <4>1
    <3>2. QED
      BY <2>1, <3>1 DEF DayLeft
  <2>5. WaitsForDay'
    <3>1. ASSUME NEW j \in JobKey, j.kind = "resume", j.at > day'
          PROVE  jobs'[j] \in {"absent", "queued"}
      <4>1. j.at \in Nat /\ j.at > day
        <5>1. j.at \in Nat
          BY <3>1, Keys
        <5>2. j.at > day + 1
          BY <2>1, <3>1
        <5>3. QED
          BY <1>1, <5>1, <5>2
      <4>2. QED
        BY <1>1, <3>1, <4>1 DEF ContinuationInv, WaitsForDay
    <3>2. QED
      BY <3>1 DEF WaitsForDay
  <2>6. NotAhead' /\ WaitsForWindow'
    BY <1>1, <2>1 DEF ContinuationInv, NotAhead, WaitsForWindow
  <2>7. QED
    BY <1>3, <2>3, <2>4, <2>5, <2>6 DEF ContinuationInv
<1>7. QED
  BY <1>4, <1>5, <1>6

-----------------------------------------------------------------------------
(***************************************************************************)
(* The jobs of the candidate.                                              *)
(***************************************************************************)

\* What waits for a window or a day, when one row and its job move.
LEMMA OneMoves ==
    ASSUME ContinuationInv, NEW j \in JobKey,
           UNCHANGED <<window, day>>, validated => validated', live' => live,
           \A i \in JobKey : i # j => runs'[i] = runs[i] /\ jobs'[i] = jobs[i],
           jobs[j] # "absent", runs'[j].pc # "enqueueing",
           ~validated' /\ j.kind = "inflight" /\ j.at = window =>
             jobs'[j] = "queued" \/ (runs'[j].pc = "calling" /\ ~live'),
           j.kind = "resume" /\ j.at > day => jobs'[j] = "queued"
    PROVE  NotAhead' /\ WaitsForWindow' /\ WaitsForDay'
<1>1. NotAhead'
  <2>1. window \in Nat /\ window' \in Nat /\ window <= window'
    BY ContinuationAssumption DEF ContinuationInv, TypeOK
  <2>2. \A i \in JobKey : jobs'[i] # "absent" => jobs[i] # "absent"
    OBVIOUS
  <2>3. \A i \in JobKey : runs'[i].pc = "enqueueing" => runs'[i] = runs[i]
    OBVIOUS
  <2>4. QED
    BY <2>1, <2>2, <2>3, StillNotAhead
<1>2. WaitsForWindow'
  <2>1. SUFFICES ASSUME ~validated', NEW i \in JobKey, i.kind = "inflight", i.at = window
                 PROVE  jobs'[i] \in {"absent", "queued"} \/ (runs'[i].pc = "calling" /\ ~live')
    BY DEF WaitsForWindow
  <2>2. CASE i = j
    BY <2>1, <2>2
  <2>3. CASE i # j
    <3>1. jobs[i] \in {"absent", "queued"} \/ (runs[i].pc = "calling" /\ ~live)
      BY <2>1 DEF ContinuationInv, WaitsForWindow
    <3>2. QED
      BY <2>3, <3>1
  <2>4. QED
    BY <2>2, <2>3
<1>3. WaitsForDay'
  BY DEF ContinuationInv, WaitsForDay
<1>4. QED
  BY <1>1, <1>2, <1>3

LEMMA BeginKeeps ==
    ASSUME ContinuationInv, Windowed = TRUE, NEW j \in JobKey, Begin(j)
    PROVE  ContinuationInv'
<1>1. /\ TypeOK /\ jobs[j] = "queued" /\ Available(j) /\ Goto(j, "calling")
      /\ jobs' = [jobs EXCEPT ![j] = "running"]
      /\ UNCHANGED <<live, payer, window, cached, day, exhausted, validated, mishaps>>
  BY DEF ContinuationInv, Begin, claimVars
<1>2. /\ runs' \in [JobKey -> [pc : Pc, key : JobKey]] /\ runs'[j].pc = "calling"
      /\ \A i \in JobKey : i # j => runs'[i] = runs[i]
  <2>1. "calling" \in Pc
    BY DEF Pc
  <2>2. QED
    BY <1>1, <2>1, GotoRow
<1>3. /\ jobs' \in [JobKey -> {"absent", "queued", "running", "settled"}]
      /\ jobs'[j] = "running" /\ \A i \in JobKey : i # j => jobs'[i] = jobs[i]
  BY <1>1 DEF TypeOK
<1>4. TypeOK'
  BY <1>1, <1>2, <1>3 DEF TypeOK
<1>5. Busy'
  BY <1>2, <1>3 DEF ContinuationInv, Busy
<1>6. DayLeft'
  BY <1>1, <1>2 DEF ContinuationInv, DayLeft
<1>7. j.kind = "inflight" /\ j.at = window => ~live
  BY <1>1 DEF Available
<1>8. ~(j.kind = "resume" /\ j.at > day)
  <2>1. SUFFICES ASSUME j.kind = "resume"
                 PROVE  ~(j.at > day)
    OBVIOUS
  <2>2. j.at <= day /\ j.at \in Nat /\ day \in Nat
    BY <1>1, <2>1, Keys, ContinuationAssumption DEF Available, TypeOK
  <2>3. QED
    BY <2>2
<1>9. NotAhead' /\ WaitsForWindow' /\ WaitsForDay'
  <2>1. jobs[j] # "absent" /\ runs'[j].pc # "enqueueing"
    BY <1>1, <1>2
  <2>2. live' => live
    BY <1>1
  <2>3. j.kind = "inflight" /\ j.at = window =>
          jobs'[j] = "queued" \/ (runs'[j].pc = "calling" /\ ~live')
    BY <1>1, <1>2, <1>7
  <2>4. j.kind = "resume" /\ j.at > day => jobs'[j] = "queued"
    BY <1>8
  <2>5. QED
    BY <1>1, <1>2, <1>3, <2>1, <2>2, <2>3, <2>4, OneMoves
<1>10. GoesOn'
  BY <1>2 DEF GoesOn, Going
<1>11. QED
  BY <1>4, <1>5, <1>6, <1>9, <1>10 DEF ContinuationInv

LEMMA RetryKeeps ==
    ASSUME ContinuationInv, NEW j \in JobKey, Retry(j)
    PROVE  ContinuationInv'
<1>1. /\ TypeOK /\ jobs[j] = "running" /\ mishaps < MaxMishaps /\ mishaps' = mishaps + 1
      /\ \/ jobs' = [jobs EXCEPT ![j] = "queued"] /\ Goto(j, "idle")
         \/ UNCHANGED jobs /\ Goto(j, "calling")
      /\ UNCHANGED <<live, payer, window, cached, day, exhausted, validated>>
  BY DEF ContinuationInv, Retry, Mishap, claimVars
<1>2. /\ runs' \in [JobKey -> [pc : Pc, key : JobKey]]
      /\ \A i \in JobKey : i # j => runs'[i] = runs[i]
      /\ \/ jobs'[j] = "queued" /\ runs'[j].pc = "idle"
         \/ jobs'[j] = "running" /\ runs'[j].pc = "calling"
  <2>1. {"idle", "calling"} \subseteq Pc
    BY DEF Pc
  <2>2. CASE jobs' = [jobs EXCEPT ![j] = "queued"] /\ Goto(j, "idle")
    <3>1. jobs'[j] = "queued"
      BY <1>1, <2>2 DEF TypeOK
    <3>2. QED
      BY <1>1, <2>1, <2>2, <3>1, GotoRow
  <2>3. CASE UNCHANGED jobs /\ Goto(j, "calling")
    BY <1>1, <2>1, <2>3, GotoRow
  <2>4. QED
    BY <1>1, <2>2, <2>3
<1>3. /\ jobs' \in [JobKey -> {"absent", "queued", "running", "settled"}]
      /\ \A i \in JobKey : i # j => jobs'[i] = jobs[i]
  BY <1>1 DEF TypeOK
<1>4. TypeOK'
  <2>1. mishaps' \in 0..MaxMishaps
    BY <1>1, ContinuationAssumption DEF TypeOK
  <2>2. QED
    BY <1>1, <1>2, <1>3, <2>1 DEF TypeOK
<1>5. Busy'
  BY <1>2, <1>3 DEF ContinuationInv, Busy
<1>6. DayLeft'
  BY <1>1, <1>2 DEF ContinuationInv, DayLeft
<1>7. NotAhead' /\ WaitsForWindow' /\ WaitsForDay'
  <2>1. ~validated /\ j.kind = "inflight" /\ j.at = window => ~live
    BY <1>1 DEF ContinuationInv, WaitsForWindow
  <2>2. ~(j.kind = "resume" /\ j.at > day)
    BY <1>1 DEF ContinuationInv, WaitsForDay
  <2>3. jobs[j] # "absent" /\ runs'[j].pc # "enqueueing"
    BY <1>1, <1>2
  <2>4. ~validated' /\ j.kind = "inflight" /\ j.at = window =>
          jobs'[j] = "queued" \/ (runs'[j].pc = "calling" /\ ~live')
    BY <1>1, <1>2, <2>1
  <2>5. QED
    BY <1>1, <1>2, <1>3, <2>2, <2>3, <2>4, OneMoves
<1>8. GoesOn'
  BY <1>2 DEF GoesOn, Going
<1>9. QED
  BY <1>4, <1>5, <1>6, <1>7, <1>8 DEF ContinuationInv

LEMMA CallKeeps ==
    ASSUME ContinuationInv, Windows = Nat, NEW j \in JobKey, Call(j)
    PROVE  ContinuationInv'
<1>1. /\ TypeOK /\ runs[j].pc = "calling"
      /\ UNCHANGED <<jobs, day, exhausted, mishaps>>
      /\ window \in Nat
  BY ContinuationAssumption DEF ContinuationInv, TypeOK, Call
<1>2. jobs[j] = "running"
  BY <1>1 DEF ContinuationInv, Busy
<1>3. ~(j.kind = "resume" /\ j.at > day)
  BY <1>2 DEF ContinuationInv, WaitsForDay
<1>4. PICK p \in {"leaving", "inflight", "deferred", "paying"} : Goto(j, p)
  BY DEF Call
<1>5. /\ runs' \in [JobKey -> [pc : Pc, key : JobKey]] /\ runs'[j].pc = p
      /\ \A i \in JobKey : i # j => runs'[i] = runs[i]
  <2>1. p \in Pc
    BY DEF Pc
  <2>2. QED
    BY <1>1, <1>4, <2>1, GotoRow
<1>6. Busy'
  BY <1>1, <1>2, <1>5 DEF ContinuationInv, Busy
<1>7. CASE cached /\ validated' = TRUE /\ UNCHANGED <<live, payer, window, cached>>
  <2>1. p = "leaving"
    <3>1. Goto(j, "leaving")
      BY <1>1, <1>7 DEF Call
    <3>2. runs'[j].pc = "leaving"
      BY <1>1, <3>1, GotoRow DEF Pc
    <3>3. QED
      BY <1>5, <3>2
  <2>2. TypeOK'
    BY <1>1, <1>5, <1>7 DEF TypeOK
  <2>3. DayLeft'
    BY <1>1, <1>5, <2>1 DEF ContinuationInv, DayLeft
  <2>4. NotAhead' /\ WaitsForWindow' /\ WaitsForDay'
    <3>1. jobs[j] # "absent" /\ runs'[j].pc # "enqueueing" /\ validated' /\ (live' => live)
      BY <1>2, <1>5, <1>7, <2>1
    <3>2. QED
      BY <1>1, <1>3, <1>5, <1>7, <3>1, OneMoves
  <2>5. GoesOn'
    BY <1>7 DEF GoesOn
  <2>6. QED
    BY <1>6, <2>2, <2>3, <2>4, <2>5 DEF ContinuationInv
<1>8. CASE live /\ p = "inflight" /\ UNCHANGED <<live, payer, window, cached, validated>>
  <2>1. TypeOK'
    BY <1>1, <1>5, <1>8 DEF TypeOK
  <2>2. DayLeft'
    BY <1>1, <1>5, <1>8 DEF ContinuationInv, DayLeft
  <2>3. NotAhead' /\ WaitsForWindow' /\ WaitsForDay'
    <3>1. ~(~validated /\ j.kind = "inflight" /\ j.at = window)
      BY <1>2, <1>8 DEF ContinuationInv, WaitsForWindow
    <3>2. jobs[j] # "absent" /\ runs'[j].pc # "enqueueing" /\ (live' => live)
          /\ (validated => validated')
      BY <1>2, <1>5, <1>8
    <3>3. QED
      BY <1>1, <1>3, <1>5, <1>8, <3>1, <3>2, OneMoves
  <2>4. GoesOn'
    BY <1>5, <1>8 DEF GoesOn, Going
  <2>5. QED
    BY <1>6, <2>1, <2>2, <2>3, <2>4 DEF ContinuationInv
<1>9. CASE /\ p = "deferred" => exhausted
           /\ p \in {"deferred", "paying"}
           /\ live' = TRUE /\ payer' = j /\ window' = window + 1
           /\ UNCHANGED <<cached, validated>>
  <2>1. window' \in Windows /\ window' \in Nat /\ window <= window'
    BY <1>1, <1>9
  <2>2. TypeOK'
    BY <1>1, <1>5, <1>9, <2>1 DEF TypeOK
  <2>3. DayLeft'
    <3>1. p = "deferred" => day <= LastDay
      <4>1. exhausted => day < LastDay
        BY DEF ContinuationInv, DayLeft
      <4>2. day \in Nat /\ LastDay \in Nat
        BY <1>1, ContinuationAssumption DEF TypeOK
      <4>3. QED
        BY <1>9, <4>1, <4>2
    <3>2. QED
      BY <1>1, <1>5, <3>1 DEF ContinuationInv, DayLeft
  <2>4. NotAhead'
    <3>1. \A i \in JobKey : runs'[i].pc = "enqueueing" => runs'[i] = runs[i]
      BY <1>5
    <3>2. QED
      BY <1>1, <2>1, <3>1, StillNotAhead
  <2>5. WaitsForWindow'
    BY <1>1, <1>9, NewWindow
  <2>6. WaitsForDay'
    BY <1>1 DEF ContinuationInv, WaitsForDay
  <2>7. GoesOn'
    BY <1>5, <1>9 DEF GoesOn, Going
  <2>8. QED
    BY <1>6, <2>2, <2>3, <2>4, <2>5, <2>6, <2>7 DEF ContinuationInv
<1>10. QED
  <2>1. \A q \in Pc : Goto(j, q) => q = p
    <3>1. TAKE q \in Pc
    <3>2. HAVE Goto(j, q)
    <3>3. runs'[j].pc = q
      BY <1>1, <3>2, GotoRow
    <3>4. QED
      BY <1>5, <3>3
  <2>2. {"leaving", "inflight", "deferred", "paying"} \subseteq Pc
    BY DEF Pc
  <2>3. CASE cached /\ validated' = TRUE /\ UNCHANGED claimVars
    BY <1>7, <2>3 DEF claimVars
  <2>4. CASE ~cached /\ live /\ Goto(j, "inflight") /\ UNCHANGED <<claimVars, validated>>
    <3>1. p = "inflight"
      BY <2>1, <2>2, <2>4
    <3>2. QED
      BY <1>8, <2>4, <3>1 DEF claimVars
  <2>5. CASE /\ ~cached /\ ~live /\ exhausted /\ Goto(j, "deferred")
             /\ live' = TRUE /\ payer' = j /\ window' = window + 1
             /\ UNCHANGED <<cached, validated>>
    <3>1. p = "deferred"
      BY <2>1, <2>2, <2>5
    <3>2. QED
      BY <1>9, <2>5, <3>1
  <2>6. CASE /\ ~cached /\ ~live /\ ~exhausted /\ Goto(j, "paying")
             /\ live' = TRUE /\ payer' = j /\ window' = window + 1
             /\ UNCHANGED <<cached, validated>>
    <3>1. p = "paying"
      BY <2>1, <2>2, <2>6
    <3>2. QED
      BY <1>9, <2>6, <3>1
  <2>7. QED
    BY <2>3, <2>4, <2>5, <2>6 DEF Call

LEMMA PayKeeps ==
    ASSUME ContinuationInv, Windows = Nat, NEW j \in JobKey, Pay(j)
    PROVE  ContinuationInv'
<1>1. /\ TypeOK /\ runs[j].pc = "paying" /\ Goto(j, "leaving")
      /\ cached' = TRUE /\ live' = FALSE /\ window' = window + 1 /\ validated' = TRUE
      /\ UNCHANGED <<jobs, payer, day, exhausted, mishaps>>
      /\ window \in Nat
  BY ContinuationAssumption DEF ContinuationInv, TypeOK, Pay, Paying
<1>2. /\ runs' \in [JobKey -> [pc : Pc, key : JobKey]] /\ runs'[j].pc = "leaving"
      /\ \A i \in JobKey : i # j => runs'[i] = runs[i]
  <2>1. "leaving" \in Pc
    BY DEF Pc
  <2>2. QED
    BY <1>1, <2>1, GotoRow
<1>3. window' \in Windows /\ window' \in Nat /\ window <= window'
  BY <1>1
<1>4. TypeOK'
  BY <1>1, <1>2, <1>3 DEF TypeOK
<1>5. Busy' /\ DayLeft'
  BY <1>1, <1>2 DEF ContinuationInv, Busy, DayLeft
<1>6. NotAhead'
  <2>1. \A i \in JobKey : runs'[i].pc = "enqueueing" => runs'[i] = runs[i]
    BY <1>2
  <2>2. QED
    BY <1>1, <1>3, <2>1, StillNotAhead
<1>7. WaitsForWindow' /\ WaitsForDay' /\ GoesOn'
  BY <1>1 DEF ContinuationInv, WaitsForWindow, WaitsForDay, GoesOn
<1>8. QED
  BY <1>4, <1>5, <1>6, <1>7 DEF ContinuationInv

LEMMA ThrowLostKeeps ==
    ASSUME ContinuationInv, NEW j \in JobKey, ThrowLost(j)
    PROVE  ContinuationInv'
<1>1. /\ TypeOK /\ runs[j].pc = "paying" /\ Goto(j, "calling")
      /\ UNCHANGED <<jobs, live, payer, window, cached, day, exhausted, validated, mishaps>>
  BY DEF ContinuationInv, ThrowLost, Paying, claimVars
<1>2. /\ runs' \in [JobKey -> [pc : Pc, key : JobKey]] /\ runs'[j].pc = "calling"
      /\ \A i \in JobKey : i # j => runs'[i] = runs[i]
  <2>1. "calling" \in Pc
    BY DEF Pc
  <2>2. QED
    BY <1>1, <2>1, GotoRow
<1>3. jobs[j] = "running"
  BY <1>1 DEF ContinuationInv, Busy
<1>4. TypeOK'
  BY <1>1, <1>2 DEF TypeOK
<1>5. Busy' /\ DayLeft'
  BY <1>1, <1>2 DEF ContinuationInv, Busy, DayLeft
<1>6. NotAhead' /\ WaitsForWindow' /\ WaitsForDay'
  <2>1. ~(~validated /\ j.kind = "inflight" /\ j.at = window)
    BY <1>1, <1>3 DEF ContinuationInv, WaitsForWindow
  <2>2. ~(j.kind = "resume" /\ j.at > day)
    BY <1>3 DEF ContinuationInv, WaitsForDay
  <2>3. jobs[j] # "absent" /\ runs'[j].pc # "enqueueing" /\ (live' => live)
        /\ (validated => validated')
    BY <1>1, <1>2, <1>3
  <2>4. QED
    BY <1>1, <1>2, <2>1, <2>2, <2>3, OneMoves
<1>7. GoesOn'
  BY <1>2 DEF GoesOn, Going
<1>8. QED
  BY <1>4, <1>5, <1>6, <1>7 DEF ContinuationInv

\* What is scheduled is a job that carries on, or will once it is enqueued: nobody
\* who waits for the present window, or for tomorrow, is over.
LEMMA ScheduleKeeps ==
    ASSUME ContinuationInv, Windowed = TRUE, NEW j \in JobKey, Schedule(j)
    PROVE  ContinuationInv'
<1>1. /\ TypeOK /\ runs[j].pc \in {"inflight", "deferred"}
      /\ UNCHANGED <<jobs, live, payer, window, cached, day, exhausted, validated, mishaps>>
  BY DEF ContinuationInv, Schedule, claimVars
<1>2. jobs[j] = "running"
  BY <1>1 DEF ContinuationInv, Busy
<1>3. PICK k : /\ runs' = [runs EXCEPT ![j] = [pc |-> "enqueueing", key |-> k]]
               /\ k = IF runs[j].pc = "inflight" THEN InFlightKey ELSE DeferredKey
  BY DEF Schedule
<1>4. /\ k \in JobKey
      /\ \/ k.kind = "inflight" /\ k.at = window
         \/ k.kind = "resume" /\ k.at > day
  <2>1. CASE runs[j].pc = "inflight"
    <3>1. PICK r \in BOOLEAN : k = InFlight(window, r)
      BY <1>3, <2>1 DEF InFlightKey
    <3>2. window \in Windows
      BY <1>1 DEF TypeOK
    <3>3. QED
      BY <3>1, <3>2, Keys
  <2>2. CASE runs[j].pc = "deferred"
    <3>1. k = Resume(day + 1)
      BY <1>3, <2>2 DEF DeferredKey
    <3>2. day \in 1..LastDay + 1 /\ day <= LastDay /\ LastDay \in Nat
      BY <1>1, <2>2, ContinuationAssumption DEF ContinuationInv, TypeOK, DayLeft
    <3>3. day + 1 \in 1..LastDay + 1
      BY <3>2
    <3>4. k \in JobKey /\ k.kind = "resume" /\ k.at = day + 1
      BY <3>1, <3>3, Keys
    <3>5. QED
      BY <3>2, <3>4
  <2>3. QED
    BY <1>1, <2>1, <2>2
<1>5. /\ runs' \in [JobKey -> [pc : Pc, key : JobKey]]
      /\ runs'[j].pc = "enqueueing" /\ runs'[j].key = k
      /\ \A i \in JobKey : i # j => runs'[i] = runs[i]
  <2>1. [pc |-> "enqueueing", key |-> k] \in [pc : Pc, key : JobKey]
    BY <1>4 DEF Pc
  <2>2. QED
    BY <1>1, <1>3, <2>1 DEF TypeOK
<1>6. TypeOK'
  BY <1>1, <1>5 DEF TypeOK
<1>7. Busy' /\ DayLeft'
  BY <1>1, <1>2, <1>5 DEF ContinuationInv, Busy, DayLeft
<1>8. NotAhead'
  <2>1. \A i \in JobKey : i.kind = "inflight" /\ jobs'[i] # "absent" => i.at <= window'
    BY <1>1 DEF ContinuationInv, NotAhead
  <2>2. k.kind = "inflight" => k.at <= window'
    <3>1. window \in Nat
      BY <1>1, ContinuationAssumption DEF TypeOK
    <3>2. k.kind = "inflight" => k.at = window
      BY <1>4
    <3>3. QED
      BY <1>1, <3>1, <3>2
  <2>3. \A i \in JobKey : runs'[i].pc = "enqueueing" /\ runs'[i].key.kind = "inflight"
                             => runs'[i].key.at <= window'
    BY <1>1, <1>5, <2>2 DEF ContinuationInv, NotAhead
  <2>4. QED
    BY <2>1, <2>3 DEF NotAhead
<1>9. WaitsForWindow'
  <2>1. SUFFICES ASSUME ~validated', NEW i \in JobKey, i.kind = "inflight", i.at = window
                 PROVE  jobs'[i] \in {"absent", "queued"} \/ (runs'[i].pc = "calling" /\ ~live')
    BY <1>1 DEF WaitsForWindow
  <2>2. jobs[i] \in {"absent", "queued"} \/ (runs[i].pc = "calling" /\ ~live)
    BY <1>1, <2>1 DEF ContinuationInv, WaitsForWindow
  <2>3. i # j
    BY <1>1, <1>2, <2>2
  <2>4. QED
    BY <1>1, <1>5, <2>2, <2>3
<1>10. WaitsForDay'
  BY <1>1 DEF ContinuationInv, WaitsForDay
<1>11. GoesOn'
  <2>1. SUFFICES ASSUME ~validated'
                 PROVE  \E i \in JobKey : Going(i)'
    BY DEF GoesOn
  <2>2. jobs[k] \in {"absent", "queued"} \/ runs[k].pc = "calling"
    BY <1>1, <1>4, <2>1 DEF ContinuationInv, WaitsForWindow, WaitsForDay
  <2>3. CASE jobs[k] = "absent"
    BY <1>1, <1>5, <2>3 DEF Going
  <2>4. CASE jobs[k] = "queued"
    BY <1>1, <1>4, <2>4 DEF Going
  <2>5. CASE runs[k].pc = "calling"
    <3>1. k # j
      BY <1>1, <2>5
    <3>2. QED
      BY <1>4, <1>5, <2>5, <3>1 DEF Going
  <2>6. QED
    BY <2>2, <2>3, <2>4, <2>5
<1>12. QED
  BY <1>6, <1>7, <1>8, <1>9, <1>10, <1>11 DEF ContinuationInv

LEMMA EnqueueResumeKeeps ==
    ASSUME ContinuationInv, NEW j \in JobKey, EnqueueResume(j)
    PROVE  ContinuationInv'
<1> DEFINE k == runs[j].key
<1>1. /\ TypeOK /\ runs[j].pc = "enqueueing" /\ k \in JobKey
      /\ jobs' = IF jobs[k] = "absent" THEN [jobs EXCEPT ![k] = "queued"] ELSE jobs
      /\ runs' = [runs EXCEPT ![j] = [pc |-> "leaving", key |-> Initial]]
      /\ UNCHANGED <<live, payer, window, cached, day, exhausted, validated, mishaps>>
  BY DEF ContinuationInv, EnqueueResume, claimVars, TypeOK
<1>2. jobs[j] = "running"
  BY <1>1 DEF ContinuationInv, Busy
<1>3. k.kind = "inflight" => k.at <= window
  BY <1>1 DEF ContinuationInv, NotAhead
<1> HIDE DEF k
<1>4. /\ runs' \in [JobKey -> [pc : Pc, key : JobKey]]
      /\ runs'[j].pc = "leaving"
      /\ \A i \in JobKey : i # j => runs'[i] = runs[i]
  <2>1. [pc |-> "leaving", key |-> Initial] \in [pc : Pc, key : JobKey]
    BY Keys DEF Pc
  <2>2. QED
    BY <1>1, <2>1 DEF TypeOK
<1>5. /\ jobs' \in [JobKey -> {"absent", "queued", "running", "settled"}]
      /\ jobs'[k] # "absent"
      /\ \A i \in JobKey : jobs'[i] = jobs[i] \/ (i = k /\ jobs[i] = "absent" /\ jobs'[i] = "queued")
  BY <1>1 DEF TypeOK
<1>6. TypeOK'
  BY <1>1, <1>4, <1>5 DEF TypeOK
<1>7. Busy'
  <2>1. SUFFICES ASSUME NEW i \in JobKey
                 PROVE  jobs'[i] = "running" <=> runs'[i].pc # "idle"
    BY DEF Busy
  <2>2. jobs'[i] = "running" <=> jobs[i] = "running"
    BY <1>5
  <2>3. QED
    BY <1>2, <1>4, <2>2 DEF ContinuationInv, Busy
<1>8. DayLeft'
  BY <1>1, <1>4 DEF ContinuationInv, DayLeft
<1>9. NotAhead'
  <2>1. \A i \in JobKey : i.kind = "inflight" /\ jobs'[i] # "absent" => i.at <= window'
    BY <1>1, <1>3, <1>5 DEF ContinuationInv, NotAhead
  <2>2. \A i \in JobKey : runs'[i].pc = "enqueueing" /\ runs'[i].key.kind = "inflight"
                             => runs'[i].key.at <= window'
    BY <1>1, <1>4 DEF ContinuationInv, NotAhead
  <2>3. QED
    BY <2>1, <2>2 DEF NotAhead
<1>10. WaitsForWindow'
  <2>1. SUFFICES ASSUME ~validated', NEW i \in JobKey, i.kind = "inflight", i.at = window
                 PROVE  jobs'[i] \in {"absent", "queued"} \/ (runs'[i].pc = "calling" /\ ~live')
    BY <1>1 DEF WaitsForWindow
  <2>2. jobs[i] \in {"absent", "queued"} \/ (runs[i].pc = "calling" /\ ~live)
    BY <1>1, <2>1 DEF ContinuationInv, WaitsForWindow
  <2>3. i # j
    BY <1>1, <1>2, <2>2
  <2>4. QED
    BY <1>1, <1>4, <1>5, <2>2, <2>3
<1>11. WaitsForDay'
  BY <1>1, <1>5 DEF ContinuationInv, WaitsForDay
<1>12. GoesOn'
  <2>1. SUFFICES ASSUME ~validated'
                 PROVE  \E i \in JobKey : Going(i)'
    BY DEF GoesOn
  <2>2. PICK i \in JobKey : Going(i)
    BY <1>1, <2>1 DEF ContinuationInv, GoesOn
  <2>3. CASE jobs[k] = "absent"
    <3>1. jobs'[k] = "queued"
      BY <1>1, <2>3 DEF TypeOK
    <3>2. QED
      BY <1>1, <3>1 DEF Going
  <2>4. CASE jobs[k] # "absent"
    <3>1. jobs' = jobs
      BY <1>1, <2>4
    <3>2. i # j
      BY <1>1, <1>2, <2>2, <2>4 DEF Going, k
    <3>3. Going(i)'
      BY <1>4, <2>2, <3>1, <3>2 DEF Going
    <3>4. QED
      BY <3>3
  <2>5. QED
    BY <2>3, <2>4
<1>13. QED
  BY <1>6, <1>7, <1>8, <1>9, <1>10, <1>11, <1>12 DEF ContinuationInv

LEMMA LeaveKeeps ==
    ASSUME ContinuationInv, NEW j \in JobKey, Leave(j)
    PROVE  ContinuationInv'
<1>1. /\ TypeOK /\ runs[j].pc = "leaving" /\ Goto(j, "idle")
      /\ jobs' = [jobs EXCEPT ![j] = "settled"]
      /\ UNCHANGED <<live, payer, window, cached, day, exhausted, validated, mishaps>>
  BY DEF ContinuationInv, Leave, claimVars
<1>2. jobs[j] = "running"
  BY <1>1 DEF ContinuationInv, Busy
<1>3. /\ runs' \in [JobKey -> [pc : Pc, key : JobKey]] /\ runs'[j].pc = "idle"
      /\ \A i \in JobKey : i # j => runs'[i] = runs[i]
  <2>1. "idle" \in Pc
    BY DEF Pc
  <2>2. QED
    BY <1>1, <2>1, GotoRow
<1>4. /\ jobs' \in [JobKey -> {"absent", "queued", "running", "settled"}]
      /\ jobs'[j] = "settled" /\ \A i \in JobKey : i # j => jobs'[i] = jobs[i]
  BY <1>1 DEF TypeOK
<1>5. TypeOK'
  BY <1>1, <1>3, <1>4 DEF TypeOK
<1>6. Busy' /\ DayLeft'
  BY <1>1, <1>3, <1>4 DEF ContinuationInv, Busy, DayLeft
<1>7. NotAhead' /\ WaitsForWindow' /\ WaitsForDay'
  <2>1. ~(~validated /\ j.kind = "inflight" /\ j.at = window)
    BY <1>1, <1>2 DEF ContinuationInv, WaitsForWindow
  <2>2. ~(j.kind = "resume" /\ j.at > day)
    BY <1>2 DEF ContinuationInv, WaitsForDay
  <2>3. jobs[j] # "absent" /\ runs'[j].pc # "enqueueing" /\ (live' => live)
        /\ (validated => validated')
    BY <1>1, <1>2, <1>3
  <2>4. QED
    BY <1>1, <1>3, <1>4, <2>1, <2>2, <2>3, OneMoves
<1>8. GoesOn'
  <2>1. SUFFICES ASSUME ~validated'
                 PROVE  \E i \in JobKey : Going(i)'
    BY DEF GoesOn
  <2>2. PICK i \in JobKey : Going(i)
    BY <1>1, <2>1 DEF ContinuationInv, GoesOn
  <2>3. i # j
    BY <1>1, <1>2, <2>2 DEF Going
  <2>4. runs[i].key \in JobKey
    BY <1>1 DEF TypeOK
  <2>5. jobs[runs[i].key] = "absent" => jobs'[runs[i].key] = "absent"
    BY <1>2, <1>4, <2>4
  <2>6. Going(i)'
    BY <1>3, <1>4, <2>2, <2>3, <2>5 DEF Going
  <2>7. QED
    BY <2>6
<1>9. QED
  BY <1>5, <1>6, <1>7, <1>8 DEF ContinuationInv

-----------------------------------------------------------------------------
LEMMA ContinuationStep ==
    ASSUME ContinuationInv, Windowed = TRUE, Windows = Nat, [Next]_vars
    PROVE  ContinuationInv'
<1>1. CASE UNCHANGED vars
  <2>1. UNCHANGED <<jobs, runs, live, payer, window, cached, day, exhausted, validated, mishaps>>
    BY <1>1 DEF vars, claimVars
  <2>2. QED
    BY <2>1 DEF ContinuationInv, TypeOK, Busy, DayLeft, NotAhead, WaitsForWindow, WaitsForDay,
          GoesOn, Going
<1>2. CASE OthersClaim \/ OthersComplete \/ Lapse \/ NextDay
  BY <1>2, SurroundingsKeep
<1>3. ASSUME NEW j \in JobKey, Work(j) \/ Retry(j)
      PROVE  ContinuationInv'
  BY <1>3, BeginKeeps, RetryKeeps, CallKeeps, PayKeeps, ThrowLostKeeps, ScheduleKeeps,
     EnqueueResumeKeeps, LeaveKeeps DEF Work
<1>4. QED
  BY <1>1, <1>2, <1>3 DEF Next

\* With a key for each window, no refused call, no lapsed claim, no failed attempt and
\* no exhausted budget ends the research of a candidate: until it has its evidence,
\* one of its jobs waits or is at work, however many windows there are.
THEOREM ProbeGoesOn ==
    ASSUME Windowed = TRUE, Windows = Nat
    PROVE  Spec => []NotLost
<1>1. Init => ContinuationInv
  BY ContinuationInit
<1>2. ContinuationInv /\ [Next]_vars => ContinuationInv'
  BY ContinuationStep
<1>3. ContinuationInv => NotLost
  <2>1. SUFFICES ASSUME ContinuationInv, ~validated
                 PROVE  \E j \in JobKey : jobs[j] \in {"queued", "running"}
    BY DEF NotLost
  <2>2. PICK j \in JobKey : Going(j)
    BY <2>1 DEF ContinuationInv, GoesOn
  <2>3. jobs[j] \in {"queued", "running"}
    BY <2>1, <2>2 DEF ContinuationInv, Busy, Going
  <2>4. QED
    BY <2>3
<1>4. QED
  BY <1>1, <1>2, <1>3, PTL DEF Spec
=============================================================================
