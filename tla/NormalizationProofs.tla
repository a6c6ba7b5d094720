--------------------------- MODULE NormalizationProofs ---------------------------
(***************************************************************************)
(* What holds of the normalization of a candidate for any providers, any   *)
(* limits and any number of attempts and generations.                      *)
(***************************************************************************)
EXTENDS Normalization, FiniteSetTheorems, TLAPS

Started(L) == {L[n].provider : n \in DOMAIN L}

\* A ledger: only the last start may be without an outcome; a provider is started
\* again only at once, after it was not consumed, and one time; and no more
\* providers are started than one analysis may consume.
Orderly(L) ==
    /\ \A m \in DOMAIN L : m < Len(L) => L[m].outcome # "none"
    /\ \A m, n \in DOMAIN L :
         m < n /\ L[m].provider = L[n].provider => L[m].outcome = "notConsumed"
    /\ \A m \in DOMAIN L : m < Len(L) /\ L[m].outcome = "notConsumed" =>
         /\ L[m + 1].provider = L[m].provider
         /\ L[m + 1].outcome = "notConsumed" => m + 1 = Len(L)
    /\ Cardinality(Started(L)) <= ProviderLimit

\* A run that has a start on record and no outcome of it there yet.
Working(r) == r.pc \in {"executing", "succeeding", "failing"}

\* What a run knows of its start is so.
RunInv(g, e) ==
    LET r == runs[g][e] IN
    /\ r.pc = "beginning" \/ Working(r) => r.provider \in Provider
    /\ r.pc = "finalizing" \/ Working(r) => r.attempt \in DOMAIN ledger[g]
    /\ r.pc = "executing" => /\ <<g, r.attempt>> \notin executed
                             /\ ledger[g][r.attempt].outcome \in {"none", "unknown"}
    /\ r.pc = "succeeding" => <<g, r.attempt>> \in executed
    /\ r.pc = "failing" => r.outcome \in {"recoverable", "fatal", "cancelled", "notConsumed"}
    /\ r.pc = "failing" /\ r.outcome = "notConsumed" => <<g, r.attempt>> \notin executed

\* Each start has one run.
OwnStart(g) ==
    \A d, e \in Epoch :
      Working(runs[g][d]) /\ Working(runs[g][e]) /\ runs[g][d].attempt = runs[g][e].attempt
      => d = e

ConsumedInv(g) ==
    \A n \in Nat : <<g, n>> \in executed =>
        n \in DOMAIN ledger[g] /\ ledger[g][n].outcome # "notConsumed"

\* The ledger of a generation, and what its runs know of it.
LedgerInv(g) == /\ Orderly(ledger[g]) /\ OwnStart(g) /\ ConsumedInv(g)
                /\ \A e \in Epoch : RunInv(g, e)

\* The answer n is one that a provider gave.
Answer(g, n) == /\ n \in DOMAIN ledger[g]
                /\ ledger[g][n].outcome = "success"
                /\ <<g, n>> \in executed

\* The one answer on record is pending or has won; there is none in a generation
\* that is over, and none when the candidate waits.
AnswerInv(g) ==
    LET a == analyses[g] IN
    /\ a.pending # 0 => a.status = "pending" /\ Answer(g, a.pending)
    /\ a.winner # 0 => Answer(g, a.winner)
    /\ a.winner # 0 <=> a.status = "completed"
    /\ \A n \in DOMAIN ledger[g] : ledger[g][n].outcome = "success" => n \in {a.pending, a.winner}
    /\ g # candidate.generation \/ candidate.state = "Waiting" => a.pending = 0 /\ a.winner = 0

OwnerInv(g) ==
    /\ jobs[g].status \in {"queued", "running"} => g = candidate.generation
    /\ decision[g] # 0 => /\ decision[g] = analyses[g].winner
                          /\ candidate = [state |-> "Decided", generation |-> g]

\* The run that holds the job does not overlook an answer, nor work on a
\* candidate that waits.
HolderInv(g, e) ==
    LET r == runs[g][e] IN
    JobHeld(g, e) =>
      /\ r.pc \in {"routing", "beginning", "executing", "succeeding", "deferring"} =>
           analyses[g].pending = 0
      /\ r.pc = "failing" => analyses[g].pending = 0 \/ ledger[g][r.attempt].outcome # "none"
      /\ candidate.state = "Waiting" => r.pc \in {"idle", "loading", "returning", "throwing"}

NormalizationInv ==
    /\ TypeOK
    /\ \A g \in Generation : LedgerInv(g) /\ AnswerInv(g) /\ OwnerInv(g)
    /\ \A g \in Generation, e \in Epoch : HolderInv(g, e)

-----------------------------------------------------------------------------
(***************************************************************************)
(* Ledgers                                                                 *)
(***************************************************************************)

\* Providers are finitely many, and so are those of any ledger.
LEMMA StartedFinite ==
    ASSUME NEW L \in Seq(Start)
    PROVE  /\ IsFiniteSet(Started(L)) /\ Cardinality(Started(L)) \in Nat
           /\ IsFiniteSet(Attempted(L)) /\ Cardinality(Attempted(L)) \in Nat
           /\ Attempted(L) \subseteq Started(L) /\ Started(L) \subseteq Provider
<1>1. Attempted(L) \subseteq Started(L) /\ Started(L) \subseteq Provider
  <2>1. \A n \in DOMAIN L : L[n] \in Start
    OBVIOUS
  <2>2. \A n \in DOMAIN L : L[n].provider \in Provider
    BY <2>1 DEF Start
  <2>3. QED
    BY <2>2 DEF Attempted, Started
<1>2. IsFiniteSet(Started(L)) /\ IsFiniteSet(Attempted(L))
  BY <1>1, FS_Subset, NormalizationAssumption
<1>3. QED
  BY <1>1, <1>2, FS_CardinalityType

LEMMA OrderlyEmpty == Orderly(<<>>)
<1>1. Started(<<>>) = {}
  BY DEF Started
<1>2. Cardinality(Started(<<>>)) = 0
  BY <1>1, FS_EmptySet
<1>3. DOMAIN <<>> = {}
  OBVIOUS
<1>4. Cardinality(Started(<<>>)) <= ProviderLimit
  BY <1>2, NormalizationAssumption
<1>5. QED
  BY <1>3, <1>4, Zenon DEF Orderly

\* Outcomes are put where there were none, and the ledger stays in order.
LEMMA OrderlyRecorded ==
    ASSUME NEW L \in Seq(Start), Orderly(L), NEW K \in Seq(Start), Len(K) = Len(L),
           \A m \in DOMAIN L : /\ K[m].provider = L[m].provider
                               /\ L[m].outcome # "none" => K[m].outcome = L[m].outcome
    PROVE  Orderly(K)
<1>1. DOMAIN K = DOMAIN L /\ DOMAIN L = 1..Len(L) /\ Len(L) \in Nat
  OBVIOUS
<1>2. Started(K) = Started(L)
  BY <1>1 DEF Started
<1>3. \A m \in DOMAIN L : m < Len(L) => K[m].outcome = L[m].outcome /\ L[m].outcome # "none"
  BY DEF Orderly
<1>4. \A m \in DOMAIN K : m < Len(K) => K[m].outcome # "none"
  BY <1>1, <1>3
<1>5. \A m, n \in DOMAIN K :
        m < n /\ K[m].provider = K[n].provider => K[m].outcome = "notConsumed"
  BY <1>1, <1>3 DEF Orderly
<1>6. ASSUME NEW m \in DOMAIN K, m < Len(K), K[m].outcome = "notConsumed"
      PROVE  /\ K[m + 1].provider = K[m].provider
             /\ K[m + 1].outcome = "notConsumed" => m + 1 = Len(K)
  <2>1. m + 1 \in DOMAIN L /\ m \in DOMAIN L /\ m \in Nat
    BY <1>1, <1>6
  <2>2. /\ L[m + 1].provider = L[m].provider
        /\ L[m + 1].outcome = "notConsumed" => m + 1 = Len(L)
    BY <1>3, <1>6, <2>1 DEF Orderly
  <2>3. m + 1 < Len(L) => K[m + 1].outcome = L[m + 1].outcome
    BY <1>3, <2>1
  <2>4. QED
    BY <1>1, <1>6, <2>1, <2>2, <2>3
<1>7. QED
  BY <1>2, <1>4, <1>5, <1>6 DEF Orderly

\* When the last start of an orderly ledger was consumed, so were all providers.
LEMMA AllAttempted ==
    ASSUME NEW L \in Seq(Start), Orderly(L), L # <<>>, L[Len(L)].outcome # "notConsumed"
    PROVE  Attempted(L) = Started(L)
<1>1. DOMAIN L = 1..Len(L) /\ Len(L) \in Nat /\ Len(L) # 0
  OBVIOUS
<1>2. ASSUME NEW m \in DOMAIN L
      PROVE  L[m].provider \in Attempted(L)
  <2>1. CASE L[m].outcome # "notConsumed"
    BY <2>1 DEF Attempted
  <2>2. CASE L[m].outcome = "notConsumed"
    <3>1. m < Len(L) /\ m + 1 \in DOMAIN L
      BY <1>1, <2>2
    <3>2. /\ L[m + 1].provider = L[m].provider
          /\ L[m + 1].outcome = "notConsumed" => m + 1 = Len(L)
      BY <2>2, <3>1 DEF Orderly
    <3>3. L[m + 1].outcome # "notConsumed"
      BY <3>2
    <3>4. QED
      BY <3>1, <3>2, <3>3 DEF Attempted
  <2>3. QED
    BY <2>1, <2>2
<1>3. QED
  BY <1>2, StartedFinite DEF Started

\* A start that the database accepts leaves the ledger in order.
LEMMA OrderlyBegun ==
    ASSUME NEW L \in Seq(Start), Orderly(L), NEW n, NEW p \in Provider, Startable(L, n, p)
    PROVE  Orderly(Append(L, [provider |-> p, outcome |-> "none"]))
<1> DEFINE start == [provider |-> p, outcome |-> "none"]
           K == Append(L, start)
<1>1. /\ DOMAIN L = 1..Len(L) /\ Len(L) \in Nat /\ Len(K) = Len(L) + 1
      /\ DOMAIN K = 1..Len(K) /\ K[Len(L) + 1] = start
      /\ \A m \in DOMAIN L : m \in DOMAIN K /\ K[m] = L[m]
  OBVIOUS
<1>2. \A m \in DOMAIN L : L[m].outcome # "none"
  BY DEF Startable
<1>3. \A m \in DOMAIN L : L[m].provider = p => L[m].outcome = "notConsumed"
  BY DEF Startable, Attempted
<1>4. L # <<>> => FallsBack(L, Len(L), p)
  BY DEF Startable, FallsBack
<1> HIDE DEF K
<1>5. \A m \in DOMAIN K : m < Len(K) => K[m].outcome # "none"
  BY <1>1, <1>2
<1>6. ASSUME NEW m \in DOMAIN K, NEW k \in DOMAIN K, m < k, K[m].provider = K[k].provider
      PROVE  K[m].outcome = "notConsumed"
  <2>1. m \in DOMAIN L /\ K[m] = L[m]
    BY <1>1, <1>6
  <2>2. CASE k \in DOMAIN L
    BY <1>1, <1>6, <2>1, <2>2 DEF Orderly
  <2>3. CASE k = Len(L) + 1
    BY <1>1, <1>3, <1>6, <2>1, <2>3
  <2>4. QED
    BY <1>1, <2>2, <2>3
<1>7. ASSUME NEW m \in DOMAIN K, m < Len(K), K[m].outcome = "notConsumed"
      PROVE  /\ K[m + 1].provider = K[m].provider
             /\ K[m + 1].outcome = "notConsumed" => m + 1 = Len(K)
  <2>1. m \in DOMAIN L /\ K[m] = L[m] /\ L[m].outcome = "notConsumed"
    BY <1>1, <1>7
  <2>2. CASE m = Len(L)
    <3>1. L[m].provider = p
      BY <1>4, <2>1, <2>2 DEF FallsBack, Recoverable
    <3>2. QED
      BY <1>1, <2>1, <2>2, <3>1
  <2>3. CASE m < Len(L)
    <3>1. /\ m + 1 \in DOMAIN L /\ K[m + 1] = L[m + 1]
          /\ L[m + 1].provider = L[m].provider
          /\ L[m + 1].outcome = "notConsumed" => m + 1 = Len(L)
      BY <1>1, <2>1, <2>3 DEF Orderly
    \* Neither is a provider started a third time.
    <3>2. L[m + 1].outcome # "notConsumed"
      <4>1. SUFFICES ASSUME m + 1 = Len(L), L[m + 1].outcome = "notConsumed"
                     PROVE  FALSE
        BY <3>1
      <4>2. /\ L[Len(L)].provider = p
            /\ Cardinality({i \in DOMAIN L : L[i].provider = p}) < 2
        BY <1>4, <2>1, <4>1 DEF FallsBack, Recoverable
      <4> DEFINE S == {i \in DOMAIN L : L[i].provider = p}
      <4>3. m \in S /\ m + 1 \in S
        BY <2>1, <3>1, <4>1, <4>2
      <4>4. IsFiniteSet(S)
        <5>1. IsFiniteSet(1..Len(L)) /\ S \in SUBSET (1..Len(L))
          BY <1>1, FS_Interval
        <5>2. QED
          BY <5>1, FS_Subset
      <4>5. {m} \cup {m + 1} \in SUBSET S
        BY <4>3
      <4>6. Cardinality({m} \cup {m + 1}) = 2
        <5>1. m \in Nat
          BY <1>1, <2>1
        <5>2. m + 1 \notin {m}
          BY <5>1
        <5>3. IsFiniteSet({m}) /\ Cardinality({m}) = 1
          BY FS_Singleton
        <5>4. Cardinality({m} \cup {m + 1}) = Cardinality({m}) + 1
          BY <5>2, <5>3, FS_AddElement, Zenon
        <5>5. 1 + 1 = 2
          OBVIOUS
        <5>6. QED
          BY <5>3, <5>4, <5>5, Zenon
      <4>7. 2 <= Cardinality(S)
        BY <4>4, <4>5, <4>6, FS_Subset
      <4>8. Cardinality(S) \in Nat
        BY <4>4, FS_CardinalityType
      <4>9. QED
        BY <4>2, <4>7, <4>8
    <3>3. QED
      BY <2>1, <3>1, <3>2
  <2>4. QED
    BY <1>1, <2>1, <2>2, <2>3
<1>8. Cardinality(Started(K)) <= ProviderLimit
  <2>1. Started(K) = Started(L) \cup {p}
    <3>1. DOMAIN K = DOMAIN L \cup {Len(L) + 1}
      BY <1>1
    <3>2. QED
      BY <1>1, <3>1 DEF Started
  <2>2. Cardinality(Started(K)) = IF p \in Started(L) THEN Cardinality(Started(L))
                                  ELSE Cardinality(Started(L)) + 1
    BY <2>1, StartedFinite, FS_AddElement
  <2>3. CASE p \in Started(L)
    BY <2>2, <2>3 DEF Orderly
  <2>4. CASE p \notin Started(L)
    <3>1. Cardinality(Attempted(L)) < ProviderLimit
      BY <2>4 DEF Startable, Started
    <3>2. Started(L) = Attempted(L)
      <4>1. CASE L = <<>>
        BY <4>1 DEF Started, Attempted
      <4>2. CASE L # <<>>
        <5>1. L[Len(L)].provider # p
          BY <1>1, <2>4, <4>2 DEF Started
        <5>2. L[Len(L)].outcome # "notConsumed"
          BY <1>4, <4>2, <5>1 DEF FallsBack, Recoverable
        <5>3. QED
          BY <4>2, <5>2, AllAttempted
      <4>3. QED
        BY <4>1, <4>2
    <3>3. QED
      BY <2>2, <2>4, <3>1, <3>2, StartedFinite, NormalizationAssumption
  <2>5. QED
    BY <2>3, <2>4
<1>9. QED
  BY <1>5, <1>6, <1>7, <1>8 DEF Orderly, K

-----------------------------------------------------------------------------
(***************************************************************************)
(* What steps keep                                                         *)
(***************************************************************************)

\* All runs but one rest.
Elsewhere(g, e) == \A h \in Generation, d \in Epoch :
                     h # g \/ d # e => runs'[h][d] = runs[h][d]

\* A run that has a start on record had the same before.
NoNewStart(g, e) == Working(runs'[g][e]) => /\ Working(runs[g][e])
                                            /\ runs'[g][e].attempt = runs[g][e].attempt

LEMMA Typed ==
    ASSUME TypeOK, NEW g \in Generation, NEW e \in Epoch
    PROVE  /\ runs[g][e] \in Run
           /\ ledger[g] \in Seq(Start) /\ DOMAIN ledger[g] = 1..Len(ledger[g])
           /\ Len(ledger[g]) \in Nat
           /\ \A n \in DOMAIN ledger[g] : ledger[g][n] \in Start
           /\ analyses[g] \in [status : {"absent", "pending", "completed"},
                               epoch : Nat, live : BOOLEAN, pending : Attempt, winner : Attempt]
           /\ jobs[g] \in [status : {"absent", "queued", "running", "completed", "failed"},
                           epoch : {0} \cup Epoch, live : BOOLEAN]
<1>1. runs[g][e] \in Run /\ ledger[g] \in Seq(Start)
  BY DEF TypeOK
<1>2. \A n \in DOMAIN ledger[g] : ledger[g][n] \in Start
  BY <1>1
<1>3. DOMAIN ledger[g] = 1..Len(ledger[g]) /\ Len(ledger[g]) \in Nat
  BY <1>1
<1>4. QED
  BY <1>1, <1>2, <1>3 DEF TypeOK

LEMMA RunUpdated ==
    ASSUME TypeOK, NEW g \in Generation, NEW e \in Epoch, NEW new \in Run, Update(g, e, new)
    PROVE  /\ runs' \in [Generation -> [Epoch -> Run]]
           /\ runs'[g][e] = new
           /\ Elsewhere(g, e)
BY DEF TypeOK, Update, Elsewhere

LEMMA ThrownRun ==
    ASSUME NEW r \in Run
    PROVE  /\ Thrown(r) \in Run /\ Thrown(r).attempt = r.attempt
           /\ Thrown(r).provider = r.provider
           /\ IF r.pc = "succeeding" THEN Thrown(r).pc = "failing" /\ Thrown(r).outcome = "fatal"
              ELSE Thrown(r).pc = "throwing"
<1>1. CASE r.pc = "succeeding"
  BY <1>1 DEF Thrown, Run, Pc, Outcome
<1>2. CASE r.pc # "succeeding"
  BY <1>2 DEF Thrown, Run, Pc
<1>3. QED
  BY <1>1, <1>2

LEMMA NoRunTyped == NoRun \in Run /\ NoRun.pc = "idle"
BY DEF NoRun, Run, Pc, Outcome, Attempt

\* A run moves, and neither the ledgers nor what is executed change.
LEMMA LedgerKept ==
    ASSUME \A h \in Generation : LedgerInv(h), NEW g \in Generation, NEW e \in Epoch,
           Elsewhere(g, e), NoNewStart(g, e), RunInv(g, e)', UNCHANGED <<ledger, executed>>
    PROVE  \A h \in Generation : LedgerInv(h)'
<1>1. ASSUME NEW h \in Generation
      PROVE  Orderly(ledger'[h]) /\ ConsumedInv(h)'
  <2>1. ledger'[h] = ledger[h] /\ Orderly(ledger[h]) /\ ConsumedInv(h)
    BY DEF LedgerInv
  <2>2. Orderly(ledger'[h])
    BY <2>1
  <2>3. QED
    BY <2>1, <2>2 DEF ConsumedInv
<1>2. ASSUME NEW h \in Generation, NEW d \in Epoch
      PROVE  RunInv(h, d)'
  <2>1. CASE h = g /\ d = e
    BY <2>1
  <2>2. CASE h # g \/ d # e
    BY <2>2 DEF LedgerInv, RunInv, Elsewhere, Working
  <2>3. QED
    BY <2>1, <2>2
<1>3. ASSUME NEW h \in Generation, NEW c \in Epoch, NEW d \in Epoch,
             Working(runs[h][c])', Working(runs[h][d])', runs'[h][c].attempt = runs'[h][d].attempt
      PROVE  c = d
  <2>1. ASSUME NEW b \in Epoch, Working(runs[h][b])'
        PROVE  Working(runs[h][b]) /\ runs'[h][b].attempt = runs[h][b].attempt
    BY <2>1 DEF Elsewhere, NoNewStart, Working
  <2>2. QED
    BY <1>3, <2>1 DEF LedgerInv, OwnStart
<1>4. QED
  BY <1>1, <1>2, <1>3 DEF LedgerInv, OwnStart

\* A run puts outcomes where there were none.
LEMMA LedgerRecorded ==
    ASSUME TypeOK, \A h \in Generation : LedgerInv(h), NEW g \in Generation, NEW e \in Epoch,
           Elsewhere(g, e), NoNewStart(g, e), RunInv(g, e)', UNCHANGED executed,
           NEW L \in Seq(Start), ledger' = [ledger EXCEPT ![g] = L], Len(L) = Len(ledger[g]),
           \A d \in Epoch \ {e} : runs[g][d].pc = "executing" =>
             L[runs[g][d].attempt].outcome \in {"none", "unknown"},
           \A m \in DOMAIN ledger[g] :
             /\ L[m].provider = ledger[g][m].provider
             /\ ledger[g][m].outcome # "none" => L[m].outcome = ledger[g][m].outcome
             /\ ledger[g][m].outcome = "none" /\ L[m].outcome = "notConsumed" =>
                  <<g, m>> \notin executed
    PROVE  \A h \in Generation : LedgerInv(h)'
<1>0. ledger \in [Generation -> Seq(Start)] /\ ledger[g] \in Seq(Start)
  BY DEF TypeOK
<1>1. /\ ledger'[g] = L /\ DOMAIN L = DOMAIN ledger[g]
      /\ \A h \in Generation \ {g} : ledger'[h] = ledger[h]
  BY <1>0
<1>2. ASSUME NEW h \in Generation
      PROVE  Orderly(ledger'[h])
  <2>1. CASE h = g
    <3>1. Orderly(ledger[g])
      BY DEF LedgerInv
    <3>2. Orderly(L)
      BY <1>0, <3>1, OrderlyRecorded
    <3>3. QED
      BY <1>1, <2>1, <3>2
  <2>2. CASE h # g
    BY <1>1, <2>2 DEF LedgerInv
  <2>3. QED
    BY <2>1, <2>2
<1>3. ASSUME NEW h \in Generation
      PROVE  ConsumedInv(h)'
  <2>1. CASE h = g
    <3>1. ASSUME NEW n \in Nat, <<g, n>> \in executed
          PROVE  n \in DOMAIN L /\ L[n].outcome # "notConsumed"
      <4>1. n \in DOMAIN ledger[g] /\ ledger[g][n].outcome # "notConsumed"
        BY <3>1 DEF LedgerInv, ConsumedInv
      <4>2. QED
        BY <1>1, <3>1, <4>1
    <3>2. QED
      BY <1>1, <2>1, <3>1 DEF ConsumedInv
  <2>2. CASE h # g
    BY <1>1, <2>2 DEF LedgerInv, ConsumedInv
  <2>3. QED
    BY <2>1, <2>2
<1>4. ASSUME NEW h \in Generation, NEW d \in Epoch
      PROVE  RunInv(h, d)'
  <2>1. CASE h = g /\ d = e
    BY <2>1
  <2>2. CASE h = g /\ d # e
    <3>1. RunInv(g, d) /\ runs'[g][d] = runs[g][d] /\ ledger'[g] = L /\ executed' = executed
      BY <1>1, <2>2 DEF LedgerInv, Elsewhere
    <3>2. runs[g][d].pc = "executing" => L[runs[g][d].attempt].outcome \in {"none", "unknown"}
      BY <2>2
    <3>3. QED
      BY <1>1, <2>2, <3>1, <3>2 DEF RunInv, Working
  <2>3. CASE h # g
    BY <1>1, <2>3 DEF LedgerInv, RunInv, Elsewhere, Working
  <2>4. QED
    BY <2>1, <2>2, <2>3
<1>5. ASSUME NEW h \in Generation, NEW c \in Epoch, NEW d \in Epoch,
             Working(runs[h][c])', Working(runs[h][d])', runs'[h][c].attempt = runs'[h][d].attempt
      PROVE  c = d
  <2>1. ASSUME NEW b \in Epoch, Working(runs[h][b])'
        PROVE  Working(runs[h][b]) /\ runs'[h][b].attempt = runs[h][b].attempt
    BY <2>1 DEF Elsewhere, NoNewStart, Working
  <2>2. QED
    BY <1>5, <2>1 DEF LedgerInv, OwnStart
<1>6. QED
  BY <1>2, <1>3, <1>4, <1>5 DEF LedgerInv, OwnStart

\* The answers stay, and there is no other.
LEMMA AnswersKept ==
    ASSUME \A h \in Generation : AnswerInv(h), UNCHANGED candidate,
           executed \subseteq executed',
           \A h \in Generation :
             /\ \A n \in DOMAIN ledger[h] : n \in DOMAIN ledger'[h]
             /\ \A n \in DOMAIN ledger[h] :
                  ledger[h][n].outcome = "success" => ledger'[h][n].outcome = "success"
             /\ \A n \in DOMAIN ledger'[h] :
                  ledger'[h][n].outcome = "success" =>
                    n \in DOMAIN ledger[h] /\ ledger[h][n].outcome = "success",
           \A h \in Generation :
             /\ analyses'[h].pending = analyses[h].pending
             /\ analyses'[h].winner = analyses[h].winner
             /\ \/ analyses'[h].status = analyses[h].status
                \/ analyses[h].status # "completed" /\ analyses'[h].status = "pending"
    PROVE  \A h \in Generation : AnswerInv(h)'
<1>1. ASSUME NEW h \in Generation, NEW n, Answer(h, n)
      PROVE  Answer(h, n)'
  BY <1>1 DEF Answer
<1>2. QED
  BY <1>1 DEF AnswerInv

\* Nobody takes a job, and nothing becomes pending.
LEMMA HoldersKept ==
    ASSUME \A h \in Generation, d \in Epoch : HolderInv(h, d),
           \A h \in Generation, d \in Epoch : RunInv(h, d),
           NEW g \in Generation, NEW e \in Epoch, Elsewhere(g, e), HolderInv(g, e)',
           \A h \in Generation, d \in Epoch : JobHeld(h, d)' => JobHeld(h, d),
           candidate'.state = "Waiting" => candidate.state = "Waiting",
           \A h \in Generation : analyses'[h].pending \in {analyses[h].pending, 0},
           \A h \in Generation : \A n \in DOMAIN ledger[h] :
             ledger[h][n].outcome # "none" => ledger'[h][n].outcome # "none"
    PROVE  \A h \in Generation, d \in Epoch : HolderInv(h, d)'
<1>1. ASSUME NEW h \in Generation, NEW d \in Epoch, h # g \/ d # e, JobHeld(h, d)'
      PROVE  HolderInv(h, d)'
  <2>1. /\ runs'[h][d] = runs[h][d] /\ JobHeld(h, d) /\ HolderInv(h, d) /\ RunInv(h, d)
        /\ analyses'[h].pending \in {analyses[h].pending, 0}
    BY <1>1 DEF Elsewhere
  <2>2. QED
    BY <2>1 DEF HolderInv, RunInv, Working
<1>2. ASSUME NEW h \in Generation, NEW d \in Epoch, h # g \/ d # e
      PROVE  HolderInv(h, d)'
  BY <1>1, <1>2 DEF HolderInv
<1>3. QED
  BY <1>2

\* A run moves, and nothing else.
LEMMA OnlyRun ==
    ASSUME NormalizationInv, NEW g \in Generation, NEW e \in Epoch,
           NEW new \in Run, Update(g, e, new),
           UNCHANGED <<candidate, decision, jobs, analyses, ledger, executed>>,
           NoNewStart(g, e), RunInv(g, e)', HolderInv(g, e)'
    PROVE  NormalizationInv'
<1>1. Elsewhere(g, e) /\ TypeOK'
  BY RunUpdated DEF NormalizationInv, TypeOK
<1>2. \A h \in Generation : LedgerInv(h)'
  BY <1>1, LedgerKept DEF NormalizationInv
<1>3. \A h \in Generation : AnswerInv(h)' /\ OwnerInv(h)'
  BY DEF NormalizationInv, AnswerInv, Answer, OwnerInv
<1>4. \A h \in Generation, d \in Epoch : HolderInv(h, d)'
  <2>1. \A h \in Generation, d \in Epoch : JobHeld(h, d)' => JobHeld(h, d)
    BY DEF JobHeld
  <2>2. QED
    BY <1>1, <2>1, HoldersKept DEF NormalizationInv, LedgerInv
<1>5. QED
  BY <1>1, <1>2, <1>3, <1>4 DEF NormalizationInv

JobRow == [status : {"absent", "queued", "running", "completed", "failed"},
           epoch : {0} \cup Epoch, live : BOOLEAN]

\* A job changes hands, to nobody who is at work on it.
LEMMA JobMoves ==
    ASSUME NormalizationInv, NEW g \in Generation, NEW e \in Epoch, NEW job \in JobRow,
           NEW new \in Run, Update(g, e, new),
           jobs' = [jobs EXCEPT ![g] = job],
           job.status \in {"queued", "running"} => g = candidate.generation,
           \A d \in Epoch : JobHeld(g, d)' => d = e /\ new.pc = "loading",
           ~Working(new), new.pc \notin {"beginning", "finalizing"},
           UNCHANGED <<candidate, decision, analyses, ledger, executed>>
    PROVE  NormalizationInv'
<1>1. /\ runs' \in [Generation -> [Epoch -> Run]]
      /\ runs'[g][e] = new /\ Elsewhere(g, e)
  BY RunUpdated DEF NormalizationInv
<1>2. jobs \in [Generation -> JobRow]
  BY DEF NormalizationInv, TypeOK, JobRow
<1>3. /\ jobs' \in [Generation -> JobRow] /\ jobs'[g] = job
      /\ \A h \in Generation \ {g} : jobs'[h] = jobs[h]
  BY <1>2
<1>4. TypeOK'
  BY <1>1, <1>3 DEF NormalizationInv, TypeOK, JobRow
<1>5. NoNewStart(g, e) /\ RunInv(g, e)'
  BY <1>1 DEF NoNewStart, RunInv, Working
<1>6. \A h \in Generation : LedgerInv(h)'
  BY <1>1, <1>5, LedgerKept DEF NormalizationInv
<1>7. \A h \in Generation : AnswerInv(h)' /\ OwnerInv(h)'
  BY <1>3 DEF NormalizationInv, AnswerInv, Answer, OwnerInv
<1>8. ASSUME NEW h \in Generation, NEW d \in Epoch, JobHeld(h, d)'
      PROVE  HolderInv(h, d)'
  <2>1. CASE h = g
    BY <1>1, <1>8, <2>1 DEF HolderInv
  <2>2. CASE h # g
    <3>1. JobHeld(h, d) /\ runs'[h][d] = runs[h][d]
      BY <1>1, <1>3, <1>8, <2>2 DEF JobHeld, Elsewhere
    <3>2. QED
      BY <3>1 DEF NormalizationInv, HolderInv
  <2>3. QED
    BY <2>1, <2>2
<1>9. \A h \in Generation, d \in Epoch : HolderInv(h, d)'
  BY <1>8 DEF HolderInv
<1>10. QED
  BY <1>4, <1>6, <1>7, <1>9 DEF NormalizationInv

\* A lease ends or a job is queued or failed: nobody holds it then.
LEMMA JobReleased ==
    ASSUME NormalizationInv, NEW g \in Generation, NEW job \in JobRow,
           jobs' = [jobs EXCEPT ![g] = job],
           job.status \in {"queued", "running"} => g = candidate.generation,
           job.status # "running" \/ ~job.live,
           UNCHANGED <<candidate, decision, analyses, ledger, runs, executed>>
    PROVE  NormalizationInv'
<1>1. jobs \in [Generation -> JobRow]
  BY DEF NormalizationInv, TypeOK, JobRow
<1>2. /\ jobs' \in [Generation -> JobRow] /\ jobs'[g] = job
      /\ \A h \in Generation \ {g} : jobs'[h] = jobs[h]
  BY <1>1
<1>3. TypeOK'
  BY <1>2 DEF NormalizationInv, TypeOK, JobRow
<1>4. 1 \in Epoch
  BY NormalizationAssumption DEF Epoch
<1>5. /\ Elsewhere(g, 1) /\ NoNewStart(g, 1) /\ RunInv(g, 1)'
  BY <1>4 DEF Elsewhere, NoNewStart, NormalizationInv, LedgerInv, RunInv, Working
<1>6. \A h \in Generation : LedgerInv(h)'
  BY <1>4, <1>5, LedgerKept DEF NormalizationInv
<1>7. \A h \in Generation : AnswerInv(h)' /\ OwnerInv(h)'
  BY <1>2 DEF NormalizationInv, AnswerInv, Answer, OwnerInv
<1>8. ASSUME NEW h \in Generation, NEW d \in Epoch, JobHeld(h, d)'
      PROVE  JobHeld(h, d)
  BY <1>2, <1>8 DEF JobHeld
<1>9. \A h \in Generation, d \in Epoch : HolderInv(h, d)'
  BY <1>8 DEF NormalizationInv, HolderInv
<1>10. QED
  BY <1>3, <1>6, <1>7, <1>9 DEF NormalizationInv

-----------------------------------------------------------------------------
(***************************************************************************)
(* The queue                                                               *)
(***************************************************************************)

LEMMA NormalizationStarts ==
    ASSUME Init
    PROVE  NormalizationInv
<1>1. /\ candidate = [state |-> "AI Screening", generation |-> 0] /\ executed = {}
      /\ \A g \in Generation :
           /\ analyses[g].pending = 0 /\ analyses[g].winner = 0 /\ analyses[g].status = "absent"
           /\ jobs[g].status = "absent" /\ decision[g] = 0
           /\ ledger[g] = <<>>
           /\ \A e \in Epoch : runs[g][e] = NoRun
  BY DEF Init
<1>2. TypeOK
  <2>1. 0 \in Generation /\ 0 \in Attempt
    BY NormalizationAssumption DEF Generation, Attempt
  <2>2. ledger \in [Generation -> Seq(Start)]
    <3>1. <<>> \in Seq(Start)
      OBVIOUS
    <3>2. QED
      BY <3>1 DEF Init
  <2>3. runs \in [Generation -> [Epoch -> Run]]
    BY NoRunTyped DEF Init
  <2>4. decision \in [Generation -> Attempt]
    BY <2>1 DEF Init
  <2>5. jobs \in [Generation -> JobRow]
    BY DEF Init, JobRow
  <2>6. analyses \in [Generation ->
                       [status : {"absent", "pending", "completed"},
                        epoch : Nat, live : BOOLEAN, pending : Attempt, winner : Attempt]]
    BY DEF Init, Attempt
  <2>7. QED
    BY <1>1, <2>1, <2>2, <2>3, <2>4, <2>5, <2>6 DEF TypeOK, JobRow
<1>3. ASSUME NEW g \in Generation
      PROVE  LedgerInv(g)
  <2>1. Orderly(ledger[g])
    BY <1>1, OrderlyEmpty
  <2>2. \A e \in Epoch : runs[g][e].pc = "idle"
    BY <1>1, NoRunTyped
  <2>3. QED
    BY <1>1, <2>1, <2>2 DEF LedgerInv, OwnStart, ConsumedInv, RunInv, Working
<1>4. ASSUME NEW g \in Generation
      PROVE  AnswerInv(g) /\ OwnerInv(g)
  <2>1. DOMAIN ledger[g] = {}
    <3>1. DOMAIN <<>> = {}
      OBVIOUS
    <3>2. ledger[g] = <<>>
      BY <1>1
    <3>3. QED
      BY <3>1, <3>2, Zenon
  <2>2. OwnerInv(g)
    BY <1>1 DEF OwnerInv
  <2>3. /\ analyses[g].pending = 0 /\ analyses[g].winner = 0
        /\ analyses[g].status # "completed"
    BY <1>1
  <2>4. \A n \in DOMAIN ledger[g] : FALSE
    BY <2>1
  <2>5. AnswerInv(g)
    BY <2>3, <2>4 DEF AnswerInv
  <2>6. QED
    BY <2>2, <2>5
<1>5. \A g \in Generation, e \in Epoch : HolderInv(g, e)
  BY <1>1 DEF HolderInv, JobHeld
<1>6. QED
  BY <1>2, <1>3, <1>4, <1>5 DEF NormalizationInv

LEMMA QueueStep ==
    ASSUME NormalizationInv,
           \/ EnqueueInitial \/ Rearm
           \/ \E g \in Generation : Take(g) \/ Terminalize(g) \/ JobLeaseExpires(g)
    PROVE  NormalizationInv'
<1>0. /\ TypeOK /\ candidate.generation \in Generation
      /\ jobs \in [Generation -> JobRow]
  BY DEF NormalizationInv, TypeOK, JobRow
<1>1. CASE EnqueueInitial
  <2> DEFINE g == candidate.generation
             job == [jobs[g] EXCEPT !.status = "queued"]
  <2>1. /\ jobs' = [jobs EXCEPT ![g] = job]
        /\ UNCHANGED <<candidate, decision, analyses, ledger, runs, executed>>
    BY <1>1 DEF EnqueueInitial
  <2>2. job \in JobRow /\ job.status = "queued"
    BY <1>0 DEF JobRow
  <2> HIDE DEF job
  <2>3. QED
    BY <1>0, <2>1, <2>2, JobReleased
<1>2. CASE Rearm
  <2>1. PICK g \in Generation :
        /\ g = candidate.generation
        /\ Rearmable(g) /\ g < MaxGeneration
        /\ candidate' = [candidate EXCEPT !.generation = g + 1]
        /\ jobs' = [jobs EXCEPT ![g + 1].status = "queued"]
        /\ UNCHANGED <<decision, analyses, ledger, runs, executed>>
    BY <1>0, <1>2 DEF Rearm
  <2>2. g + 1 \in Generation /\ candidate.state = "Waiting"
        /\ jobs[g].status \notin {"queued", "running"} /\ g + 1 # g
    BY <1>0, <2>1, NormalizationAssumption DEF Rearmable, Generation
  <2>3. /\ candidate'.generation = g + 1 /\ candidate'.state = "Waiting"
        /\ candidate' \in [state : {"AI Screening", "Waiting", "Decided"}, generation : Generation]
    BY <1>0, <2>1, <2>2 DEF TypeOK
  <2>4. /\ jobs' \in [Generation -> JobRow] /\ jobs'[g + 1].status = "queued"
        /\ \A h \in Generation \ {g + 1} : jobs'[h] = jobs[h]
    <3> DEFINE job == [jobs[g + 1] EXCEPT !.status = "queued"]
    <3>1. jobs' = [jobs EXCEPT ![g + 1] = job]
      BY <2>1
    <3>2. job \in JobRow /\ job.status = "queued"
      BY <1>0, <2>2 DEF JobRow
    <3> HIDE DEF job
    <3>3. QED
      BY <1>0, <2>2, <3>1, <3>2
  <2>5. TypeOK'
    BY <1>0, <2>1, <2>3, <2>4 DEF TypeOK, JobRow
  <2>6. \A h \in Generation : jobs[h].status \notin {"queued", "running"}
    BY <2>1, <2>2 DEF NormalizationInv, OwnerInv
  <2>7. 1 \in Epoch
    BY NormalizationAssumption DEF Epoch
  <2>8. /\ Elsewhere(g, 1) /\ NoNewStart(g, 1) /\ RunInv(g, 1)'
    BY <1>0, <2>1, <2>7 DEF Elsewhere, NoNewStart, NormalizationInv, LedgerInv, RunInv, Working
  <2>9. \A h \in Generation : LedgerInv(h)'
    BY <1>0, <2>1, <2>7, <2>8, LedgerKept DEF NormalizationInv
  <2>10. \A h \in Generation : AnswerInv(h)'
    BY <2>1, <2>2, <2>3 DEF NormalizationInv, AnswerInv, Answer
  <2>11. \A h \in Generation : OwnerInv(h)'
    <3>1. \A h \in Generation : decision'[h] = 0
      BY <2>1, <2>2 DEF NormalizationInv, OwnerInv
    <3>2. \A h \in Generation : jobs'[h].status \in {"queued", "running"} => h = g + 1
      BY <2>4, <2>6
    <3>3. QED
      BY <2>3, <3>1, <3>2 DEF OwnerInv
  <2>12. \A h \in Generation, d \in Epoch : HolderInv(h, d)'
    BY <2>4, <2>6 DEF HolderInv, JobHeld
  <2>13. QED
    BY <2>5, <2>9, <2>10, <2>11, <2>12 DEF NormalizationInv
<1>3. ASSUME NEW g \in Generation, Take(g)
      PROVE  NormalizationInv'
  <2> DEFINE e == jobs[g].epoch + 1
             job == [status |-> "running", epoch |-> e, live |-> TRUE]
             new == [NoRun EXCEPT !.pc = "loading"]
  <2>1. /\ jobs[g].epoch < MaxAttempts /\ jobs[g].status \in {"queued", "running"}
        /\ jobs' = [jobs EXCEPT ![g] = job]
        /\ runs' = [runs EXCEPT ![g][jobs'[g].epoch] = new]
        /\ UNCHANGED <<candidate, decision, analyses, ledger, executed>>
    BY <1>3 DEF Take, Takeable
  <2>2. e \in Epoch
    BY <1>0, <2>1, NormalizationAssumption DEF JobRow, Epoch
  <2>3. job \in JobRow /\ jobs'[g] = job
    BY <1>0, <2>1, <2>2 DEF JobRow
  <2>4. new \in Run /\ new.pc = "loading"
    BY NoRunTyped DEF Run, Pc
  <2>5. Update(g, e, new)
    <3>1. jobs'[g].epoch = e
      BY <2>3
    <3>2. QED
      BY <2>1, <3>1 DEF Update
  <2>6. \A d \in Epoch : JobHeld(g, d)' => d = e
    BY <2>3 DEF JobHeld
  <2>7. g = candidate.generation
    BY <2>1 DEF NormalizationInv, OwnerInv
  <2> HIDE DEF e, job, new
  <2>8. QED
    BY <2>1, <2>2, <2>3, <2>4, <2>5, <2>6, <2>7, JobMoves DEF Working
<1>4. ASSUME NEW g \in Generation, JobLeaseExpires(g)
      PROVE  NormalizationInv'
  <2> DEFINE job == [jobs[g] EXCEPT !.live = FALSE]
  <2>1. /\ jobs' = [jobs EXCEPT ![g] = job]
        /\ UNCHANGED <<candidate, decision, analyses, ledger, runs, executed>>
    BY <1>4 DEF JobLeaseExpires
  <2>2. job \in JobRow /\ ~job.live /\ job.status = jobs[g].status
    BY <1>0 DEF JobRow
  <2>3. job.status \in {"queued", "running"} => g = candidate.generation
    BY <2>2 DEF NormalizationInv, OwnerInv
  <2> HIDE DEF job
  <2>4. QED
    BY <2>1, <2>2, <2>3, JobReleased
<1>5. ASSUME NEW g \in Generation, Terminalize(g)
      PROVE  NormalizationInv'
  <2> DEFINE job == [jobs[g] EXCEPT !.status = "failed"]
  <2>1. /\ jobs' = [jobs EXCEPT ![g] = job]
        /\ UNCHANGED <<candidate, decision, analyses, ledger, runs, executed>>
    BY <1>5 DEF Terminalize
  <2>2. job \in JobRow /\ job.status = "failed"
    BY <1>0 DEF JobRow
  <2> HIDE DEF job
  <2>3. QED
    BY <2>1, <2>2, JobReleased
<1>6. QED
  BY <1>1, <1>2, <1>3, <1>4, <1>5

-----------------------------------------------------------------------------
(***************************************************************************)
(* The runs                                                                *)
(***************************************************************************)

\* How a run goes on: as the call answers, or, the answer being lost, thrown.
LEMMA Replied ==
    ASSUME NormalizationInv, NEW g \in Generation, NEW e \in Epoch, NEW r \in Run,
           Reply(g, e, r)
    PROVE  \E new \in {r, Thrown(runs[g][e])} : new \in Run /\ Update(g, e, new)
<1>1. runs[g][e] \in Run
  BY Typed DEF NormalizationInv
<1>2. QED
  BY <1>1, ThrownRun DEF Reply

\* A run is given up, and no call has had an effect.
LEMMA RunThrown ==
    ASSUME NormalizationInv, NEW g \in Generation, NEW e \in Epoch,
           Update(g, e, Thrown(runs[g][e])), runs[g][e].pc # "executing",
           UNCHANGED <<candidate, decision, jobs, analyses, ledger, executed>>
    PROVE  NormalizationInv'
<1> DEFINE r == runs[g][e]
           new == Thrown(r)
<1>1. /\ r \in Run /\ RunInv(g, e) /\ HolderInv(g, e)
  BY Typed DEF NormalizationInv, LedgerInv
<1>2. /\ new \in Run /\ new.attempt = r.attempt /\ new.provider = r.provider
      /\ IF r.pc = "succeeding" THEN new.pc = "failing" /\ new.outcome = "fatal"
         ELSE new.pc = "throwing"
  BY <1>1, ThrownRun
<1>3. runs'[g][e] = new
  BY <1>2, RunUpdated DEF NormalizationInv
<1>4. NoNewStart(g, e)
  BY <1>2, <1>3 DEF NoNewStart, Working
<1>5. RunInv(g, e)'
  BY <1>1, <1>2, <1>3 DEF RunInv, Working
<1>6. HolderInv(g, e)'
  BY <1>1, <1>2, <1>3 DEF HolderInv, JobHeld
<1> HIDE DEF new
<1>7. QED
  BY <1>2, <1>4, <1>5, <1>6, OnlyRun DEF new

\* What a run does that has no effect but on itself.
LEMMA QuietStep ==
    ASSUME NormalizationInv, NEW g \in Generation, NEW e \in Epoch,
           CallFails(g, e) \/ Drop(g, e) \/ Load(g, e) \/ Route(g, e) \/ End(g, e)
    PROVE  NormalizationInv'
<1> DEFINE r == runs[g][e]
<1>0. /\ r \in Run /\ RunInv(g, e) /\ HolderInv(g, e) /\ TypeOK
  BY Typed DEF NormalizationInv, LedgerInv
<1>1. CASE CallFails(g, e)
  BY <1>1, RunThrown DEF CallFails
<1>2. CASE Drop(g, e)
  <2>1. /\ Update(g, e, NoRun)
        /\ UNCHANGED <<candidate, decision, jobs, analyses, ledger, executed>>
    BY <1>2 DEF Drop, Update
  <2>2. runs'[g][e].pc = "idle"
    BY <2>1, <1>0, RunUpdated, NoRunTyped
  <2>3. NoNewStart(g, e) /\ RunInv(g, e)' /\ HolderInv(g, e)'
    BY <2>2 DEF NoNewStart, RunInv, HolderInv, Working
  <2>4. QED
    BY <2>1, <2>3, NoRunTyped, OnlyRun
<1>3. CASE Load(g, e)
  <2> DEFINE pc == IF candidate.state = "AI Screening" THEN "claiming" ELSE "returning"
             new == [r EXCEPT !.pc = pc]
  <2>1. /\ Update(g, e, new)
        /\ UNCHANGED <<candidate, decision, jobs, analyses, ledger, executed>>
    BY <1>3 DEF Load
  <2>2. new \in Run /\ new.pc = pc
    BY <1>0 DEF Run, Pc
  <2>3. runs'[g][e] = new
    BY <1>0, <2>1, <2>2, RunUpdated
  <2>4. pc \in {"claiming", "returning"} /\ (candidate.state = "Waiting" => pc = "returning")
    OBVIOUS
  <2> HIDE DEF new, pc
  <2>5. NoNewStart(g, e) /\ RunInv(g, e)'
    BY <2>2, <2>3, <2>4 DEF NoNewStart, RunInv, Working
  <2>6. HolderInv(g, e)'
    BY <2>1, <2>2, <2>3, <2>4 DEF HolderInv
  <2>7. QED
    BY <2>1, <2>2, <2>5, <2>6, OnlyRun
<1>4. CASE Route(g, e)
  <2>1. /\ r.pc = "routing"
        /\ UNCHANGED <<candidate, decision, jobs, analyses, ledger, executed>>
    BY <1>4 DEF Route
  <2>2. Pool(r) \subseteq Provider
    BY NormalizationAssumption DEF Pool
  <2>3. PICK new \in Run : /\ Update(g, e, new)
                           /\ new.pc = "deferring" \/ (new.pc = "beginning" /\ new.provider \in Provider)
    <3>1. CASE Update(g, e, [r EXCEPT !.pc = "deferring"])
      <4>1. [r EXCEPT !.pc = "deferring"] \in {x \in Run : x.pc = "deferring"}
        BY <1>0 DEF Run, Pc
      <4>2. QED
        BY <3>1, <4>1
    <3>2. ASSUME NEW p \in Pool(r), Update(g, e, [r EXCEPT !.pc = "beginning", !.provider = p])
          PROVE  \E new \in Run : Update(g, e, new) /\ new.pc = "beginning" /\ new.provider \in Provider
      <4>1. p \in Provider
        BY <2>2
      <4>2. [r EXCEPT !.pc = "beginning", !.provider = p]
              \in {x \in Run : x.pc = "beginning" /\ x.provider \in Provider}
        BY <1>0, <4>1 DEF Run, Pc
      <4>3. QED
        BY <3>2, <4>2
    <3>3. QED
      BY <1>4, <3>1, <3>2 DEF Route
  <2>4. runs'[g][e] = new
    BY <1>0, <2>3, RunUpdated
  <2>5. NoNewStart(g, e) /\ RunInv(g, e)'
    BY <2>3, <2>4 DEF NoNewStart, RunInv, Working
  <2>6. HolderInv(g, e)'
    BY <1>0, <2>1, <2>3, <2>4 DEF HolderInv, JobHeld
  <2>7. QED
    BY <2>1, <2>3, <2>5, <2>6, OnlyRun
<1>5. CASE End(g, e)
  <2> DEFINE status == IF r.pc = "returning" THEN "completed"
                       ELSE IF e = MaxAttempts THEN "failed" ELSE "queued"
             done == [status |-> status, epoch |-> e, live |-> FALSE]
             job == IF JobHeld(g, e) THEN done ELSE jobs[g]
  <2>1. /\ jobs' = IF ~JobHeld(g, e) THEN jobs ELSE [jobs EXCEPT ![g] = done]
        /\ Update(g, e, NoRun)
        /\ UNCHANGED <<candidate, decision, analyses, ledger, executed>>
    BY <1>5 DEF End, EndStatus, Update
  <2>2. CASE ~JobHeld(g, e)
    <3>1. runs'[g][e].pc = "idle"
      BY <2>1, <1>0, RunUpdated, NoRunTyped
    <3>2. NoNewStart(g, e) /\ RunInv(g, e)' /\ HolderInv(g, e)'
      BY <3>1 DEF NoNewStart, RunInv, HolderInv, Working
    <3>3. QED
      BY <2>1, <2>2, <3>2, NoRunTyped, OnlyRun
  <2>3. CASE JobHeld(g, e)
    <3>1. done \in JobRow /\ done.live = FALSE /\ jobs' = [jobs EXCEPT ![g] = done]
      BY <2>1, <2>3 DEF JobRow
    <3>2. g = candidate.generation
      BY <2>3 DEF JobHeld, NormalizationInv, OwnerInv
    <3>3. jobs'[g] = done
      BY <1>0, <3>1 DEF TypeOK
    <3>4. \A d \in Epoch : ~JobHeld(g, d)'
      BY <3>1, <3>3 DEF JobHeld
    <3> HIDE DEF done
    <3>5. QED
      BY <2>1, <3>1, <3>2, <3>4, NoRunTyped, JobMoves DEF Working
  <2>4. QED
    BY <2>2, <2>3
<1>6. QED
  BY <1>1, <1>2, <1>3, <1>4, <1>5

AnalysisRow == [status : {"absent", "pending", "completed"},
                epoch : Nat, live : BOOLEAN, pending : Attempt, winner : Attempt]

\* A run and the lease of an analysis move, not its answer.
LEMMA AnalysisMoves ==
    ASSUME NormalizationInv, NEW g \in Generation, NEW e \in Epoch,
           runs' \in [Generation -> [Epoch -> Run]], Elsewhere(g, e),
           NEW a \in AnalysisRow, analyses' = [analyses EXCEPT ![g] = a],
           a.pending = analyses[g].pending, a.winner = analyses[g].winner,
           \/ a.status = analyses[g].status
           \/ analyses[g].status # "completed" /\ a.status = "pending",
           UNCHANGED <<candidate, decision, jobs, ledger, executed>>,
           NoNewStart(g, e), RunInv(g, e)', HolderInv(g, e)'
    PROVE  NormalizationInv'
<1>1. analyses \in [Generation -> AnalysisRow]
  BY DEF NormalizationInv, TypeOK, AnalysisRow
<1>2. /\ analyses' \in [Generation -> AnalysisRow] /\ analyses'[g] = a
      /\ \A h \in Generation \ {g} : analyses'[h] = analyses[h]
  BY <1>1
<1>3. TypeOK'
  BY <1>2 DEF NormalizationInv, TypeOK, AnalysisRow
<1>4. ASSUME NEW h \in Generation
      PROVE  /\ analyses'[h].pending = analyses[h].pending
             /\ analyses'[h].winner = analyses[h].winner
             /\ \/ analyses'[h].status = analyses[h].status
                \/ analyses[h].status # "completed" /\ analyses'[h].status = "pending"
  <2>1. CASE h = g
    BY <1>2, <2>1
  <2>2. CASE h # g
    BY <1>2, <2>2
  <2>3. QED
    BY <2>1, <2>2
<1>5. \A h \in Generation : LedgerInv(h)'
  BY LedgerKept DEF NormalizationInv
<1>6. \A h \in Generation : AnswerInv(h)'
  BY <1>4, AnswersKept DEF NormalizationInv
<1>7. \A h \in Generation : OwnerInv(h)'
  BY <1>4 DEF NormalizationInv, OwnerInv
<1>8. \A h \in Generation, d \in Epoch : HolderInv(h, d)'
  <2>1. \A h \in Generation, d \in Epoch : JobHeld(h, d)' => JobHeld(h, d)
    BY DEF JobHeld
  <2>2. QED
    BY <1>4, <2>1, HoldersKept DEF NormalizationInv, LedgerInv
<1>9. QED
  BY <1>3, <1>5, <1>6, <1>7, <1>8 DEF NormalizationInv

LEMMA AnalysisLapses ==
    ASSUME NormalizationInv, NEW g \in Generation, AnalysisLeaseExpires(g)
    PROVE  NormalizationInv'
<1> DEFINE a == [analyses[g] EXCEPT !.live = FALSE]
<1>1. /\ analyses' = [analyses EXCEPT ![g] = a]
      /\ UNCHANGED <<candidate, decision, jobs, ledger, runs, executed>>
  BY DEF AnalysisLeaseExpires
<1>2. 1 \in Epoch
  BY NormalizationAssumption DEF Epoch
<1>3. analyses[g] \in AnalysisRow
  BY DEF NormalizationInv, TypeOK, AnalysisRow
<1>4. /\ a \in AnalysisRow /\ a.pending = analyses[g].pending
      /\ a.winner = analyses[g].winner /\ a.status = analyses[g].status
  BY <1>3 DEF AnalysisRow
<1> HIDE DEF a
<1>5. runs' \in [Generation -> [Epoch -> Run]] /\ Elsewhere(g, 1) /\ NoNewStart(g, 1)
  BY <1>1 DEF NormalizationInv, TypeOK, Elsewhere, NoNewStart, Working
<1>6. RunInv(g, 1)'
  BY <1>1, <1>2 DEF NormalizationInv, LedgerInv, RunInv, Working
<1>7. HolderInv(g, 1)'
  <2>1. analyses'[g].pending = analyses[g].pending
    BY <1>1, <1>3, <1>4 DEF NormalizationInv, TypeOK
  <2>2. HolderInv(g, 1)
    BY <1>2 DEF NormalizationInv
  <2>3. QED
    BY <1>1, <2>1, <2>2 DEF HolderInv, JobHeld
<1>8. QED
  BY <1>1, <1>2, <1>4, <1>5, <1>6, <1>7, AnalysisMoves

\* What a claim makes of an analysis.
LEMMA RowClaimed ==
    ASSUME NEW row \in AnalysisRow, NEW n \in Nat
    PROVE  /\ LET x == [row EXCEPT !.status = "pending", !.epoch = n, !.live = TRUE] IN
                x \in AnalysisRow /\ x.pending = row.pending /\ x.winner = row.winner
                /\ x.status = "pending"
           /\ LET x == [row EXCEPT !.epoch = n, !.live = TRUE] IN
                x \in AnalysisRow /\ x.pending = row.pending /\ x.winner = row.winner
                /\ x.status = row.status
BY DEF AnalysisRow

LEMMA ClaimStep ==
    ASSUME NormalizationInv, NEW g \in Generation, NEW e \in Epoch,
           ClaimAnalysis(g, e) \/ Reclaim(g, e)
    PROVE  NormalizationInv'
<1> DEFINE r == runs[g][e]
           old == analyses[g]
<1>0. /\ r \in Run /\ RunInv(g, e) /\ HolderInv(g, e) /\ TypeOK /\ old \in AnalysisRow
      /\ analyses \in [Generation -> AnalysisRow]
  BY Typed DEF NormalizationInv, LedgerInv, AnalysisRow, TypeOK
<1>1. /\ r.pc \in {"claiming", "reclaiming"}
      /\ UNCHANGED <<candidate, decision, jobs, ledger, executed>>
  BY DEF ClaimAnalysis, Reclaim
<1>2. PICK a \in AnalysisRow :
        /\ analyses' = [analyses EXCEPT ![g] = a]
        /\ a.pending = old.pending /\ a.winner = old.winner
        /\ a.status = old.status \/ (old.status # "completed" /\ a.status = "pending")
  <2> DEFINE n == old.epoch + 1
             claimed == [old EXCEPT !.status = "pending", !.epoch = n, !.live = TRUE]
             reclaimed == [old EXCEPT !.epoch = n, !.live = TRUE]
  <2>1. n \in Nat
    BY <1>0 DEF AnalysisRow
  <2>2. /\ claimed \in AnalysisRow /\ claimed.pending = old.pending
        /\ claimed.winner = old.winner /\ claimed.status = "pending"
        /\ reclaimed \in AnalysisRow /\ reclaimed.pending = old.pending
        /\ reclaimed.winner = old.winner /\ reclaimed.status = old.status
    BY <1>0, <2>1, RowClaimed
  <2>3. \/ UNCHANGED analyses
        \/ old.status # "completed" /\ analyses' = [analyses EXCEPT ![g] = claimed]
        \/ analyses' = [analyses EXCEPT ![g] = reclaimed]
    <3>1. CASE ClaimAnalysis(g, e)
      BY <3>1, Zenon DEF ClaimAnalysis
    <3>2. CASE Reclaim(g, e)
      BY <1>0, <3>2 DEF Reclaim
    <3>3. QED
      BY <3>1, <3>2
  <2> HIDE DEF claimed, reclaimed
  <2>4. UNCHANGED analyses => analyses' = [analyses EXCEPT ![g] = old]
    BY <1>0
  <2>5. QED
    BY <1>0, <2>2, <2>3, <2>4
<1>3. PICK new \in Run : /\ Update(g, e, new)
                         /\ new.pc \in {"reclaiming", "reconciling", "returning", "deciding", "throwing"}
  <2>1. PICK x \in {[r EXCEPT !.pc = "reclaiming"],
                    [r EXCEPT !.pc = "reconciling", !.epoch = old.epoch + 1],
                    [r EXCEPT !.pc = "returning"],
                    [r EXCEPT !.pc = "deciding", !.epoch = old.epoch + 1]} : Reply(g, e, x)
    BY DEF ClaimAnalysis, Reclaim
  <2>2. /\ x \in Run
        /\ x.pc \in {"reclaiming", "reconciling", "returning", "deciding"}
    <3>1. old.epoch + 1 \in Nat
      BY <1>0 DEF AnalysisRow
    <3>2. QED
      BY <1>0, <2>1, <3>1 DEF Run, Pc
  <2>3. Thrown(r).pc = "throwing"
    BY <1>0, <1>1, ThrownRun
  <2>4. QED
    BY <2>1, <2>2, <2>3, Replied
<1>4. /\ runs' \in [Generation -> [Epoch -> Run]] /\ runs'[g][e] = new /\ Elsewhere(g, e)
  BY <1>0, <1>3, RunUpdated
<1>5. NoNewStart(g, e) /\ RunInv(g, e)'
  BY <1>3, <1>4 DEF NoNewStart, RunInv, Working
<1>6. HolderInv(g, e)'
  BY <1>0, <1>1, <1>3, <1>4 DEF HolderInv, JobHeld
<1>7. QED
  BY <1>1, <1>2, <1>4, <1>5, <1>6, AnalysisMoves

LEMMA ReconcileStep ==
    ASSUME NormalizationInv, NEW g \in Generation, NEW e \in Epoch, Reconcile(g, e)
    PROVE  NormalizationInv'
<1> DEFINE r == runs[g][e]
           L == Reconciled(ledger[g])
           go == GoOn(r, analyses[g], L)
<1>0. /\ r \in Run /\ RunInv(g, e) /\ HolderInv(g, e) /\ TypeOK
      /\ LedgerInv(g) /\ AnswerInv(g)
      /\ ledger[g] \in Seq(Start) /\ analyses[g].pending \in Nat
  BY Typed DEF NormalizationInv, LedgerInv, Attempt
<1>1. /\ r.pc = "reconciling" /\ ledger' = [ledger EXCEPT ![g] = L] /\ Reply(g, e, go)
      /\ UNCHANGED <<candidate, decision, jobs, analyses, executed>>
  BY DEF Reconcile
<1>2. /\ L \in Seq(Start) /\ Len(L) = Len(ledger[g]) /\ DOMAIN L = DOMAIN ledger[g]
      /\ \A n \in DOMAIN ledger[g] :
           /\ L[n].provider = ledger[g][n].provider
           /\ L[n].outcome = IF ledger[g][n].outcome = "none" THEN "unknown"
                             ELSE ledger[g][n].outcome
  <2> DEFINE K == ledger[g]
             start(n) == IF K[n].outcome = "none" THEN [K[n] EXCEPT !.outcome = "unknown"] ELSE K[n]
  <2>1. L = [n \in 1..Len(K) |-> start(n)] /\ Len(K) \in Nat
    BY <1>0 DEF Reconciled
  <2>2. ASSUME NEW n \in 1..Len(K)
        PROVE  /\ start(n) \in Start /\ start(n).provider = K[n].provider
               /\ start(n).outcome = IF K[n].outcome = "none" THEN "unknown" ELSE K[n].outcome
    <3>1. K[n] \in Start
      BY <1>0
    <3>2. QED
      BY <3>1 DEF Start, Outcome
  <2> HIDE DEF start
  <2>3. L \in Seq(Start) /\ Len(L) = Len(K)
    BY <2>1, <2>2
  <2>4. QED
    BY <1>0, <2>1, <2>2, <2>3
<1>3. go \in Run /\ (IF analyses[g].pending # 0
                     THEN go.pc = "finalizing" /\ go.attempt = analyses[g].pending
                     ELSE go.pc \in {"deferring", "routing"})
  <2>1. Attempted(L) \subseteq Provider /\ Parent(L) \in Attempt
    <3>1. Attempted(L) \subseteq Provider
      BY <1>2, StartedFinite
    <3>2. Len(L) \in Nat
      BY <1>2
    <3>3. QED
      BY <3>1, <3>2 DEF Parent, Attempt
  <2>2. CASE analyses[g].pending # 0
    <3>1. go = [r EXCEPT !.pc = "finalizing", !.attempt = analyses[g].pending]
      BY <2>2 DEF GoOn
    <3>2. QED
      BY <1>0, <2>2, <3>1 DEF Run, Pc, Attempt
  <2>3. CASE analyses[g].pending = 0
    <3>1. PICK pc \in {"deferring", "routing"} :
            go = [r EXCEPT !.pc = pc, !.excluded = Attempted(L), !.parent = Parent(L)]
      BY <2>3 DEF GoOn
    <3>2. go \in Run /\ go.pc = pc
      BY <1>0, <2>1, <3>1 DEF Run, Pc
    <3>3. QED
      BY <2>3, <3>2
  <2>4. QED
    BY <2>2, <2>3
<1> HIDE DEF L, go
<1>4. PICK new \in Run : Update(g, e, new) /\ new \in {go, Thrown(r)}
  BY <1>1, <1>3, Replied
<1>5. /\ runs' \in [Generation -> [Epoch -> Run]] /\ runs'[g][e] = new /\ Elsewhere(g, e)
  BY <1>0, <1>4, RunUpdated
<1>6. Thrown(r).pc = "throwing"
  BY <1>0, <1>1, ThrownRun
<1>7. /\ ledger' \in [Generation -> Seq(Start)] /\ ledger'[g] = L
      /\ \A h \in Generation \ {g} : ledger'[h] = ledger[h]
  BY <1>0, <1>1, <1>2 DEF TypeOK
<1>8. TypeOK'
  BY <1>0, <1>1, <1>5, <1>7 DEF TypeOK
<1>9. ~Working(new) /\ NoNewStart(g, e)
  BY <1>3, <1>4, <1>5, <1>6 DEF NoNewStart, Working
<1>10. RunInv(g, e)'
  <2>1. new.pc = "finalizing" => new.attempt \in DOMAIN L
    BY <1>0, <1>2, <1>3, <1>4, <1>6 DEF AnswerInv, Answer
  <2>2. QED
    BY <1>3, <1>4, <1>5, <1>6, <1>7, <1>9, <2>1 DEF RunInv
<1>11. \A h \in Generation : LedgerInv(h)'
  <2>1. \A d \in Epoch \ {e} : runs[g][d].pc = "executing" =>
          L[runs[g][d].attempt].outcome \in {"none", "unknown"}
    BY <1>0, <1>2 DEF LedgerInv, RunInv, Working
  <2>2. \A m \in DOMAIN ledger[g] :
          /\ L[m].provider = ledger[g][m].provider
          /\ ledger[g][m].outcome # "none" => L[m].outcome = ledger[g][m].outcome
          /\ ledger[g][m].outcome = "none" /\ L[m].outcome = "notConsumed" =>
               <<g, m>> \notin executed
    BY <1>2
  <2>3. /\ Elsewhere(g, e) /\ NoNewStart(g, e) /\ executed' = executed
        /\ \A h \in Generation : LedgerInv(h)
    BY <1>1, <1>5, <1>9 DEF NormalizationInv
  <2>4. L \in Seq(Start) /\ Len(L) = Len(ledger[g]) /\ ledger' = [ledger EXCEPT ![g] = L]
    BY <1>1, <1>2
  <2>5. QED
    BY <1>0, <1>10, <2>1, <2>2, <2>3, <2>4, LedgerRecorded
<1>12. \A h \in Generation : AnswerInv(h)'
  <2>1. ASSUME NEW h \in Generation
        PROVE  /\ DOMAIN ledger'[h] = DOMAIN ledger[h]
               /\ \A n \in DOMAIN ledger[h] :
                    ledger'[h][n].outcome = "success" <=> ledger[h][n].outcome = "success"
    <3>1. CASE h = g
      <4>1. ledger'[h] = L /\ DOMAIN L = DOMAIN ledger[h]
        BY <1>2, <1>7, <3>1
      <4>2. \A n \in DOMAIN ledger[h] :
              L[n].outcome = "success" <=> ledger[h][n].outcome = "success"
        BY <1>2, <3>1
      <4>3. QED
        BY <4>1, <4>2
    <3>2. CASE h # g
      BY <1>7, <3>2
    <3>3. QED
      BY <3>1, <3>2
  <2>2. QED
    BY <1>1, <2>1, AnswersKept DEF NormalizationInv
<1>13. \A h \in Generation : OwnerInv(h)'
  BY <1>1 DEF NormalizationInv, OwnerInv
<1>14. HolderInv(g, e)'
  BY <1>0, <1>1, <1>3, <1>4, <1>5, <1>6 DEF HolderInv, JobHeld
<1>15. \A h \in Generation, d \in Epoch : HolderInv(h, d)'
  <2>1. ASSUME NEW h \in Generation, NEW n \in DOMAIN ledger[h], ledger[h][n].outcome # "none"
        PROVE  ledger'[h][n].outcome # "none"
    BY <1>2, <1>7, <2>1
  <2>2. \A h \in Generation, d \in Epoch : JobHeld(h, d)' => JobHeld(h, d)
    BY <1>1 DEF JobHeld
  <2>3. QED
    BY <1>1, <1>5, <1>14, <2>1, <2>2, HoldersKept DEF NormalizationInv, LedgerInv
<1>16. QED
  BY <1>8, <1>11, <1>12, <1>13, <1>15 DEF NormalizationInv

LEMMA BeginStep ==
    ASSUME NormalizationInv, NEW g \in Generation, NEW e \in Epoch, Begin(g, e)
    PROVE  NormalizationInv'
<1> DEFINE r == runs[g][e]
           L == ledger[g]
           K == Append(L, [provider |-> r.provider, outcome |-> "none"])
           go == [r EXCEPT !.pc = "executing", !.attempt = Len(K)]
<1>0. /\ r \in Run /\ RunInv(g, e) /\ HolderInv(g, e) /\ TypeOK /\ LedgerInv(g)
      /\ L \in Seq(Start) /\ DOMAIN L = 1..Len(L) /\ Len(L) \in Nat
  BY Typed DEF NormalizationInv, LedgerInv
<1>1. /\ r.pc = "beginning" /\ JobHeld(g, e) /\ analyses[g].pending = 0
      /\ Startable(L, r.parent, r.provider) /\ ledger' = [ledger EXCEPT ![g] = K]
      /\ UNCHANGED <<candidate, decision, jobs, analyses, executed>>
  BY DEF Begin, Fenced
<1>2. r.provider \in Provider
  BY <1>0, <1>1 DEF RunInv
<1>3. /\ K \in Seq(Start) /\ DOMAIN K = 1..(Len(L) + 1) /\ Len(K) = Len(L) + 1
      /\ K[Len(L) + 1] = [provider |-> r.provider, outcome |-> "none"]
      /\ \A m \in DOMAIN L : m \in DOMAIN K /\ K[m] = L[m]
  <2>1. [provider |-> r.provider, outcome |-> "none"] \in Start
    BY <1>2 DEF Start, Outcome
  <2>2. QED
    BY <1>0, <2>1
<1>4. Orderly(K)
  BY <1>0, <1>1, <1>2, OrderlyBegun DEF LedgerInv
<1>5. /\ ledger' \in [Generation -> Seq(Start)] /\ ledger'[g] = K
      /\ \A h \in Generation \ {g} : ledger'[h] = ledger[h]
  BY <1>0, <1>1, <1>3 DEF TypeOK
<1>6. Reply(g, e, go)
  BY <1>5 DEF Begin
<1>7. /\ go \in Run /\ go.pc = "executing" /\ go.attempt = Len(L) + 1
      /\ go.provider = r.provider
  <2>1. Len(K) \in Nat
    BY <1>0, <1>3
  <2>2. QED
    BY <1>0, <1>3, <2>1 DEF Run, Pc, Attempt
<1> HIDE DEF K, go
<1>8. PICK new \in Run : Update(g, e, new) /\ new \in {go, Thrown(r)}
  BY <1>6, <1>7, Replied
<1>9. /\ runs' \in [Generation -> [Epoch -> Run]] /\ runs'[g][e] = new /\ Elsewhere(g, e)
  BY <1>0, <1>8, RunUpdated
<1>10. Thrown(r).pc = "throwing"
  BY <1>0, <1>1, ThrownRun
<1>11. TypeOK'
  BY <1>0, <1>1, <1>5, <1>9 DEF TypeOK
<1>12. <<g, Len(L) + 1>> \notin executed
  BY <1>0 DEF LedgerInv, ConsumedInv
<1>13. RunInv(g, e)'
  <2>1. CASE new = go
    <3>1. Len(L) + 1 \in DOMAIN K
      BY <1>0, <1>3
    <3>2. K[Len(L) + 1].outcome = "none"
      BY <1>3
    <3>3. QED
      BY <1>1, <1>2, <1>5, <1>7, <1>9, <1>12, <2>1, <3>1, <3>2 DEF RunInv, Working
  <2>2. CASE new = Thrown(r)
    BY <1>9, <1>10, <2>2 DEF RunInv, Working
  <2>3. QED
    BY <1>8, <2>1, <2>2
<1>14. \A h \in Generation : LedgerInv(h)'
  <2>1. ASSUME NEW h \in Generation
        PROVE  Orderly(ledger'[h])
    BY <1>4, <1>5 DEF NormalizationInv, LedgerInv
  <2>2. ASSUME NEW h \in Generation
        PROVE  ConsumedInv(h)'
    <3>1. CASE h = g
      BY <1>0, <1>1, <1>3, <1>5, <3>1 DEF LedgerInv, ConsumedInv
    <3>2. CASE h # g
      BY <1>1, <1>5, <3>2 DEF NormalizationInv, LedgerInv, ConsumedInv
    <3>3. QED
      BY <3>1, <3>2
  <2>3. ASSUME NEW h \in Generation, NEW d \in Epoch, h # g \/ d # e
        PROVE  RunInv(h, d)'
    <3>1. RunInv(h, d) /\ runs'[h][d] = runs[h][d] /\ executed' = executed
      BY <1>1, <1>9, <2>3 DEF NormalizationInv, LedgerInv, Elsewhere
    <3>2. /\ \A m \in DOMAIN ledger[h] : m \in DOMAIN ledger'[h] /\ ledger'[h][m] = ledger[h][m]
      BY <1>3, <1>5
    <3>3. QED
      BY <3>1, <3>2 DEF RunInv, Working
  <2>4. ASSUME NEW h \in Generation
        PROVE  OwnStart(h)'
    <3>1. ASSUME NEW d \in Epoch, h # g \/ d # e, Working(runs'[h][d])
          PROVE  /\ Working(runs[h][d]) /\ runs'[h][d].attempt = runs[h][d].attempt
                 /\ runs[h][d].attempt \in DOMAIN ledger[h]
      <4>1. runs'[h][d] = runs[h][d] /\ RunInv(h, d)
        BY <1>9, <3>1 DEF Elsewhere, NormalizationInv, LedgerInv
      <4>2. QED
        BY <3>1, <4>1 DEF RunInv, Working
    <3>2. h = g /\ Working(runs'[g][e]) => runs'[g][e].attempt \notin DOMAIN ledger[h]
      BY <1>0, <1>7, <1>8, <1>9, <1>10 DEF Working
    <3>3. OwnStart(h)
      BY DEF NormalizationInv, LedgerInv
    <3>4. ASSUME NEW c \in Epoch, NEW d \in Epoch, Working(runs'[h][c]), Working(runs'[h][d]),
                 runs'[h][c].attempt = runs'[h][d].attempt
          PROVE  c = d
      <4>1. CASE (h # g \/ c # e) /\ (h # g \/ d # e)
        BY <3>1, <3>3, <3>4, <4>1 DEF OwnStart
      <4>2. CASE h = g /\ c = e /\ d # e
        BY <3>1, <3>2, <3>4, <4>2
      <4>3. CASE h = g /\ d = e /\ c # e
        BY <3>1, <3>2, <3>4, <4>3
      <4>4. QED
        BY <4>1, <4>2, <4>3
    <3>5. QED
      BY <3>4 DEF OwnStart
  <2>5. QED
    BY <1>13, <2>1, <2>2, <2>3, <2>4 DEF LedgerInv
<1>15. \A h \in Generation : AnswerInv(h)'
  <2>1. ASSUME NEW h \in Generation
        PROVE  /\ \A n \in DOMAIN ledger[h] : n \in DOMAIN ledger'[h] /\ ledger'[h][n] = ledger[h][n]
               /\ \A n \in DOMAIN ledger'[h] :
                    ledger'[h][n].outcome = "success" =>
                      n \in DOMAIN ledger[h] /\ ledger[h][n].outcome = "success"
    <3>1. CASE h = g
      <4>1. ASSUME NEW n \in DOMAIN K, K[n].outcome = "success"
            PROVE  n \in DOMAIN L
        BY <1>0, <1>3, <4>1
      <4>2. QED
        BY <1>3, <1>5, <3>1, <4>1
    <3>2. CASE h # g
      BY <1>5, <3>2
    <3>3. QED
      BY <3>1, <3>2
  <2>2. QED
    BY <1>1, <2>1, AnswersKept DEF NormalizationInv
<1>16. \A h \in Generation : OwnerInv(h)'
  BY <1>1 DEF NormalizationInv, OwnerInv
<1>17. HolderInv(g, e)'
  BY <1>0, <1>1, <1>7, <1>8, <1>9, <1>10 DEF HolderInv, JobHeld
<1>18. \A h \in Generation, d \in Epoch : HolderInv(h, d)'
  <2>1. ASSUME NEW h \in Generation, NEW n \in DOMAIN ledger[h], ledger[h][n].outcome # "none"
        PROVE  ledger'[h][n].outcome # "none"
    BY <1>3, <1>5, <2>1
  <2>2. \A h \in Generation, d \in Epoch : JobHeld(h, d)' => JobHeld(h, d)
    BY <1>1 DEF JobHeld
  <2>3. QED
    BY <1>1, <1>9, <1>17, <2>1, <2>2, HoldersKept DEF NormalizationInv, LedgerInv
<1>19. QED
  BY <1>11, <1>14, <1>15, <1>16, <1>18 DEF NormalizationInv

LEMMA ExecuteStep ==
    ASSUME NormalizationInv, NEW g \in Generation, NEW e \in Epoch, Execute(g, e)
    PROVE  NormalizationInv'
<1> DEFINE r == runs[g][e]
<1>0. /\ r \in Run /\ RunInv(g, e) /\ HolderInv(g, e) /\ TypeOK /\ LedgerInv(g)
      /\ r.attempt \in Nat
  BY Typed DEF NormalizationInv, LedgerInv, Run, Attempt
<1>1. /\ r.pc = "executing" /\ UNCHANGED <<candidate, decision, jobs, analyses, ledger>>
  BY DEF Execute
<1>2. PICK o \in Outcome \ {"none", "unknown"} :
        /\ Update(g, e, [r EXCEPT !.pc = IF o = "success" THEN "succeeding" ELSE "failing",
                                  !.outcome = o])
        /\ executed' = IF o = "notConsumed" THEN executed
                       ELSE executed \cup {<<g, r.attempt>>}
  BY DEF Execute
<1> DEFINE pc == IF o = "success" THEN "succeeding" ELSE "failing"
           new == [r EXCEPT !.pc = pc, !.outcome = o]
<1>3. /\ new \in Run /\ new.pc = pc /\ new.outcome = o /\ new.attempt = r.attempt
      /\ new.provider = r.provider
  BY <1>0 DEF Run, Pc
<1>4. /\ o = "success" => pc = "succeeding"
      /\ o # "success" => pc = "failing" /\ o \in {"recoverable", "fatal", "cancelled", "notConsumed"}
  BY DEF Outcome
<1>5. Update(g, e, new)
  BY <1>2
<1> HIDE DEF pc, new
<1>6. /\ runs' \in [Generation -> [Epoch -> Run]] /\ runs'[g][e] = new /\ Elsewhere(g, e)
  BY <1>0, <1>3, <1>5, RunUpdated
<1>7. TypeOK'
  <2>1. executed' \subseteq Generation \X Attempt
    <3>1. <<g, r.attempt>> \in Generation \X Attempt /\ executed \subseteq Generation \X Attempt
      BY <1>0 DEF TypeOK, Attempt
    <3>2. QED
      BY <1>2, <3>1
  <2>2. QED
    BY <1>0, <1>1, <1>6, <2>1 DEF TypeOK
<1>8. /\ r.provider \in Provider /\ r.attempt \in DOMAIN ledger[g]
      /\ <<g, r.attempt>> \notin executed
      /\ ledger[g][r.attempt].outcome \in {"none", "unknown"}
  BY <1>0, <1>1 DEF RunInv, Working
<1>9. RunInv(g, e)'
  BY <1>1, <1>2, <1>3, <1>4, <1>6, <1>8 DEF RunInv, Working
<1>10. \A h \in Generation : LedgerInv(h)'
  <2>1. ASSUME NEW h \in Generation, NEW d \in Epoch, h # g \/ d # e
        PROVE  RunInv(h, d)'
    <3>1. RunInv(h, d) /\ runs'[h][d] = runs[h][d] /\ ledger'[h] = ledger[h]
      BY <1>1, <1>6, <2>1 DEF NormalizationInv, LedgerInv, Elsewhere
    <3>2. Working(runs[h][d]) => <<h, runs[h][d].attempt>> # <<g, r.attempt>>
      BY <1>0, <1>1, <2>1 DEF LedgerInv, OwnStart, Working
    <3>3. Working(runs[h][d]) =>
            (<<h, runs[h][d].attempt>> \in executed' <=> <<h, runs[h][d].attempt>> \in executed)
      BY <1>2, <3>2
    <3>4. QED
      BY <3>1, <3>3 DEF RunInv, Working
  <2>2. ASSUME NEW h \in Generation
        PROVE  ConsumedInv(h)'
    BY <1>1, <1>2, <1>8 DEF NormalizationInv, LedgerInv, ConsumedInv
  <2>3. ASSUME NEW h \in Generation
        PROVE  OwnStart(h)'
    <3>1. ASSUME NEW d \in Epoch, Working(runs'[h][d])
          PROVE  Working(runs[h][d]) /\ runs'[h][d].attempt = runs[h][d].attempt
      <4>1. CASE h = g /\ d = e
        BY <1>1, <1>3, <1>6, <4>1 DEF Working
      <4>2. CASE h # g \/ d # e
        BY <1>6, <3>1, <4>2 DEF Elsewhere
      <4>3. QED
        BY <4>1, <4>2
    <3>2. OwnStart(h)
      BY DEF NormalizationInv, LedgerInv
    <3>3. QED
      BY <3>1, <3>2 DEF OwnStart
  <2>4. ASSUME NEW h \in Generation
        PROVE  Orderly(ledger'[h])
    BY <1>1 DEF NormalizationInv, LedgerInv
  <2>5. QED
    BY <1>9, <2>1, <2>2, <2>3, <2>4 DEF LedgerInv
<1>11. \A h \in Generation : AnswerInv(h)'
  <2>1. executed \subseteq executed'
    BY <1>2
  <2>2. QED
    BY <1>1, <2>1, AnswersKept DEF NormalizationInv
<1>12. \A h \in Generation : OwnerInv(h)'
  BY <1>1 DEF NormalizationInv, OwnerInv
<1>13. HolderInv(g, e)'
  BY <1>0, <1>1, <1>3, <1>4, <1>6 DEF HolderInv, JobHeld
<1>14. \A h \in Generation, d \in Epoch : HolderInv(h, d)'
  <2>1. \A h \in Generation, d \in Epoch : JobHeld(h, d)' => JobHeld(h, d)
    BY <1>1 DEF JobHeld
  <2>2. QED
    BY <1>1, <1>6, <1>13, <2>1, HoldersKept DEF NormalizationInv, LedgerInv
<1>15. QED
  BY <1>7, <1>10, <1>11, <1>12, <1>14 DEF NormalizationInv

\* What it is to append an outcome.
LEMMA OutcomeAppended ==
    ASSUME TypeOK, NEW g \in Generation, NEW n \in DOMAIN ledger[g], NEW o \in Outcome,
           RecordOutcome(g, n, o)
    PROVE  \E L \in Seq(Start) :
             /\ ledger' = [ledger EXCEPT ![g] = L] /\ ledger' \in [Generation -> Seq(Start)]
             /\ ledger'[g] = L /\ Len(L) = Len(ledger[g]) /\ DOMAIN L = DOMAIN ledger[g]
             /\ \A m \in DOMAIN ledger[g] :
                  /\ L[m].provider = ledger[g][m].provider
                  /\ L[m].outcome = IF m = n THEN o ELSE ledger[g][m].outcome
             /\ \A h \in Generation \ {g} : ledger'[h] = ledger[h]
<1> DEFINE K == ledger[g]
           start == [K[n] EXCEPT !.outcome = o]
           L == [K EXCEPT ![n] = start]
<1>1. ledger \in [Generation -> Seq(Start)] /\ K \in Seq(Start) /\ K[n] \in Start
  <2>1. K \in Seq(Start)
    BY DEF TypeOK
  <2>2. K[n] \in Start
    BY <2>1
  <2>3. QED
    BY <2>1, <2>2 DEF TypeOK
<1>2. start \in Start /\ start.provider = K[n].provider /\ start.outcome = o
  BY <1>1 DEF Start
<1>3. ledger' = [ledger EXCEPT ![g] = L]
  BY <1>1 DEF RecordOutcome
<1> HIDE DEF start
<1>4. /\ L \in Seq(Start) /\ Len(L) = Len(K) /\ DOMAIN L = DOMAIN K
      /\ \A m \in DOMAIN K : L[m] = IF m = n THEN start ELSE K[m]
  BY <1>1, <1>2
<1> HIDE DEF L
<1>5. /\ ledger' \in [Generation -> Seq(Start)] /\ ledger'[g] = L
      /\ \A h \in Generation \ {g} : ledger'[h] = ledger[h]
  BY <1>1, <1>3, <1>4
<1>6. \A m \in DOMAIN K : /\ L[m].provider = K[m].provider
                          /\ L[m].outcome = IF m = n THEN o ELSE K[m].outcome
  BY <1>2, <1>4
<1>7. QED
  BY <1>3, <1>4, <1>5, <1>6

LEMMA SucceedStep ==
    ASSUME NormalizationInv, NEW g \in Generation, NEW e \in Epoch, Succeed(g, e)
    PROVE  NormalizationInv'
<1>a. PICK n \in Nat : n = runs[g][e].attempt
  BY Typed DEF NormalizationInv, Run, Attempt
<1> DEFINE r == runs[g][e]
           go == [r EXCEPT !.pc = "finalizing"]
           a == [analyses[g] EXCEPT !.pending = n]
<1>0. /\ r \in Run /\ RunInv(g, e) /\ HolderInv(g, e) /\ TypeOK /\ LedgerInv(g)
      /\ AnswerInv(g) /\ OwnerInv(g) /\ n = r.attempt
      /\ analyses[g] \in AnalysisRow /\ DOMAIN ledger[g] = 1..Len(ledger[g])
  BY <1>a, Typed DEF NormalizationInv, LedgerInv, AnalysisRow
<1>1. /\ r.pc = "succeeding" /\ JobHeld(g, e) /\ ledger[g][n].outcome = "none"
      /\ analyses[g].pending = 0 /\ analyses[g].status = "pending"
      /\ RecordOutcome(g, n, "success") /\ Reply(g, e, go)
      /\ analyses' = [analyses EXCEPT ![g] = a]
      /\ UNCHANGED <<candidate, decision, jobs, executed>>
  BY <1>a DEF Succeed, Appendable, Fenced, AnalysisHeld
<1>2. n \in DOMAIN ledger[g] /\ r.provider \in Provider /\ <<g, n>> \in executed
  BY <1>0, <1>1 DEF RunInv, Working
<1>3. PICK L \in Seq(Start) :
        /\ ledger' = [ledger EXCEPT ![g] = L] /\ ledger' \in [Generation -> Seq(Start)]
        /\ ledger'[g] = L /\ Len(L) = Len(ledger[g]) /\ DOMAIN L = DOMAIN ledger[g]
        /\ \A m \in DOMAIN ledger[g] :
             /\ L[m].provider = ledger[g][m].provider
             /\ L[m].outcome = IF m = n THEN "success" ELSE ledger[g][m].outcome
        /\ \A h \in Generation \ {g} : ledger'[h] = ledger[h]
  <2>1. "success" \in Outcome
    BY DEF Outcome
  <2>2. QED
    BY <1>0, <1>1, <1>2, <2>1, OutcomeAppended
<1>4. go \in Run /\ go.pc = "finalizing" /\ go.attempt = n /\ go.provider = r.provider
  BY <1>0 DEF Run, Pc
<1>5. /\ a \in AnalysisRow /\ a.pending = n /\ a.winner = analyses[g].winner
      /\ a.status = "pending"
  BY <1>0, <1>1 DEF AnalysisRow, Attempt
<1> HIDE DEF go, a
<1>6. PICK new \in Run : Update(g, e, new) /\ new \in {go, Thrown(r)}
  BY <1>1, <1>4, Replied
<1>7. /\ Thrown(r).pc = "failing" /\ Thrown(r).outcome = "fatal"
      /\ Thrown(r).attempt = n /\ Thrown(r).provider = r.provider
  BY <1>0, <1>1, ThrownRun
<1>8. /\ runs' \in [Generation -> [Epoch -> Run]] /\ runs'[g][e] = new /\ Elsewhere(g, e)
  BY <1>0, <1>6, RunUpdated
<1>9. /\ analyses' \in [Generation -> AnalysisRow] /\ analyses'[g] = a
      /\ \A h \in Generation \ {g} : analyses'[h] = analyses[h]
  BY <1>0, <1>1, <1>5 DEF TypeOK, AnalysisRow
<1>10. TypeOK'
  BY <1>0, <1>1, <1>3, <1>8, <1>9 DEF TypeOK, AnalysisRow
<1>11. NoNewStart(g, e) /\ RunInv(g, e)'
  <2>1. /\ new.pc \in {"finalizing", "failing"} /\ new.attempt = n /\ new.provider \in Provider
        /\ new.pc = "failing" => new.outcome = "fatal"
    BY <1>2, <1>4, <1>6, <1>7
  <2>2. NoNewStart(g, e)
    BY <1>0, <1>1, <1>8, <2>1 DEF NoNewStart, Working
  <2>3. n \in DOMAIN ledger'[g]
    BY <1>2, <1>3
  <2>4. QED
    BY <1>8, <2>1, <2>2, <2>3 DEF RunInv, Working
<1>12. \A h \in Generation : LedgerInv(h)'
  <2>1. ASSUME NEW d \in Epoch \ {e}, runs[g][d].pc = "executing"
        PROVE  L[runs[g][d].attempt].outcome \in {"none", "unknown"}
    <3>1. RunInv(g, d) /\ runs[g][d].attempt # n
      BY <1>0, <1>1, <2>1 DEF LedgerInv, OwnStart, Working
    <3>2. runs[g][d].attempt \in DOMAIN ledger[g]
      BY <2>1, <3>1 DEF RunInv, Working
    <3>3. QED
      BY <1>3, <2>1, <3>1, <3>2 DEF RunInv
  <2>2. \A m \in DOMAIN ledger[g] :
          /\ L[m].provider = ledger[g][m].provider
          /\ ledger[g][m].outcome # "none" => L[m].outcome = ledger[g][m].outcome
          /\ ledger[g][m].outcome = "none" /\ L[m].outcome = "notConsumed" =>
               <<g, m>> \notin executed
    BY <1>1, <1>3
  <2>3. \A h \in Generation : LedgerInv(h)
    BY DEF NormalizationInv
  <2>4. executed' = executed
    BY <1>1
  <2>5. QED
    BY <1>0, <1>3, <1>8, <1>11, <2>1, <2>2, <2>3, <2>4, LedgerRecorded
<1>13. n # 0 /\ candidate.state # "Waiting" /\ g = candidate.generation
  BY <1>0, <1>1, <1>2 DEF HolderInv, OwnerInv, JobHeld
<1>14. ASSUME NEW h \in Generation
       PROVE  AnswerInv(h)' /\ OwnerInv(h)'
  <2>1. CASE h = g
    <3>1. Answer(g, n)'
      BY <1>1, <1>2, <1>3 DEF Answer
    <3>2. a.winner = 0
      BY <1>0, <1>1, <1>5 DEF AnswerInv
    <3>3. ASSUME NEW m \in DOMAIN L, L[m].outcome = "success"
          PROVE  m = n
      <4>1. m # 0 /\ m \in DOMAIN ledger[g]
        BY <1>0, <1>3, <3>3
      <4>2. ledger[g][m].outcome = "success" => m \in {0, analyses[g].winner}
        BY <1>0, <1>1, <4>1 DEF AnswerInv
      <4>3. QED
        BY <1>3, <1>5, <3>2, <3>3, <4>1, <4>2
    <3>4. AnswerInv(g)'
      BY <1>1, <1>3, <1>5, <1>9, <1>13, <3>1, <3>2, <3>3 DEF AnswerInv
    <3>5. OwnerInv(g)'
      BY <1>0, <1>1, <1>5, <1>9 DEF OwnerInv
    <3>6. QED
      BY <2>1, <3>4, <3>5
  <2>2. CASE h # g
    BY <1>1, <1>3, <1>9, <2>2 DEF NormalizationInv, AnswerInv, Answer, OwnerInv
  <2>3. QED
    BY <2>1, <2>2
<1>15. ASSUME NEW h \in Generation, NEW d \in Epoch, JobHeld(h, d)'
       PROVE  HolderInv(h, d)'
  <2>1. CASE h = g /\ d = e
    <3>1. L[n].outcome = "success"
      BY <1>2, <1>3
    <3>2. QED
      BY <1>1, <1>3, <1>4, <1>6, <1>7, <1>8, <1>13, <2>1, <3>1 DEF HolderInv
  <2>2. CASE h = g /\ d # e
    BY <1>1, <1>15, <2>2 DEF JobHeld
  <2>3. CASE h # g
    <3>1. /\ runs'[h][d] = runs[h][d] /\ JobHeld(h, d)
          /\ analyses'[h] = analyses[h] /\ ledger'[h] = ledger[h] /\ candidate' = candidate
      BY <1>1, <1>3, <1>8, <1>9, <1>15, <2>3 DEF Elsewhere, JobHeld
    <3>2. QED
      BY <3>1 DEF NormalizationInv, HolderInv
  <2>4. QED
    BY <2>1, <2>2, <2>3
<1>16. \A h \in Generation, d \in Epoch : HolderInv(h, d)'
  BY <1>15 DEF HolderInv
<1>17. QED
  BY <1>10, <1>12, <1>14, <1>16 DEF NormalizationInv

LEMMA FailStep ==
    ASSUME NormalizationInv, NEW g \in Generation, NEW e \in Epoch, Fail(g, e)
    PROVE  NormalizationInv'
<1>a. PICK n \in Nat : n = runs[g][e].attempt
  BY Typed DEF NormalizationInv, Run, Attempt
<1>b. PICK o \in Outcome : o = runs[g][e].outcome
  BY Typed DEF NormalizationInv, Run
<1> DEFINE r == runs[g][e]
           pc == IF o \in {"recoverable", "notConsumed"} THEN "routing" ELSE "throwing"
           excluded == IF o = "notConsumed" THEN r.excluded ELSE r.excluded \cup {r.provider}
           go == [r EXCEPT !.pc = pc, !.parent = n, !.attempt = 0, !.provider = "none",
                           !.outcome = "none", !.excluded = excluded]
<1>0. /\ r \in Run /\ RunInv(g, e) /\ HolderInv(g, e) /\ TypeOK /\ LedgerInv(g)
      /\ n = r.attempt /\ o = r.outcome
  BY <1>a, <1>b, Typed DEF NormalizationInv, LedgerInv
<1>1. /\ r.pc = "failing" /\ JobHeld(g, e) /\ ledger[g][n].outcome = "none"
      /\ RecordOutcome(g, n, o) /\ Reply(g, e, go)
      /\ UNCHANGED <<candidate, decision, jobs, analyses, executed>>
  BY <1>a, <1>b DEF Fail, Appendable, Fenced
<1>2. /\ n \in DOMAIN ledger[g] /\ r.provider \in Provider
      /\ o \in {"recoverable", "fatal", "cancelled", "notConsumed"}
      /\ o = "notConsumed" => <<g, n>> \notin executed
  BY <1>0, <1>1 DEF RunInv, Working
<1>3. PICK L \in Seq(Start) :
        /\ ledger' = [ledger EXCEPT ![g] = L] /\ ledger' \in [Generation -> Seq(Start)]
        /\ ledger'[g] = L /\ Len(L) = Len(ledger[g]) /\ DOMAIN L = DOMAIN ledger[g]
        /\ \A m \in DOMAIN ledger[g] :
             /\ L[m].provider = ledger[g][m].provider
             /\ L[m].outcome = IF m = n THEN o ELSE ledger[g][m].outcome
        /\ \A h \in Generation \ {g} : ledger'[h] = ledger[h]
  BY <1>0, <1>1, <1>2, OutcomeAppended
<1>4. go \in Run /\ go.pc \in {"routing", "throwing"}
  <2>1. excluded \in SUBSET Provider /\ pc \in {"routing", "throwing"}
    BY <1>0, <1>2 DEF Run
  <2> HIDE DEF excluded, pc
  <2>2. QED
    BY <1>0, <2>1 DEF Run, Pc, Attempt, Outcome
<1> HIDE DEF pc, excluded, go
<1>5. PICK new \in Run : Update(g, e, new) /\ new \in {go, Thrown(r)}
  BY <1>1, <1>4, Replied
<1>6. new.pc \in {"routing", "throwing"}
  BY <1>0, <1>1, <1>4, <1>5, ThrownRun
<1>7. /\ runs' \in [Generation -> [Epoch -> Run]] /\ runs'[g][e] = new /\ Elsewhere(g, e)
  BY <1>0, <1>5, RunUpdated
<1>8. TypeOK'
  BY <1>0, <1>1, <1>3, <1>7 DEF TypeOK
<1>9. NoNewStart(g, e) /\ RunInv(g, e)'
  BY <1>6, <1>7 DEF NoNewStart, RunInv, Working
<1>10. \A h \in Generation : LedgerInv(h)'
  <2>1. ASSUME NEW d \in Epoch \ {e}, runs[g][d].pc = "executing"
        PROVE  L[runs[g][d].attempt].outcome \in {"none", "unknown"}
    <3>1. RunInv(g, d) /\ runs[g][d].attempt # n
      BY <1>0, <1>1, <2>1 DEF LedgerInv, OwnStart, Working
    <3>2. runs[g][d].attempt \in DOMAIN ledger[g]
      BY <2>1, <3>1 DEF RunInv, Working
    <3>3. QED
      BY <1>3, <2>1, <3>1, <3>2 DEF RunInv
  <2>2. \A m \in DOMAIN ledger[g] :
          /\ L[m].provider = ledger[g][m].provider
          /\ ledger[g][m].outcome # "none" => L[m].outcome = ledger[g][m].outcome
          /\ ledger[g][m].outcome = "none" /\ L[m].outcome = "notConsumed" =>
               <<g, m>> \notin executed
    BY <1>1, <1>2, <1>3
  <2>3. (\A h \in Generation : LedgerInv(h)) /\ executed' = executed
    BY <1>1 DEF NormalizationInv
  <2>4. QED
    BY <1>0, <1>3, <1>7, <1>9, <2>1, <2>2, <2>3, LedgerRecorded
<1>11. \A h \in Generation : AnswerInv(h)'
  <2>1. ASSUME NEW h \in Generation
        PROVE  /\ DOMAIN ledger'[h] = DOMAIN ledger[h]
               /\ \A m \in DOMAIN ledger[h] :
                    ledger'[h][m].outcome = "success" <=> ledger[h][m].outcome = "success"
    <3>1. CASE h = g
      <4>1. ASSUME NEW m \in DOMAIN ledger[g]
            PROVE  L[m].outcome = "success" <=> ledger[g][m].outcome = "success"
        BY <1>1, <1>2, <1>3
      <4>2. QED
        BY <1>3, <3>1, <4>1
    <3>2. CASE h # g
      BY <1>3, <3>2
    <3>3. QED
      BY <3>1, <3>2
  <2>2. QED
    BY <1>1, <2>1, AnswersKept DEF NormalizationInv
<1>12. \A h \in Generation : OwnerInv(h)'
  BY <1>1 DEF NormalizationInv, OwnerInv
<1>13. HolderInv(g, e)'
  BY <1>0, <1>1, <1>6, <1>7 DEF HolderInv, JobHeld
<1>14. \A h \in Generation, d \in Epoch : HolderInv(h, d)'
  <2>1. ASSUME NEW h \in Generation, NEW m \in DOMAIN ledger[h], ledger[h][m].outcome # "none"
        PROVE  ledger'[h][m].outcome # "none"
    <3>1. CASE h = g
      BY <1>2, <1>3, <2>1, <3>1
    <3>2. CASE h # g
      BY <1>3, <2>1, <3>2
    <3>3. QED
      BY <3>1, <3>2
  <2>2. \A h \in Generation, d \in Epoch : JobHeld(h, d)' => JobHeld(h, d)
    BY <1>1 DEF JobHeld
  <2>3. QED
    BY <1>1, <1>7, <1>13, <2>1, <2>2, HoldersKept DEF NormalizationInv, LedgerInv
<1>15. QED
  BY <1>8, <1>10, <1>11, <1>12, <1>14 DEF NormalizationInv

LEMMA FinalizeStep ==
    ASSUME NormalizationInv, NEW g \in Generation, NEW e \in Epoch, FinalizeAnalysis(g, e)
    PROVE  NormalizationInv'
<1>a. PICK n \in Nat : n = runs[g][e].attempt
  BY Typed DEF NormalizationInv, Run, Attempt
<1> DEFINE r == runs[g][e]
           go == [r EXCEPT !.pc = "deciding"]
           a == [analyses[g] EXCEPT !.status = "completed", !.winner = n, !.pending = 0]
<1>0. /\ r \in Run /\ RunInv(g, e) /\ HolderInv(g, e) /\ TypeOK
      /\ AnswerInv(g) /\ OwnerInv(g) /\ n = r.attempt
      /\ analyses[g] \in AnalysisRow /\ DOMAIN ledger[g] = 1..Len(ledger[g])
  BY <1>a, Typed DEF NormalizationInv, LedgerInv, AnalysisRow
<1>1. /\ r.pc = "finalizing" /\ JobHeld(g, e) /\ analyses[g].status = "pending"
      /\ analyses[g].pending = n /\ Reply(g, e, go)
      /\ analyses' = [analyses EXCEPT ![g] = a]
      /\ UNCHANGED <<candidate, decision, jobs, ledger, executed>>
  BY <1>a DEF FinalizeAnalysis, Fenced, AnalysisHeld
<1>2. n \in DOMAIN ledger[g] /\ n # 0
  BY <1>0, <1>1 DEF RunInv
<1>3. go \in Run /\ go.pc = "deciding"
  BY <1>0 DEF Run, Pc
<1>4. a \in AnalysisRow /\ a.pending = 0 /\ a.winner = n /\ a.status = "completed"
  BY <1>0 DEF AnalysisRow, Attempt
<1> HIDE DEF go, a
<1>5. PICK new \in Run : Update(g, e, new) /\ new.pc \in {"deciding", "throwing"}
  BY <1>0, <1>1, <1>3, Replied, ThrownRun
<1>6. /\ runs' \in [Generation -> [Epoch -> Run]] /\ runs'[g][e] = new /\ Elsewhere(g, e)
  BY <1>0, <1>5, RunUpdated
<1>7. /\ analyses' \in [Generation -> AnalysisRow] /\ analyses'[g] = a
      /\ \A h \in Generation \ {g} : analyses'[h] = analyses[h]
  BY <1>0, <1>1, <1>4 DEF TypeOK, AnalysisRow
<1>8. TypeOK'
  BY <1>0, <1>1, <1>6, <1>7 DEF TypeOK, AnalysisRow
<1>9. NoNewStart(g, e) /\ RunInv(g, e)'
  BY <1>5, <1>6 DEF NoNewStart, RunInv, Working
<1>10. \A h \in Generation : LedgerInv(h)'
  BY <1>1, <1>6, <1>9, LedgerKept DEF NormalizationInv
<1>11. candidate.state # "Waiting" /\ g = candidate.generation
  BY <1>0, <1>1 DEF HolderInv, OwnerInv, JobHeld
<1>12. ASSUME NEW h \in Generation
       PROVE  AnswerInv(h)' /\ OwnerInv(h)'
  <2>1. CASE h = g
    <3>1. Answer(g, n) /\ analyses[g].winner = 0
      BY <1>0, <1>1, <1>2 DEF AnswerInv
    <3>2. Answer(g, n)'
      BY <1>1, <3>1 DEF Answer
    <3>3. AnswerInv(g)'
      BY <1>0, <1>1, <1>2, <1>4, <1>7, <1>11, <3>1, <3>2 DEF AnswerInv
    <3>4. decision[g] = 0
      BY <1>0, <3>1 DEF OwnerInv
    <3>5. OwnerInv(g)'
      BY <1>0, <1>1, <3>4 DEF OwnerInv
    <3>6. QED
      BY <2>1, <3>3, <3>5
  <2>2. CASE h # g
    BY <1>1, <1>7, <2>2 DEF NormalizationInv, AnswerInv, Answer, OwnerInv
  <2>3. QED
    BY <2>1, <2>2
<1>13. HolderInv(g, e)'
  BY <1>1, <1>5, <1>6, <1>11 DEF HolderInv
<1>14. \A h \in Generation, d \in Epoch : HolderInv(h, d)'
  <2>1. \A h \in Generation : analyses'[h].pending \in {analyses[h].pending, 0}
    BY <1>4, <1>7
  <2>2. \A h \in Generation, d \in Epoch : JobHeld(h, d)' => JobHeld(h, d)
    BY <1>1 DEF JobHeld
  <2>3. QED
    BY <1>1, <1>6, <1>13, <2>1, <2>2, HoldersKept DEF NormalizationInv, LedgerInv
<1>15. QED
  BY <1>8, <1>10, <1>12, <1>14 DEF NormalizationInv

LEMMA DecideStep ==
    ASSUME NormalizationInv, NEW g \in Generation, NEW e \in Epoch, Decide(g, e) \/ Defer(g, e)
    PROVE  NormalizationInv'
<1> DEFINE r == runs[g][e]
           go == [r EXCEPT !.pc = "returning"]
<1>0. /\ r \in Run /\ HolderInv(g, e) /\ TypeOK /\ AnswerInv(g) /\ OwnerInv(g)
      /\ candidate \in [state : {"AI Screening", "Waiting", "Decided"}, generation : Generation]
      /\ decision \in [Generation -> Attempt] /\ analyses[g].winner \in Attempt
  BY Typed DEF NormalizationInv, TypeOK
<1>1. /\ r.pc \in {"deciding", "deferring"} /\ JobHeld(g, e) /\ Reply(g, e, go)
      /\ UNCHANGED <<jobs, analyses, ledger, executed>>
  BY DEF Decide, Defer
<1>2. go \in Run /\ go.pc = "returning"
  BY <1>0 DEF Run, Pc
<1> HIDE DEF go
<1>3. PICK new \in Run : Update(g, e, new) /\ new.pc \in {"returning", "throwing"}
  <2>1. Thrown(r).pc = "throwing"
    BY <1>0, <1>1, ThrownRun
  <2>2. QED
    BY <1>1, <1>2, <2>1, Replied
<1>4. /\ runs' \in [Generation -> [Epoch -> Run]] /\ runs'[g][e] = new /\ Elsewhere(g, e)
  BY <1>0, <1>3, RunUpdated
<1>5. NoNewStart(g, e) /\ RunInv(g, e)'
  BY <1>3, <1>4 DEF NoNewStart, RunInv, Working
<1>6. \A h \in Generation : LedgerInv(h)'
  BY <1>1, <1>4, <1>5, LedgerKept DEF NormalizationInv
<1>7. CASE UNCHANGED <<candidate, decision>>
  <2>1. HolderInv(g, e)'
    BY <1>1, <1>3, <1>4 DEF HolderInv
  <2>2. QED
    BY <1>1, <1>3, <1>5, <1>7, <2>1, OnlyRun
<1>8. CASE /\ candidate = [state |-> "AI Screening", generation |-> g]
           /\ candidate' = [candidate EXCEPT !.state = "Decided"]
           /\ decision' = [decision EXCEPT ![g] = analyses[g].winner]
  <2>1. candidate' = [state |-> "Decided", generation |-> g]
    BY <1>8
  <2>2. /\ decision' \in [Generation -> Attempt] /\ decision'[g] = analyses[g].winner
        /\ \A h \in Generation \ {g} : decision'[h] = decision[h]
    BY <1>0, <1>8
  <2>3. TypeOK'
    BY <1>0, <1>1, <1>4, <2>1, <2>2 DEF TypeOK
  <2>4. \A h \in Generation : AnswerInv(h)'
    BY <1>1, <1>8, <2>1 DEF NormalizationInv, AnswerInv, Answer
  <2>5. \A h \in Generation : OwnerInv(h)'
    BY <1>1, <1>8, <2>1, <2>2 DEF NormalizationInv, OwnerInv
  <2>6. \A h \in Generation, d \in Epoch : HolderInv(h, d)'
    <3>1. candidate'.state # "Waiting"
      BY <2>1
    <3>2. HolderInv(g, e)'
      BY <1>3, <1>4, <3>1 DEF HolderInv
    <3>3. \A h \in Generation, d \in Epoch : JobHeld(h, d)' => JobHeld(h, d)
      BY <1>1 DEF JobHeld
    <3>4. QED
      BY <1>1, <1>4, <3>1, <3>2, <3>3, HoldersKept DEF NormalizationInv, LedgerInv
  <2>7. QED
    BY <1>6, <2>3, <2>4, <2>5, <2>6 DEF NormalizationInv
<1>9. CASE /\ candidate = [state |-> "AI Screening", generation |-> g]
           /\ decision' = decision
           /\ \A n \in DOMAIN ledger[g] : ledger[g][n].outcome \notin {"none", "success"}
           /\ candidate' = [candidate EXCEPT !.state = "Waiting"]
  <2>1. candidate' = [state |-> "Waiting", generation |-> g]
    BY <1>9
  <2>2. TypeOK'
    BY <1>0, <1>1, <1>4, <1>9, <2>1 DEF TypeOK
  <2>3. ASSUME NEW h \in Generation
        PROVE  analyses[h].pending = 0 /\ analyses[h].winner = 0
    <3>1. CASE h = g
      BY <1>0, <1>9, <3>1 DEF AnswerInv, Answer
    <3>2. CASE h # g
      BY <1>9, <3>2 DEF NormalizationInv, AnswerInv
    <3>3. QED
      BY <3>1, <3>2
  <2>4. \A h \in Generation : AnswerInv(h)'
    BY <1>1, <2>3 DEF NormalizationInv, AnswerInv, Answer
  <2>5. \A h \in Generation : OwnerInv(h)'
    BY <1>1, <1>9, <2>1 DEF NormalizationInv, OwnerInv
  <2>6. ASSUME NEW h \in Generation, NEW d \in Epoch, JobHeld(h, d)'
        PROVE  HolderInv(h, d)'
    <3>1. JobHeld(h, d)
      BY <1>1, <2>6 DEF JobHeld
    <3>2. h = g
      <4>1. jobs[h].status = "running"
        BY <3>1 DEF JobHeld
      <4>2. QED
        BY <1>9, <4>1 DEF NormalizationInv, OwnerInv
    <3>3. d = e
      BY <1>1, <3>1, <3>2 DEF JobHeld
    <3>4. QED
      BY <1>3, <1>4, <3>2, <3>3 DEF HolderInv
  <2>7. \A h \in Generation, d \in Epoch : HolderInv(h, d)'
    BY <2>6 DEF HolderInv
  <2>8. QED
    BY <1>6, <2>2, <2>4, <2>5, <2>7 DEF NormalizationInv
<1>10. QED
  BY <1>7, <1>8, <1>9 DEF Decide, Defer

LEMMA NormalizationStep ==
    ASSUME NormalizationInv, [Next]_vars
    PROVE  NormalizationInv'
<1>1. CASE EnqueueInitial \/ Rearm
  BY <1>1, QueueStep
<1>2. ASSUME NEW g \in Generation, Take(g) \/ Terminalize(g) \/ JobLeaseExpires(g)
      PROVE  NormalizationInv'
  BY <1>2, QueueStep
<1>3. ASSUME NEW g \in Generation, AnalysisLeaseExpires(g)
      PROVE  NormalizationInv'
  BY <1>3, AnalysisLapses
<1>4. ASSUME NEW g \in Generation, NEW e \in Epoch, RunStep(g, e)
      PROVE  NormalizationInv'
  BY <1>4, QuietStep, ClaimStep, ReconcileStep, BeginStep, ExecuteStep, SucceedStep, FailStep,
     FinalizeStep, DecideStep DEF RunStep
<1>5. CASE UNCHANGED vars
  <2>1. UNCHANGED <<candidate, decision, jobs, analyses, ledger, runs, executed>>
    BY <1>5 DEF vars
  <2>2. TypeOK'
    BY <2>1 DEF NormalizationInv, TypeOK
  <2>3. ASSUME NEW g \in Generation
        PROVE  LedgerInv(g)'
    BY <2>1 DEF NormalizationInv, LedgerInv, OwnStart, ConsumedInv, RunInv, Working
  <2>4. ASSUME NEW g \in Generation
        PROVE  AnswerInv(g)' /\ OwnerInv(g)'
    BY <2>1 DEF NormalizationInv, AnswerInv, Answer, OwnerInv
  <2>5. ASSUME NEW g \in Generation, NEW e \in Epoch
        PROVE  HolderInv(g, e)'
    BY <2>1 DEF NormalizationInv, HolderInv, JobHeld
  <2>6. QED
    BY <2>2, <2>3, <2>4, <2>5 DEF NormalizationInv
<1>6. QED
  BY <1>1, <1>2, <1>3, <1>4, <1>5 DEF Next

LEMMA NormalizationInvariant == Spec => []NormalizationInv
<1>1. Init => NormalizationInv
  BY NormalizationStarts
<1>2. NormalizationInv /\ [Next]_vars => NormalizationInv'
  BY NormalizationStep
<1>3. QED
  BY <1>1, <1>2, PTL DEF Spec

-----------------------------------------------------------------------------
(***************************************************************************)
(* What it implies                                                         *)
(***************************************************************************)

\* A consumed start is not one that a provider is started again after.
LEMMA ConsumedOnce ==
    ASSUME NormalizationInv, NEW g \in Generation,
           NEW m \in ExecutedOf(g), NEW n \in ExecutedOf(g),
           ledger[g][m].provider = ledger[g][n].provider
    PROVE  m = n
<1>1. /\ m \in DOMAIN ledger[g] /\ n \in DOMAIN ledger[g] /\ m \in Nat /\ n \in Nat
      /\ <<g, m>> \in executed /\ <<g, n>> \in executed
  <2>1. /\ m \in DOMAIN ledger[g] /\ n \in DOMAIN ledger[g]
        /\ <<g, m>> \in executed /\ <<g, n>> \in executed
    BY DEF ExecutedOf
  <2>2. DOMAIN ledger[g] = 1..Len(ledger[g]) /\ Len(ledger[g]) \in Nat
    <3>1. ledger[g] \in Seq(Start)
      BY DEF NormalizationInv, TypeOK
    <3>2. QED
      BY <3>1
  <2>3. QED
    BY <2>1, <2>2
<1>2. ledger[g][m].outcome # "notConsumed" /\ ledger[g][n].outcome # "notConsumed"
  BY <1>1 DEF NormalizationInv, LedgerInv, ConsumedInv
<1>3. Orderly(ledger[g])
  BY DEF NormalizationInv, LedgerInv
<1>4. ~(m < n) /\ ~(n < m)
  BY <1>1, <1>2, <1>3 DEF Orderly
<1>5. QED
  BY <1>1, <1>4

LEMMA NormalizationImplies ==
    ASSUME NormalizationInv
    PROVE  TypeOK /\ ExecutedOnce /\ DecidedByWinner /\ AnswerKept
<1>1. TypeOK
  BY DEF NormalizationInv
<1>2. ASSUME NEW g \in Generation
      PROVE  Cardinality(ExecutedOf(g)) <= ProviderLimit
  <2> DEFINE f == [n \in ExecutedOf(g) |-> ledger[g][n].provider]
             S == Started(ledger[g])
  <2>1. ledger[g] \in Seq(Start)
    BY <1>1 DEF TypeOK
  <2>2. IsFiniteSet(S) /\ Cardinality(S) \in Nat
    BY <2>1, StartedFinite
  <2>3. f \in Injection(ExecutedOf(g), S)
    <3>1. f \in [ExecutedOf(g) -> S]
      BY DEF ExecutedOf, Started
    <3>2. \A m, n \in ExecutedOf(g) : f[m] = f[n] => m = n
      BY ConsumedOnce
    <3>3. QED
      BY <3>1, <3>2 DEF Injection, IsInjective
  <2> HIDE DEF f, S
  <2>4. IsFiniteSet(ExecutedOf(g)) /\ Cardinality(ExecutedOf(g)) <= Cardinality(S)
    BY <2>2, <2>3, FS_Injection
  <2>5. Cardinality(ExecutedOf(g)) \in Nat
    BY <2>4, FS_CardinalityType
  <2>6. Cardinality(S) <= ProviderLimit
    BY DEF NormalizationInv, LedgerInv, Orderly, S
  <2>7. QED
    BY <2>2, <2>4, <2>5, <2>6, NormalizationAssumption
<1>3. ExecutedOnce
  BY <1>2, ConsumedOnce DEF ExecutedOnce
<1>4. ASSUME NEW g \in Generation
      PROVE  Cardinality({n \in DOMAIN ledger[g] : ledger[g][n].outcome = "success"}) <= 1
  <2> DEFINE S == {n \in DOMAIN ledger[g] : ledger[g][n].outcome = "success"}
  <2>1. AnswerInv(g) /\ DOMAIN ledger[g] = 1..Len(ledger[g])
    <3>1. ledger[g] \in Seq(Start)
      BY <1>1 DEF TypeOK
    <3>2. QED
      BY <3>1 DEF NormalizationInv
  <2>2. 0 \notin S
    BY <2>1
  <2>3. analyses[g].pending = 0 \/ analyses[g].winner = 0
    BY <2>1 DEF AnswerInv
  <2>4. S \subseteq {analyses[g].pending} \/ S \subseteq {analyses[g].winner}
    BY <2>1, <2>2, <2>3 DEF AnswerInv
  <2> HIDE DEF S
  <2>5. \A n : IsFiniteSet({n}) /\ Cardinality({n}) = 1
    BY FS_Singleton
  <2>6. ASSUME NEW n, S \in SUBSET {n}
        PROVE  Cardinality(S) <= 1
    <3>1. IsFiniteSet({n}) /\ Cardinality({n}) = 1
      BY <2>5
    <3>2. Cardinality(S) <= Cardinality({n})
      BY <2>6, <3>1, FS_Subset
    <3>3. QED
      BY <3>1, <3>2
  <2>7. Cardinality(S) <= 1
    BY <2>4, <2>6
  <2>8. QED
    BY <2>7 DEF S
<1>5. DecidedByWinner
  <2>1. ASSUME NEW g \in Generation
        PROVE  /\ jobs[g].status \in {"queued", "running"} => g = candidate.generation
               /\ decision[g] # 0 => /\ decision[g] = analyses[g].winner
                                     /\ candidate = [state |-> "Decided", generation |-> g]
               /\ analyses[g].winner # 0 =>
                    /\ ledger[g][analyses[g].winner].outcome = "success"
                    /\ <<g, analyses[g].winner>> \in executed
    BY DEF NormalizationInv, OwnerInv, AnswerInv, Answer
  <2>2. QED
    BY <1>4, <2>1 DEF DecidedByWinner
<1>6. AnswerKept
  BY DEF NormalizationInv, AnswerInv, HolderInv, AnswerKept
<1>7. QED
  BY <1>1, <1>3, <1>5, <1>6

\* A step leaves an outcome on record as it is.
LEMMA OutcomeStays ==
    ASSUME TypeOK, [Next]_vars, NEW g \in Generation, NEW n \in DOMAIN ledger[g],
           ledger[g][n].outcome # "none"
    PROVE  ledger'[g][n] = ledger[g][n]
<1>0. /\ ledger \in [Generation -> Seq(Start)]
      /\ \A h \in Generation : ledger[h] \in Seq(Start)
  BY DEF TypeOK
<1>1. CASE ledger' = ledger
  BY <1>1
<1>2. ASSUME NEW h \in Generation, NEW e \in Epoch, Reconcile(h, e)
      PROVE  ledger'[g][n] = ledger[g][n]
  <2>1. ledger' = [ledger EXCEPT ![h] = Reconciled(ledger[h])]
    BY <1>2 DEF Reconcile
  <2>2. Reconciled(ledger[g])[n] = ledger[g][n]
    BY DEF Reconciled
  <2>3. QED
    BY <1>0, <2>1, <2>2
<1>3. ASSUME NEW h \in Generation, NEW e \in Epoch, Begin(h, e)
      PROVE  ledger'[g][n] = ledger[g][n]
  <2> DEFINE start == [provider |-> runs[h][e].provider, outcome |-> "none"]
             K == Append(ledger[h], start)
  <2>1. ledger' = [ledger EXCEPT ![h] = K]
    BY <1>3 DEF Begin
  <2> HIDE DEF start
  <2>2. \A m \in DOMAIN ledger[h] : K[m] = ledger[h][m]
    <3>1. ledger[h] \in Seq(Start)
      BY <1>0
    <3>2. QED
      BY <3>1
  <2> HIDE DEF K
  <2>3. QED
    BY <1>0, <2>1, <2>2
<1>4. ASSUME NEW h \in Generation, NEW e \in Epoch, Succeed(h, e) \/ Fail(h, e)
      PROVE  ledger'[g][n] = ledger[g][n]
  <2> DEFINE k == runs[h][e].attempt
  <2>1. PICK o : RecordOutcome(h, k, o) /\ ledger[h][k].outcome = "none"
    BY <1>4 DEF Succeed, Fail, Appendable
  <2> HIDE DEF k
  <2>2. g # h \/ n # k
    BY <2>1
  <2>3. QED
    BY <1>0, <2>1, <2>2 DEF RecordOutcome
<1>5. QED
  <2>1. ASSUME NEW h \in Generation, NEW e \in Epoch, RunStep(h, e)
        PROVE  ledger'[g][n] = ledger[g][n]
    <3>1. CASE Reconcile(h, e) \/ Begin(h, e) \/ Succeed(h, e) \/ Fail(h, e)
      BY <1>2, <1>3, <1>4, <3>1
    <3>2. CASE ~(Reconcile(h, e) \/ Begin(h, e) \/ Succeed(h, e) \/ Fail(h, e))
      BY <1>1, <2>1, <3>2
         DEF RunStep, Load, ClaimAnalysis, Reclaim, Route, Execute, FinalizeAnalysis, Decide,
             Defer, CallFails, End, Drop
    <3>3. QED
      BY <3>1, <3>2
  <2>2. CASE \A h \in Generation, e \in Epoch : ~RunStep(h, e)
    BY <1>1, <2>2 DEF Next, vars, EnqueueInitial, Rearm, Take, Terminalize, JobLeaseExpires,
                      AnalysisLeaseExpires
  <2>3. QED
    BY <2>1, <2>2

-----------------------------------------------------------------------------
\* For any providers, limits, attempts and rearms: what is stored of the
\* candidate, its jobs, analyses and ledgers stays of the type of its columns.
THEOREM TypesStay == Spec => []TypeOK
<1>1. NormalizationInv => TypeOK
  BY NormalizationImplies
<1>2. QED
  BY <1>1, NormalizationInvariant, PTL

\* For any providers, limits, attempts and rearms: one analysis consumes no
\* provider twice and at most ProviderLimit of them, whatever crashes, lost
\* replies and overlapping attempts there are.
THEOREM ExecutedOnlyOnce == Spec => []ExecutedOnce
<1>1. NormalizationInv => ExecutedOnce
  BY NormalizationImplies
<1>2. QED
  BY <1>1, NormalizationInvariant, PTL

\* For any providers, limits, attempts and rearms: only the current generation
\* is at work, and what is decided is decided in it by the one answer on record.
THEOREM WinnerDecides == Spec => []DecidedByWinner
<1>1. NormalizationInv => DecidedByWinner
  BY NormalizationImplies
<1>2. QED
  BY <1>1, NormalizationInvariant, PTL

\* For any providers, limits, attempts and rearms: the candidate is not deferred
\* past a recorded answer, and the attempt that holds the job does not try to.
THEOREM AnswersStay == Spec => []AnswerKept
<1>1. NormalizationInv => AnswerKept
  BY NormalizationImplies
<1>2. QED
  BY <1>1, NormalizationInvariant, PTL

\* For any providers, limits, attempts and rearms: no step changes the outcome
\* of an attempt, once there is one.
THEOREM OutcomesAreFinal == Spec => OutcomeFinal
<1>1. NormalizationInv /\ [Next]_vars =>
        [\A g \in Generation : \A n \in DOMAIN ledger[g] :
           ledger[g][n].outcome # "none" => ledger'[g][n] = ledger[g][n]]_vars
  BY OutcomeStays, NormalizationImplies
<1>2. QED
  BY <1>1, NormalizationInvariant, PTL DEF Spec, OutcomeFinal


-----------------------------------------------------------------------------
(***************************************************************************)
(* The abstract specifications it implements                               *)
(***************************************************************************)

\* A generation that has not begun has no job and nobody at work on it; a decided
\* candidate has the decision of its generation.
BegunInv ==
    /\ \A g \in Generation : g > candidate.generation =>
         jobs[g].status = "absent" /\ \A e \in Epoch : runs[g][e].pc = "idle"
    /\ candidate.state = "Decided" => decision[candidate.generation] # 0

LEMMA Shapes ==
    ASSUME TypeOK
    PROVE  /\ candidate.generation \in Generation
           /\ jobs \in [Generation -> JobRow] /\ analyses \in [Generation -> AnalysisRow]
           /\ runs \in [Generation -> [Epoch -> Run]]
           /\ decision \in [Generation -> Nat] /\ ledger \in [Generation -> Seq(Start)]
BY DEF TypeOK, JobRow, AnalysisRow, Attempt

\* Who steps is at work, moves no other run, and leaves the generation as it is.
LEMMA RunMoves ==
    ASSUME TypeOK, NEW g \in Generation, NEW e \in Epoch, RunStep(g, e)
    PROVE  /\ runs[g][e].pc # "idle" /\ Elsewhere(g, e)
           /\ candidate'.generation = candidate.generation
<1>1. runs[g][e].pc # "idle"
  BY DEF RunStep, Load, ClaimAnalysis, Reclaim, Reconcile, Route, Begin, Execute, Succeed, Fail,
         FinalizeAnalysis, Decide, Defer, CallFails, End, Drop
<1>2. \E new : Update(g, e, new)
  <2>1. CASE End(g, e) \/ Drop(g, e)
    BY <2>1 DEF End, Drop, Update
  <2>2. CASE ~(End(g, e) \/ Drop(g, e))
    BY <2>2 DEF RunStep, Load, ClaimAnalysis, Reclaim, Reconcile, Route, Begin, Execute, Succeed,
                Fail, FinalizeAnalysis, Decide, Defer, CallFails, Reply
  <2>3. QED
    BY <2>1, <2>2
<1>3. Elsewhere(g, e)
  BY <1>2, Shapes DEF Update, Elsewhere
<1>4. candidate'.generation = candidate.generation
  <2>1. CASE Decide(g, e) \/ Defer(g, e)
    BY <2>1 DEF Decide, Defer, TypeOK
  <2>2. CASE ~(Decide(g, e) \/ Defer(g, e))
    BY <2>2 DEF RunStep, Load, ClaimAnalysis, Reclaim, Reconcile, Route, Begin, Execute, Succeed,
                Fail, FinalizeAnalysis, CallFails, End, Drop
  <2>3. QED
    BY <2>1, <2>2
<1>5. QED
  BY <1>1, <1>3, <1>4

LEMMA BegunStep ==
    ASSUME NormalizationInv, BegunInv, [Next]_vars
    PROVE  BegunInv'
<1>0. /\ TypeOK /\ Generation \subseteq Nat /\ candidate.generation \in Generation
      /\ jobs \in [Generation -> JobRow] /\ runs \in [Generation -> [Epoch -> Run]]
      /\ decision \in [Generation -> Nat]
      /\ \A g \in Generation : OwnerInv(g) /\ AnswerInv(g)
  BY NormalizationAssumption, Shapes DEF NormalizationInv, Generation
<1>1. CASE UNCHANGED vars
  BY <1>1 DEF vars, BegunInv
<1>2. CASE EnqueueInitial
  <2>1. jobs' = [jobs EXCEPT ![candidate.generation].status = "queued"]
    BY <1>2 DEF EnqueueInitial
  <2>2. \A h \in Generation : h > candidate.generation => jobs'[h] = jobs[h]
    BY <1>0, <2>1
  <2>3. QED
    BY <1>2, <2>2 DEF EnqueueInitial, BegunInv
<1>3. CASE Rearm
  <2>1. /\ jobs' = [jobs EXCEPT ![candidate.generation + 1].status = "queued"]
        /\ candidate'.generation = candidate.generation + 1
        /\ candidate'.state = "Waiting" /\ UNCHANGED runs
    BY <1>0, <1>3 DEF Rearm, Rearmable, TypeOK
  <2>2. \A h \in Generation : h > candidate.generation + 1 =>
          h > candidate.generation /\ jobs'[h] = jobs[h]
    BY <1>0, <2>1
  <2>3. QED
    BY <2>1, <2>2 DEF BegunInv
<1>4. ASSUME NEW g \in Generation, Take(g) \/ Terminalize(g)
      PROVE  BegunInv'
  <2>1. g = candidate.generation
    BY <1>0, <1>4 DEF Take, Takeable, Terminalize, OwnerInv
  <2>2. \A h \in Generation : h > g => jobs'[h] = jobs[h] /\ runs'[h] = runs[h]
    BY <1>0, <1>4 DEF Take, Terminalize
  <2>3. UNCHANGED <<candidate, decision>>
    BY <1>4 DEF Take, Terminalize
  <2>4. QED
    BY <2>1, <2>2, <2>3 DEF BegunInv
<1>5. ASSUME NEW g \in Generation, JobLeaseExpires(g) \/ AnalysisLeaseExpires(g)
      PROVE  BegunInv'
  <2>1. \A h \in Generation : jobs'[h].status = jobs[h].status
    BY <1>0, <1>5 DEF JobLeaseExpires, AnalysisLeaseExpires, JobRow
  <2>2. QED
    BY <1>5, <2>1 DEF BegunInv, JobLeaseExpires, AnalysisLeaseExpires
<1>6. ASSUME NEW g \in Generation, NEW e \in Epoch, RunStep(g, e)
      PROVE  BegunInv'
  <2>1. /\ runs[g][e].pc # "idle" /\ Elsewhere(g, e)
        /\ candidate'.generation = candidate.generation
    BY <1>0, <1>6, RunMoves
  <2>2. ~(g > candidate.generation)
    BY <2>1 DEF BegunInv
  <2>3. ASSUME NEW h \in Generation, h > candidate.generation
        PROVE  jobs'[h] = jobs[h] /\ \A d \in Epoch : runs'[h][d] = runs[h][d]
    <3>1. h # g
      BY <2>2, <2>3
    <3>2. jobs'[h] = jobs[h]
      <4>1. CASE End(g, e)
        BY <1>0, <3>1, <4>1 DEF End
      <4>2. CASE ~End(g, e)
        BY <1>6, <4>2 DEF RunStep, Load, ClaimAnalysis, Reclaim, Reconcile, Route, Begin, Execute,
                          Succeed, Fail, FinalizeAnalysis, Decide, Defer, CallFails, Drop
      <4>3. QED
        BY <4>1, <4>2
    <3>3. QED
      BY <2>1, <3>1, <3>2 DEF Elsewhere
  <2>4. candidate'.state = "Decided" => decision'[candidate.generation] # 0
    <3>1. CASE UNCHANGED <<candidate, decision>>
      BY <3>1 DEF BegunInv
    <3>2. CASE Decide(g, e) /\ ~UNCHANGED <<candidate, decision>>
      <4>0. PICK state : /\ candidate = [state |-> state, generation |-> g]
                         /\ decision' = [decision EXCEPT ![g] = analyses[g].winner]
                         /\ analyses[g].status = "completed"
        BY <3>2, Zenon DEF Decide, AnalysisHeld
      <4>1. /\ candidate.generation = g /\ decision' = [decision EXCEPT ![g] = analyses[g].winner]
            /\ analyses[g].status = "completed"
        BY <4>0
      <4>2. analyses[g].winner # 0
        BY <1>0, <4>1 DEF AnswerInv
      <4>3. QED
        BY <1>0, <4>1, <4>2
    <3>3. CASE Defer(g, e) /\ ~UNCHANGED <<candidate, decision>>
      BY <1>0, <3>3 DEF Defer, TypeOK
    <3>4. UNCHANGED <<candidate, decision>> \/ Decide(g, e) \/ Defer(g, e)
      BY <1>6 DEF RunStep, Load, ClaimAnalysis, Reclaim, Reconcile, Route, Begin, Execute,
                  Succeed, Fail, FinalizeAnalysis, CallFails, End, Drop
    <3>5. QED
      BY <3>1, <3>2, <3>3, <3>4
  <2>5. QED
    BY <2>1, <2>3, <2>4 DEF BegunInv
<1>7. QED
  BY <1>1, <1>2, <1>3, <1>4, <1>5, <1>6 DEF Next

LEMMA BegunInvariant == Spec => []BegunInv
<1>1. Init => BegunInv
  <2> SUFFICES ASSUME Init PROVE BegunInv
    OBVIOUS
  <2>1. candidate.state # "Decided"
    BY Zenon DEF Init
  <2>2. \A g \in Generation : jobs[g].status = "absent" /\ \A e \in Epoch : runs[g][e] = NoRun
    BY Zenon DEF Init
  <2>3. QED
    BY <2>1, <2>2, NoRunTyped DEF BegunInv
<1>2. NormalizationInv /\ BegunInv /\ [Next]_vars => BegunInv'
  BY BegunStep
<1>3. QED
  BY <1>1, <1>2, NormalizationInvariant, PTL DEF Spec

-----------------------------------------------------------------------------
\* What becomes of the job of a generation.
LEMMA JobIsAdded ==
    ASSUME TypeOK, NEW g \in Generation, jobs[g].status = "absent",
           jobs' = [jobs EXCEPT ![g].status = "queued"]
    PROVE  Lifecycle!Add(g)
<1>1. jobs \in [Generation -> JobRow] /\ jobs[g] \in JobRow
  BY Shapes
<1>2. /\ jobs' \in [Generation -> JobRow]
      /\ \A h \in Generation \ {g} : jobs'[h] = jobs[h]
      /\ jobs'[g].status = "queued" /\ jobs'[g].epoch = jobs[g].epoch
  BY <1>1 DEF JobRow
<1>3. [h \in Generation |-> jobs'[h].status]
        = [[h \in Generation |-> jobs[h].status] EXCEPT ![g] = "queued"]
  BY <1>2
<1>4. [h \in Generation |-> jobs'[h].epoch] = [h \in Generation |-> jobs[h].epoch]
  BY <1>2
<1>5. QED
  BY <1>3, <1>4 DEF Lifecycle!Add

LEMMA JobOffered ==
    ASSUME NormalizationInv, BegunInv, EnqueueInitial \/ Rearm
    PROVE  \E g \in Generation : Lifecycle!Add(g)
<1>0. TypeOK /\ candidate.generation \in Generation /\ MaxGeneration \in Nat
  BY NormalizationAssumption, Shapes DEF NormalizationInv
<1>1. CASE EnqueueInitial
  BY <1>0, <1>1, JobIsAdded DEF EnqueueInitial
<1>2. CASE Rearm
  <2>1. candidate.generation + 1 \in Generation /\ candidate.generation + 1 > candidate.generation
    BY <1>0, <1>2 DEF Rearm, Generation
  <2>2. jobs[candidate.generation + 1].status = "absent"
    BY <2>1 DEF BegunInv
  <2>3. jobs' = [jobs EXCEPT ![candidate.generation + 1].status = "queued"]
    BY <1>2 DEF Rearm
  <2>4. QED
    BY <1>0, <2>1, <2>2, <2>3, JobIsAdded
<1>3. QED
  BY <1>1, <1>2

LEMMA JobIsTaken ==
    ASSUME TypeOK, NEW g \in Generation, Take(g) \/ Terminalize(g)
    PROVE  Lifecycle!Take({g}) \/ Lifecycle!GiveUp({g})
<1>0. jobs \in [Generation -> JobRow] /\ jobs[g] \in JobRow
  BY Shapes
<1>1. CASE Take(g)
  BY <1>0, <1>1 DEF Take, Takeable, Lifecycle!Take, JobRow
<1>2. CASE Terminalize(g)
  BY <1>0, <1>2 DEF Terminalize, Lifecycle!GiveUp, JobRow
<1>3. QED
  BY <1>1, <1>2

LEMMA JobIsSettled ==
    ASSUME TypeOK, NEW g \in Generation, NEW e \in Epoch, End(g, e)
    PROVE  \/ Lifecycle!PutBack(g) \/ Lifecycle!Finish(g) \/ Lifecycle!GiveUp({g})
           \/ UNCHANGED Lifecycle!vars
<1> DEFINE settled(status) == [jobs EXCEPT ![g] = [status |-> status, epoch |-> e, live |-> FALSE]]
<1>0. /\ jobs \in [Generation -> JobRow] /\ jobs[g] \in JobRow
      /\ MaxAttempts \in Nat /\ e \in 1..MaxAttempts
  BY NormalizationAssumption, Shapes DEF Epoch
<1>1. CASE ~JobHeld(g, e)
  BY <1>1 DEF End, Lifecycle!vars
<1>2. CASE JobHeld(g, e)
  <2>1. jobs[g].status = "running" /\ jobs[g].epoch = e /\ jobs' = settled(EndStatus(g, e))
    BY <1>2 DEF JobHeld, End
  <2>2. CASE EndStatus(g, e) = "completed"
    BY <1>0, <2>1, <2>2 DEF Lifecycle!Finish, JobRow
  <2>3. CASE EndStatus(g, e) = "queued" /\ e # MaxAttempts
    <3>1. jobs[g].epoch < MaxAttempts
      BY <1>0, <2>1, <2>3
    <3>2. QED
      BY <1>0, <2>1, <2>3, <3>1 DEF Lifecycle!PutBack, JobRow
  <2>4. CASE EndStatus(g, e) = "failed" /\ e = MaxAttempts
    BY <1>0, <2>1, <2>4 DEF Lifecycle!GiveUp, JobRow
  <2>5. QED
    BY <2>2, <2>3, <2>4 DEF EndStatus
<1>3. QED
  BY <1>1, <1>2

\* For any providers, limits, attempts and rearms: the jobs of the generations are
\* jobs as the queue promises them; the fences here assume no more of it.
THEOREM JobRefinement == Spec => ImplementsLifecycle
<1>1. Init => Lifecycle!Init
  <2> SUFFICES ASSUME Init PROVE Lifecycle!Init
    OBVIOUS
  <2>1. jobs = [g \in Generation |-> [status |-> "absent", epoch |-> 0, live |-> FALSE]]
    BY DEF Init
  <2>2. QED
    BY <2>1 DEF Lifecycle!Init
<1>2. NormalizationInv /\ BegunInv /\ [Next]_vars => [Lifecycle!Next]_(Lifecycle!vars)
  <2> SUFFICES ASSUME NormalizationInv, BegunInv, [Next]_vars
               PROVE  Lifecycle!Next \/ UNCHANGED Lifecycle!vars
    OBVIOUS
  <2>0. TypeOK
    BY DEF NormalizationInv
  <2>1. CASE EnqueueInitial \/ Rearm
    BY <2>1, JobOffered DEF Lifecycle!Next
  <2>2. ASSUME NEW g \in Generation, Take(g) \/ Terminalize(g)
        PROVE  Lifecycle!Next
    <3>1. {g} \in SUBSET Generation
      OBVIOUS
    <3>2. QED
      BY <2>0, <2>2, <3>1, JobIsTaken DEF Lifecycle!Next
  <2>3. ASSUME NEW g \in Generation, NEW e \in Epoch, End(g, e)
        PROVE  Lifecycle!Next \/ UNCHANGED Lifecycle!vars
    <3>1. {g} \in SUBSET Generation
      OBVIOUS
    <3>2. QED
      BY <2>0, <2>3, <3>1, JobIsSettled DEF Lifecycle!Next
  <2>4. ASSUME NEW g \in Generation, JobLeaseExpires(g)
        PROVE  UNCHANGED Lifecycle!vars
    BY <2>0, <2>4, Shapes DEF JobLeaseExpires, Lifecycle!vars, JobRow
  <2>5. CASE UNCHANGED jobs
    BY <2>5 DEF Lifecycle!vars
  <2>6. ASSUME NEW g \in Generation, NEW e \in Epoch, RunStep(g, e)
        PROVE  UNCHANGED jobs \/ End(g, e)
    BY <2>6 DEF RunStep, Load, ClaimAnalysis, Reclaim, Reconcile, Route, Begin, Execute,
                Succeed, Fail, FinalizeAnalysis, Decide, Defer, CallFails, Drop
  <2>7. UNCHANGED vars \/ (\E g \in Generation : AnalysisLeaseExpires(g)) => UNCHANGED jobs
    BY DEF vars, AnalysisLeaseExpires
  <2>8. QED
    BY <2>1, <2>2, <2>3, <2>4, <2>5, <2>6, <2>7 DEF Next
<1>3. QED
  BY <1>1, <1>2, NormalizationInvariant, BegunInvariant, PTL
     DEF Spec, ImplementsLifecycle, Lifecycle!Spec


-----------------------------------------------------------------------------
\* What is seen of a generation from outside.
ConsumedIn(h) == ProvidersOf(h, ExecutedOf(h))
AnsweredBy(h) == ProvidersOf(h, {analyses[h].pending, analyses[h].winner})
DecidedBy(h) == ProvidersOf(h, {decision[h]})

\* Whatever names a start names one on record.
LEMMA KnownStarts ==
    ASSUME NormalizationInv, NEW h \in Generation
    PROVE  /\ 0 \notin DOMAIN ledger[h]
           /\ \A n : <<h, n>> \in executed => n \in DOMAIN ledger[h]
           /\ analyses[h].pending # 0 => /\ analyses[h].pending \in DOMAIN ledger[h]
                                         /\ analyses[h].status = "pending"
           /\ analyses[h].winner # 0 <=> analyses[h].status = "completed"
           /\ analyses[h].winner # 0 => analyses[h].winner \in DOMAIN ledger[h]
           /\ decision[h] # 0 => decision[h] = analyses[h].winner
<1>1. TypeOK /\ AnswerInv(h) /\ OwnerInv(h) /\ ConsumedInv(h)
  BY DEF NormalizationInv, LedgerInv
<1>2. 0 \notin DOMAIN ledger[h]
  <2>1. ledger[h] \in Seq(Start)
    BY <1>1, Shapes
  <2>2. QED
    BY <2>1
<1>3. ASSUME NEW n, <<h, n>> \in executed
      PROVE  n \in DOMAIN ledger[h]
  <2>1. executed \subseteq (Generation \X Nat)
    BY <1>1 DEF TypeOK, Attempt
  <2>2. n \in Nat
    BY <1>3, <2>1
  <2>3. QED
    BY <1>1, <1>3, <2>2 DEF ConsumedInv
<1>4. QED
  BY <1>1, <1>2, <1>3 DEF AnswerInv, OwnerInv, Answer

\* No step takes a start from the record, or puts it down to another provider.
LEMMA ProvidersStay ==
    ASSUME TypeOK, [Next]_vars, NEW h \in Generation
    PROVE  /\ DOMAIN ledger[h] \subseteq DOMAIN ledger'[h]
           /\ \A n \in DOMAIN ledger[h] : ledger'[h][n].provider = ledger[h][n].provider
<1>0. ledger \in [Generation -> Seq(Start)] /\ \A g \in Generation : ledger[g] \in Seq(Start)
  BY Shapes
<1>1. CASE ledger' = ledger
  BY <1>1
<1>2. ASSUME NEW g \in Generation, NEW e \in Epoch, Reconcile(g, e)
      PROVE  /\ DOMAIN ledger[h] \subseteq DOMAIN ledger'[h]
             /\ \A n \in DOMAIN ledger[h] : ledger'[h][n].provider = ledger[h][n].provider
  <2>1. ledger' = [ledger EXCEPT ![g] = Reconciled(ledger[g])]
    BY <1>2 DEF Reconcile
  <2>2. /\ DOMAIN Reconciled(ledger[g]) = DOMAIN ledger[g]
        /\ \A n \in DOMAIN ledger[g] : Reconciled(ledger[g])[n].provider = ledger[g][n].provider
    <3>1. \A n \in DOMAIN ledger[g] : ledger[g][n] \in Start
      BY <1>0
    <3>2. \A n \in DOMAIN ledger[g] :
            [ledger[g][n] EXCEPT !.outcome = "unknown"].provider = ledger[g][n].provider
      BY <3>1 DEF Start
    <3>3. QED
      BY <3>2 DEF Reconciled
  <2>3. QED
    BY <1>0, <2>1, <2>2
<1>3. ASSUME NEW g \in Generation, NEW e \in Epoch, Begin(g, e)
      PROVE  /\ DOMAIN ledger[h] \subseteq DOMAIN ledger'[h]
             /\ \A n \in DOMAIN ledger[h] : ledger'[h][n].provider = ledger[h][n].provider
  <2> DEFINE start == [provider |-> runs[g][e].provider, outcome |-> "none"]
             K == Append(ledger[g], start)
  <2>1. ledger' = [ledger EXCEPT ![g] = K]
    BY <1>3 DEF Begin
  <2> HIDE DEF start
  <2>2. DOMAIN ledger[g] \subseteq DOMAIN K /\ \A n \in DOMAIN ledger[g] : K[n] = ledger[g][n]
    <3>1. ledger[g] \in Seq(Start)
      BY <1>0
    <3>2. QED
      BY <3>1
  <2> HIDE DEF K
  <2>3. QED
    BY <1>0, <2>1, <2>2
<1>4. ASSUME NEW g \in Generation, NEW e \in Epoch, Succeed(g, e) \/ Fail(g, e)
      PROVE  /\ DOMAIN ledger[h] \subseteq DOMAIN ledger'[h]
             /\ \A n \in DOMAIN ledger[h] : ledger'[h][n].provider = ledger[h][n].provider
  <2>1. PICK k, o : RecordOutcome(g, k, o)
    BY <1>4 DEF Succeed, Fail
  <2>2. DOMAIN ledger'[h] = DOMAIN ledger[h]
    BY <1>0, <2>1 DEF RecordOutcome
  <2>3. \A n \in DOMAIN ledger[h] : ledger[h][n] \in Start
    BY <1>0
  <2>4. \A n \in DOMAIN ledger[h] : ledger'[h][n].provider = ledger[h][n].provider
    BY <1>0, <2>1, <2>3 DEF RecordOutcome, Start
  <2>5. QED
    BY <2>2, <2>4
<1>5. QED
  <2>1. ASSUME NEW g \in Generation, NEW e \in Epoch, RunStep(g, e)
        PROVE  \/ Reconcile(g, e) \/ Begin(g, e) \/ Succeed(g, e) \/ Fail(g, e)
               \/ ledger' = ledger
    BY <2>1 DEF RunStep, Load, ClaimAnalysis, Reclaim, Route, Execute, FinalizeAnalysis, Decide,
                Defer, CallFails, End, Drop
  <2>2. CASE \A g \in Generation, e \in Epoch : ~RunStep(g, e)
    BY <1>1, <2>2 DEF Next, vars, EnqueueInitial, Rearm, Take, Terminalize, JobLeaseExpires,
                      AnalysisLeaseExpires
  <2>3. QED
    BY <1>1, <1>2, <1>3, <1>4, <2>1, <2>2

\* Of which providers the starts A are stays.
LEMMA ProvidersKept ==
    ASSUME NormalizationInv, NormalizationInv', [Next]_vars, NEW h \in Generation,
           NEW A, \A n \in A : n = 0 \/ n \in DOMAIN ledger[h]
    PROVE  {ledger'[h][n].provider : n \in A \cap DOMAIN ledger'[h]}
             = {ledger[h][n].provider : n \in A \cap DOMAIN ledger[h]}
<1>1. 0 \notin DOMAIN ledger[h] /\ 0 \notin DOMAIN ledger'[h]
  <2>1. ledger[h] \in Seq(Start) /\ ledger'[h] \in Seq(Start)
    BY DEF NormalizationInv, TypeOK
  <2>2. QED
    BY <2>1
<1>2. /\ DOMAIN ledger[h] \subseteq DOMAIN ledger'[h]
      /\ \A n \in DOMAIN ledger[h] : ledger'[h][n].provider = ledger[h][n].provider
  BY ProvidersStay DEF NormalizationInv
<1>3. A \cap DOMAIN ledger'[h] = A \cap DOMAIN ledger[h]
  BY <1>1, <1>2
<1>4. QED
  BY <1>2, <1>3

LEMMA ConsumedKept ==
    ASSUME NormalizationInv, NormalizationInv', [Next]_vars, NEW h \in Generation,
           \A n : <<h, n>> \in executed' <=> <<h, n>> \in executed
    PROVE  ConsumedIn(h)' = ConsumedIn(h)
<1> DEFINE A == {n \in DOMAIN ledger[h] : <<h, n>> \in executed}
<1>1. /\ \A n : <<h, n>> \in executed => n \in DOMAIN ledger[h]
      /\ \A n : <<h, n>> \in executed' => n \in DOMAIN ledger'[h]
  BY KnownStarts, ProvidersStay DEF NormalizationInv
<1>2. {n \in DOMAIN ledger'[h] : <<h, n>> \in executed'} = A
  BY <1>1
<1>3. \A n \in A : n = 0 \/ n \in DOMAIN ledger[h]
  OBVIOUS
<1> HIDE DEF A
<1>4. {ledger'[h][n].provider : n \in A \cap DOMAIN ledger'[h]}
        = {ledger[h][n].provider : n \in A \cap DOMAIN ledger[h]}
  BY <1>3, ProvidersKept
<1>5. ConsumedIn(h) = {ledger[h][n].provider : n \in A \cap DOMAIN ledger[h]}
  BY DEF ConsumedIn, ProvidersOf, ExecutedOf, A
<1>6. ConsumedIn(h)' = {ledger'[h][n].provider : n \in A \cap DOMAIN ledger'[h]}
  BY <1>2 DEF ConsumedIn, ProvidersOf, ExecutedOf
<1>7. QED
  BY <1>4, <1>5, <1>6

LEMMA AnsweredKept ==
    ASSUME NormalizationInv, NormalizationInv', [Next]_vars, NEW h \in Generation,
           {analyses'[h].pending, analyses'[h].winner} = {analyses[h].pending, analyses[h].winner}
    PROVE  AnsweredBy(h)' = AnsweredBy(h)
<1> DEFINE A == {analyses[h].pending, analyses[h].winner}
<1>1. \A n \in A : n = 0 \/ n \in DOMAIN ledger[h]
  BY KnownStarts
<1> HIDE DEF A
<1>2. {ledger'[h][n].provider : n \in A \cap DOMAIN ledger'[h]}
        = {ledger[h][n].provider : n \in A \cap DOMAIN ledger[h]}
  BY <1>1, ProvidersKept
<1>3. AnsweredBy(h) = {ledger[h][n].provider : n \in A \cap DOMAIN ledger[h]}
  BY DEF AnsweredBy, ProvidersOf, A
<1>4. {analyses'[h].pending, analyses'[h].winner} = A
  BY DEF A
<1>5. AnsweredBy(h)' = {ledger'[h][n].provider : n \in A \cap DOMAIN ledger'[h]}
  BY <1>4 DEF AnsweredBy, ProvidersOf
<1>6. QED
  BY <1>2, <1>3, <1>5

LEMMA DecidedKept ==
    ASSUME NormalizationInv, NormalizationInv', [Next]_vars, NEW h \in Generation,
           decision'[h] = decision[h]
    PROVE  DecidedBy(h)' = DecidedBy(h)
<1> DEFINE A == {decision[h]}
<1>1. \A n \in A : n = 0 \/ n \in DOMAIN ledger[h]
  BY KnownStarts
<1> HIDE DEF A
<1>2. {ledger'[h][n].provider : n \in A \cap DOMAIN ledger'[h]}
        = {ledger[h][n].provider : n \in A \cap DOMAIN ledger[h]}
  BY <1>1, ProvidersKept
<1>3. DecidedBy(h) = {ledger[h][n].provider : n \in A \cap DOMAIN ledger[h]}
  BY DEF DecidedBy, ProvidersOf, A
<1>4. {decision'[h]} = A
  BY DEF A
<1>5. DecidedBy(h)' = {ledger'[h][n].provider : n \in A \cap DOMAIN ledger'[h]}
  BY <1>4 DEF DecidedBy, ProvidersOf
<1>6. QED
  BY <1>2, <1>3, <1>5


\* Nothing of a candidate is to be seen from a step that only its runs notice.
LEMMA NothingSeen ==
    ASSUME NormalizationInv, NormalizationInv', [Next]_vars, UNCHANGED <<candidate, executed, decision>>,
           \A h \in Generation : {analyses'[h].pending, analyses'[h].winner}
                                   = {analyses[h].pending, analyses[h].winner}
    PROVE  UNCHANGED Screening!vars
<1>1. \A h \in Generation : ConsumedIn(h)' = ConsumedIn(h)
  BY ConsumedKept
<1>2. \A h \in Generation : AnsweredBy(h)' = AnsweredBy(h)
  BY AnsweredKept
<1>3. \A h \in Generation : DecidedBy(h)' = DecidedBy(h)
  BY DecidedKept
<1>4. [h \in Generation |-> ConsumedIn(h)'] = [h \in Generation |-> ConsumedIn(h)]
  BY <1>1
<1>5. [h \in Generation |-> AnsweredBy(h)'] = [h \in Generation |-> AnsweredBy(h)]
  BY <1>2
<1>6. [h \in Generation |-> DecidedBy(h)'] = [h \in Generation |-> DecidedBy(h)]
  BY <1>3
<1>7. QED
  BY <1>4, <1>5, <1>6 DEF Screening!vars, ConsumedIn, AnsweredBy, DecidedBy

\* A provider is called for the first time in a generation, and no more of them
\* than one analysis may consume.
LEMMA ExecuteConsumes ==
    ASSUME NormalizationInv, NormalizationInv', BegunInv, [Next]_vars,
           NEW g \in Generation, NEW e \in Epoch, Execute(g, e), executed' # executed
    PROVE  \E p \in Provider : Screening!Consume(g, p)
<1> DEFINE n == runs[g][e].attempt
           p == ledger[g][n].provider
<1>1. /\ runs[g][e].pc = "executing" /\ executed' = executed \cup {<<g, n>>}
      /\ UNCHANGED <<candidate, decision, jobs, analyses, ledger>>
  BY DEF Execute
<1>2. n \in DOMAIN ledger[g] /\ <<g, n>> \notin executed
  BY <1>1 DEF NormalizationInv, LedgerInv, RunInv, Working
<1>3. p \in Provider /\ Started(ledger[g]) \subseteq Provider /\ p \in Started(ledger[g])
      /\ IsFiniteSet(Started(ledger[g])) /\ Cardinality(Started(ledger[g])) \in Nat
  <2>1. ledger[g] \in Seq(Start)
    BY Shapes DEF NormalizationInv
  <2>2. QED
    BY <1>2, <2>1, StartedFinite DEF Started
<1>4. g <= candidate.generation
  <2>1. g \in Nat /\ candidate.generation \in Nat
    BY Shapes, NormalizationAssumption DEF NormalizationInv, Generation
  <2>2. ~(g > candidate.generation)
    BY <1>1 DEF BegunInv
  <2>3. QED
    BY <2>1, <2>2
<1>5. ConsumedIn(g) = {ledger[g][m].provider : m \in {k \in DOMAIN ledger[g] : <<g, k>> \in executed}}
  BY DEF ConsumedIn, ProvidersOf, ExecutedOf
<1>6. p \notin ConsumedIn(g)
  <2>1. SUFFICES ASSUME NEW m \in DOMAIN ledger[g], <<g, m>> \in executed, ledger[g][m].provider = p
                 PROVE  FALSE
    BY <1>5
  <2>2. m \in Nat /\ n \in Nat
    <3>1. ledger[g] \in Seq(Start)
      BY Shapes DEF NormalizationInv
    <3>2. QED
      BY <1>2, <3>1
  <2>3. Orderly(ledger[g]) /\ ConsumedInv(g)' /\ ConsumedInv(g) /\ <<g, n>> \in executed'
    BY <1>1 DEF NormalizationInv, LedgerInv
  <2>4. ledger[g][m].outcome # "notConsumed" /\ ledger[g][n].outcome # "notConsumed"
    BY <1>1, <2>1, <2>2, <2>3 DEF ConsumedInv
  <2>5. ~(m < n) /\ ~(n < m)
    BY <1>2, <2>1, <2>3, <2>4 DEF Orderly
  <2>6. m = n
    BY <2>2, <2>5
  <2>7. QED
    BY <1>2, <2>1, <2>6
<1>7. Cardinality(ConsumedIn(g)) < ProviderLimit
  <2> DEFINE S == ConsumedIn(g)
  <2>1. S \subseteq Started(ledger[g]) /\ S \cup {p} \subseteq Started(ledger[g])
    BY <1>3, <1>5 DEF Started
  <2>2. p \notin S
    BY <1>6
  <2> HIDE DEF S, p
  <2>3. IsFiniteSet(S) /\ IsFiniteSet(S \cup {p})
    BY <1>3, <2>1, FS_Subset
  <2>4. Cardinality(S \cup {p}) = Cardinality(S) + 1
    BY <2>2, <2>3, FS_AddElement
  <2>5. Cardinality(S \cup {p}) <= Cardinality(Started(ledger[g]))
    BY <1>3, <2>1, FS_Subset
  <2>6. Cardinality(S) \in Nat /\ Cardinality(Started(ledger[g])) <= ProviderLimit
    BY <2>3, FS_CardinalityType DEF NormalizationInv, LedgerInv, Orderly
  <2>7. Cardinality(S) < ProviderLimit
    BY <1>3, <2>4, <2>5, <2>6, NormalizationAssumption
  <2>8. QED
    BY <2>7 DEF S
<1>8. ConsumedIn(g)' = ConsumedIn(g) \cup {p}
  <2>1. ConsumedIn(g)' = {ledger[g][m].provider : m \in {k \in DOMAIN ledger[g] : <<g, k>> \in executed'}}
    BY <1>1 DEF ConsumedIn, ProvidersOf, ExecutedOf
  <2>2. {k \in DOMAIN ledger[g] : <<g, k>> \in executed'}
          = {k \in DOMAIN ledger[g] : <<g, k>> \in executed} \cup {n}
    BY <1>1, <1>2
  <2> HIDE DEF n
  <2>3. QED
    BY <1>5, <2>1, <2>2
<1>9. \A h \in Generation \ {g} : ConsumedIn(h)' = ConsumedIn(h)
  <2>1. ASSUME NEW h \in Generation \ {g}
        PROVE  \A m : <<h, m>> \in executed' <=> <<h, m>> \in executed
    BY <1>1
  <2>2. QED
    BY <2>1, ConsumedKept
<1>10. \A h \in Generation : AnsweredBy(h)' = AnsweredBy(h) /\ DecidedBy(h)' = DecidedBy(h)
  BY <1>1, AnsweredKept, DecidedKept
<1> HIDE DEF p
<1>11. [h \in Generation |-> ConsumedIn(h)']
         = [[h \in Generation |-> ConsumedIn(h)] EXCEPT ![g] = @ \cup {p}]
  BY <1>8, <1>9
<1>12. [h \in Generation |-> AnsweredBy(h)'] = [h \in Generation |-> AnsweredBy(h)]
  BY <1>10
<1>13. [h \in Generation |-> DecidedBy(h)'] = [h \in Generation |-> DecidedBy(h)]
  BY <1>10
<1>14. Screening!Consume(g, p)
  <2> DEFINE consumed == [h \in Generation |-> ProvidersOf(h, ExecutedOf(h))]
  <2>1. consumed[g] = ConsumedIn(g)
    BY DEF ConsumedIn
  <2>2. consumed' = [consumed EXCEPT ![g] = @ \cup {p}]
    BY <1>11 DEF ConsumedIn
  <2>3. UNCHANGED <<candidate.generation, candidate.state,
                    [h \in Generation |-> ProvidersOf(h, {analyses[h].pending, analyses[h].winner})],
                    [h \in Generation |-> ProvidersOf(h, {decision[h]})]>>
    BY <1>1, <1>12, <1>13 DEF AnsweredBy, DecidedBy
  <2>4. p \notin consumed[g] /\ Cardinality(consumed[g]) < ProviderLimit
    BY <1>6, <1>7, <2>1
  <2>5. Screening!Cardinality(consumed[g]) = Cardinality(consumed[g])
    BY DEF Screening!Cardinality, Cardinality
  <2>6. QED
    BY <1>4, <2>2, <2>3, <2>4, <2>5, Zenon DEF Screening!Consume
<1>15. QED
  BY <1>3, <1>14

\* Who holds the job of a candidate and a pending analysis works on a candidate
\* that is screened, in its generation, without an answer yet.
LEMMA HolderScreens ==
    ASSUME NormalizationInv, BegunInv, NEW g \in Generation, NEW e \in Epoch, Fenced(g, e)
    PROVE  /\ g = candidate.generation /\ candidate.state # "Decided"
           /\ analyses[g].winner = 0
<1>1. jobs[g].status = "running" /\ analyses[g].status = "pending"
  BY DEF Fenced, JobHeld, AnalysisHeld
<1>2. g = candidate.generation
  BY <1>1 DEF NormalizationInv, OwnerInv
<1>3. analyses[g].winner = 0 /\ decision[g] = 0
  BY <1>1, KnownStarts
<1>4. QED
  BY <1>2, <1>3 DEF BegunInv


\* The first answer on record is one of a provider that was called.
LEMMA SucceedAnswers ==
    ASSUME NormalizationInv, NormalizationInv', BegunInv, [Next]_vars,
           NEW g \in Generation, NEW e \in Epoch, Succeed(g, e)
    PROVE  \E p \in Provider : Screening!Answer(p)
<1> DEFINE n == runs[g][e].attempt
           p == ledger[g][n].provider
<1>1. /\ runs[g][e].pc = "succeeding" /\ Fenced(g, e) /\ analyses[g].pending = 0
      /\ analyses' = [analyses EXCEPT ![g].pending = n]
      /\ UNCHANGED <<candidate, decision, jobs, executed>>
  BY DEF Succeed, Appendable
<1>2. n \in DOMAIN ledger[g] /\ <<g, n>> \in executed
  BY <1>1 DEF NormalizationInv, LedgerInv, RunInv, Working
<1>3. p \in Provider
  <2>1. ledger[g] \in Seq(Start)
    BY Shapes DEF NormalizationInv
  <2>2. QED
    BY <1>2, <2>1, StartedFinite DEF Started
<1>4. g = candidate.generation /\ candidate.state = "AI Screening" /\ analyses[g].winner = 0
  <2>1. candidate.state # "Waiting"
    BY <1>1 DEF Fenced, NormalizationInv, HolderInv
  <2>2. candidate.state \in {"AI Screening", "Waiting", "Decided"}
    BY Zenon DEF NormalizationInv, TypeOK
  <2>3. QED
    BY <1>1, <2>1, <2>2, HolderScreens, Zenon
<1>5. p \in ConsumedIn(g)
  BY <1>2 DEF ConsumedIn, ProvidersOf, ExecutedOf
<1>6. AnsweredBy(g) = {} /\ AnsweredBy(g)' = {p}
  <2>1. 0 \notin DOMAIN ledger[g]
    BY KnownStarts
  <2>2. AnsweredBy(g) = {}
    BY <1>1, <1>4, <2>1 DEF AnsweredBy, ProvidersOf
  <2>3. analyses'[g].pending = n /\ analyses'[g].winner = 0
    <3>1. analyses \in [Generation -> AnalysisRow] /\ analyses[g] \in AnalysisRow
      BY Shapes DEF NormalizationInv
    <3>2. QED
      BY <1>1, <1>4, <3>1 DEF AnalysisRow
  <2>4. \A m \in {n, 0} : m = 0 \/ m \in DOMAIN ledger[g]
    BY <1>2
  <2>5. {ledger'[g][m].provider : m \in {n, 0} \cap DOMAIN ledger'[g]}
          = {ledger[g][m].provider : m \in {n, 0} \cap DOMAIN ledger[g]}
    BY <2>4, ProvidersKept
  <2>6. {n, 0} \cap DOMAIN ledger[g] = {n}
    BY <1>2, <2>1
  <2>7. AnsweredBy(g)' = {ledger'[g][m].provider : m \in {n, 0} \cap DOMAIN ledger'[g]}
    BY <2>3 DEF AnsweredBy, ProvidersOf
  <2>8. QED
    BY <2>2, <2>5, <2>6, <2>7
<1>7. ASSUME NEW h \in Generation \ {g}
      PROVE  AnsweredBy(h)' = AnsweredBy(h)
  <2>1. analyses'[h] = analyses[h]
    BY <1>1, Shapes DEF NormalizationInv
  <2>2. QED
    BY <2>1, AnsweredKept
<1>8. \A h \in Generation : ConsumedIn(h)' = ConsumedIn(h) /\ DecidedBy(h)' = DecidedBy(h)
  BY <1>1, ConsumedKept, DecidedKept
<1> HIDE DEF n, p
<1>9. Screening!Answer(p)
  <2> DEFINE answer == [h \in Generation |-> ProvidersOf(h, {analyses[h].pending, analyses[h].winner})]
             consumed == [h \in Generation |-> ProvidersOf(h, ExecutedOf(h))]
  <2>1. answer[candidate.generation] = {} /\ p \in consumed[candidate.generation]
    BY <1>4, <1>5, <1>6 DEF AnsweredBy, ConsumedIn
  <2>2. answer' = [answer EXCEPT ![candidate.generation] = {p}]
    <3>1. [h \in Generation |-> AnsweredBy(h)'] = [[h \in Generation |-> AnsweredBy(h)] EXCEPT ![g] = {p}]
      BY <1>6, <1>7
    <3>2. answer' = [answer EXCEPT ![g] = {p}]
      BY <3>1 DEF AnsweredBy
    <3>3. QED
      BY <1>4, <3>2, Zenon
  <2>3. UNCHANGED <<candidate.generation, candidate.state, consumed,
                    [h \in Generation |-> ProvidersOf(h, {decision[h]})]>>
    BY <1>1, <1>8 DEF ConsumedIn, DecidedBy
  <2>4. QED
    BY <1>4, <2>1, <2>2, <2>3, Zenon DEF Screening!Answer
<1>10. QED
  BY <1>3, <1>9

\* A candidate is decided by the answer of its generation.
LEMMA DecideDecides ==
    ASSUME NormalizationInv, NormalizationInv', [Next]_vars,
           NEW g \in Generation, NEW e \in Epoch, Decide(g, e)
    PROVE  Screening!Decide \/ UNCHANGED Screening!vars
<1>0. /\ analyses[g].status = "completed"
      /\ UNCHANGED <<jobs, analyses, ledger, executed>>
      /\ \/ UNCHANGED <<candidate, decision>>
         \/ /\ candidate = [state |-> "AI Screening", generation |-> g]
            /\ candidate' = [candidate EXCEPT !.state = "Decided"]
            /\ decision' = [decision EXCEPT ![g] = analyses[g].winner]
  BY DEF Decide, AnalysisHeld
<1>1. CASE UNCHANGED <<candidate, decision>>
  BY <1>0, <1>1, NothingSeen
<1>2. CASE /\ candidate = [state |-> "AI Screening", generation |-> g]
           /\ candidate' = [candidate EXCEPT !.state = "Decided"]
           /\ decision' = [decision EXCEPT ![g] = analyses[g].winner]
  <2>1. /\ analyses[g].winner # 0 /\ analyses[g].winner \in DOMAIN ledger[g]
        /\ analyses[g].pending = 0 /\ 0 \notin DOMAIN ledger[g]
    BY <1>0, KnownStarts
  <2>2. AnsweredBy(g) = {ledger[g][analyses[g].winner].provider}
    BY <2>1 DEF AnsweredBy, ProvidersOf
  <2>3. decision'[g] = analyses[g].winner /\ \A h \in Generation \ {g} : decision'[h] = decision[h]
    BY <1>2, Shapes DEF NormalizationInv
  <2>4. DecidedBy(g)' = AnsweredBy(g)
    <3>1. DecidedBy(g)' = {ledger[g][n].provider : n \in {analyses[g].winner} \cap DOMAIN ledger[g]}
      BY <1>0, <2>3 DEF DecidedBy, ProvidersOf
    <3>2. QED
      BY <2>1, <2>2, <3>1
  <2>5. \A h \in Generation \ {g} : DecidedBy(h)' = DecidedBy(h)
    BY <2>3, DecidedKept
  <2>6. \A h \in Generation : ConsumedIn(h)' = ConsumedIn(h) /\ AnsweredBy(h)' = AnsweredBy(h)
    BY <1>0, ConsumedKept, AnsweredKept
  <2>7. /\ candidate.generation = g /\ candidate'.generation = g
        /\ candidate.state = "AI Screening" /\ candidate'.state = "Decided"
    BY <1>2
  <2> DEFINE answer == [h \in Generation |-> ProvidersOf(h, {analyses[h].pending, analyses[h].winner})]
             decided == [h \in Generation |-> ProvidersOf(h, {decision[h]})]
  <2>8. answer[g] = AnsweredBy(g) /\ AnsweredBy(g) # {}
    BY <2>2 DEF AnsweredBy
  <2>9. decided' = [decided EXCEPT ![g] = answer[g]]
    <3>1. [h \in Generation |-> DecidedBy(h)']
            = [[h \in Generation |-> DecidedBy(h)] EXCEPT ![g] = AnsweredBy(g)]
      BY <2>4, <2>5
    <3>2. decided' = [decided EXCEPT ![g] = AnsweredBy(g)]
      BY <3>1 DEF DecidedBy
    <3>3. QED
      BY <2>8, <3>2, Zenon
  <2>10. UNCHANGED <<answer, [h \in Generation |-> ProvidersOf(h, ExecutedOf(h))]>>
    BY <2>6 DEF ConsumedIn, AnsweredBy
  <2>11. Screening!Decide
    BY <2>7, <2>8, <2>9, <2>10, Zenon DEF Screening!Decide
  <2>12. QED
    BY <2>11
<1>3. QED
  BY <1>0, <1>1, <1>2

\* A candidate is deferred when there is no answer.
LEMMA DeferDefers ==
    ASSUME NormalizationInv, NormalizationInv', [Next]_vars,
           NEW g \in Generation, NEW e \in Epoch, Defer(g, e)
    PROVE  Screening!Defer \/ UNCHANGED Screening!vars
<1>0. /\ UNCHANGED <<decision, jobs, analyses, ledger, executed>>
      /\ \/ UNCHANGED candidate
         \/ /\ candidate = [state |-> "AI Screening", generation |-> g]
            /\ \A n \in DOMAIN ledger[g] : ledger[g][n].outcome # "success"
            /\ candidate' = [candidate EXCEPT !.state = "Waiting"]
  BY Zenon DEF Defer
<1>1. CASE UNCHANGED candidate
  BY <1>0, <1>1, NothingSeen
<1>2. CASE /\ candidate = [state |-> "AI Screening", generation |-> g]
           /\ \A n \in DOMAIN ledger[g] : ledger[g][n].outcome # "success"
           /\ candidate' = [candidate EXCEPT !.state = "Waiting"]
  <2>1. analyses[g].pending = 0 /\ analyses[g].winner = 0
    BY <1>2 DEF NormalizationInv, AnswerInv, Answer
  <2>2. AnsweredBy(g) = {}
    BY <2>1, KnownStarts DEF AnsweredBy, ProvidersOf
  <2>3. /\ candidate.generation = g /\ candidate'.generation = g
        /\ candidate.state = "AI Screening" /\ candidate'.state = "Waiting"
    BY <1>2
  <2>4. \A h \in Generation : /\ ConsumedIn(h)' = ConsumedIn(h) /\ AnsweredBy(h)' = AnsweredBy(h)
                              /\ DecidedBy(h)' = DecidedBy(h)
    BY <1>0, ConsumedKept, AnsweredKept, DecidedKept
  <2> DEFINE answer == [h \in Generation |-> ProvidersOf(h, {analyses[h].pending, analyses[h].winner})]
  <2>5. answer[g] = {}
    BY <2>2 DEF AnsweredBy
  <2>6. UNCHANGED <<[h \in Generation |-> ProvidersOf(h, ExecutedOf(h))], answer,
                    [h \in Generation |-> ProvidersOf(h, {decision[h]})]>>
    BY <2>4 DEF ConsumedIn, AnsweredBy, DecidedBy
  <2>7. Screening!Defer
    BY <2>3, <2>5, <2>6, Zenon DEF Screening!Defer
  <2>8. QED
    BY <2>7
<1>3. QED
  BY <1>0, <1>1, <1>2

LEMMA RearmRearms ==
    ASSUME NormalizationInv, NormalizationInv', [Next]_vars, Rearm
    PROVE  Screening!Rearm
<1>1. /\ candidate.state = "Waiting" /\ candidate.generation < MaxGeneration
      /\ candidate' = [candidate EXCEPT !.generation = candidate.generation + 1]
      /\ UNCHANGED <<decision, analyses, ledger, executed>>
  BY DEF Rearm, Rearmable
<1>2. candidate'.generation = candidate.generation + 1 /\ candidate'.state = "Waiting"
  BY <1>1 DEF NormalizationInv, TypeOK
<1>3. \A h \in Generation : /\ ConsumedIn(h)' = ConsumedIn(h) /\ AnsweredBy(h)' = AnsweredBy(h)
                            /\ DecidedBy(h)' = DecidedBy(h)
  BY <1>1, ConsumedKept, AnsweredKept, DecidedKept
<1>4. UNCHANGED <<[h \in Generation |-> ProvidersOf(h, ExecutedOf(h))],
                  [h \in Generation |-> ProvidersOf(h, {analyses[h].pending, analyses[h].winner})],
                  [h \in Generation |-> ProvidersOf(h, {decision[h]})]>>
  BY <1>3 DEF ConsumedIn, AnsweredBy, DecidedBy
<1>5. candidate'.state \in {"Waiting", "AI Screening"}
  BY <1>2
<1>6. QED
  BY <1>1, <1>2, <1>4, <1>5, Zenon DEF Screening!Rearm

\* Every other step goes unseen.
LEMMA OtherStepUnseen ==
    ASSUME NormalizationInv, NormalizationInv', [Next]_vars, UNCHANGED executed, ~Rearm,
           \A g \in Generation, e \in Epoch : ~(Succeed(g, e) \/ Decide(g, e) \/ Defer(g, e))
    PROVE  UNCHANGED Screening!vars
<1>0. TypeOK /\ analyses \in [Generation -> AnalysisRow]
      /\ \A h \in Generation : analyses[h] \in AnalysisRow
  BY Shapes DEF NormalizationInv
<1>1. ASSUME NEW g \in Generation, NEW e \in Epoch, RunStep(g, e)
      PROVE  UNCHANGED <<candidate, decision>>
  BY <1>1 DEF RunStep, Load, ClaimAnalysis, Reclaim, Reconcile, Route, Begin, Execute, Fail,
              FinalizeAnalysis, CallFails, End, Drop
<1>2. UNCHANGED <<candidate, decision>>
  BY <1>1 DEF Next, vars, EnqueueInitial, Take, Terminalize, JobLeaseExpires, AnalysisLeaseExpires
<1>3. CASE UNCHANGED analyses
  BY <1>2, <1>3, NothingSeen
<1>4. ASSUME NEW g \in Generation, AnalysisLeaseExpires(g)
      PROVE  UNCHANGED Screening!vars
  <2>1. \A h \in Generation : /\ analyses'[h].pending = analyses[h].pending
                              /\ analyses'[h].winner = analyses[h].winner
    BY <1>0, <1>4 DEF AnalysisLeaseExpires, AnalysisRow
  <2>2. QED
    BY <1>2, <2>1, NothingSeen
<1>5. ASSUME NEW g \in Generation, NEW e \in Epoch, ClaimAnalysis(g, e) \/ Reclaim(g, e)
      PROVE  UNCHANGED Screening!vars
  <2>1. \A h \in Generation : /\ analyses'[h].pending = analyses[h].pending
                              /\ analyses'[h].winner = analyses[h].winner
    <3>1. CASE ClaimAnalysis(g, e)
      <4> DEFINE a == [analyses[g] EXCEPT !.status = "pending", !.epoch = @ + 1, !.live = TRUE]
      <4>1. UNCHANGED analyses \/ analyses' = [analyses EXCEPT ![g] = a]
        BY <3>1 DEF ClaimAnalysis
      <4>2. a.pending = analyses[g].pending /\ a.winner = analyses[g].winner
        BY <1>0 DEF AnalysisRow
      <4> HIDE DEF a
      <4>3. QED
        BY <1>0, <4>1, <4>2
    <3>2. CASE Reclaim(g, e)
      <4>1. \/ UNCHANGED analyses
            \/ analyses' = [analyses EXCEPT ![g].epoch = @ + 1, ![g].live = TRUE]
        BY <3>2, Zenon DEF Reclaim
      <4>2. QED
        BY <1>0, <4>1 DEF AnalysisRow
    <3>3. QED
      BY <1>5, <3>1, <3>2
  <2>2. QED
    BY <1>2, <2>1, NothingSeen
<1>6. ASSUME NEW g \in Generation, NEW e \in Epoch, FinalizeAnalysis(g, e)
      PROVE  UNCHANGED Screening!vars
  <2> DEFINE n == runs[g][e].attempt
  <2>1. /\ analyses[g].status = "pending" /\ analyses[g].pending = n
        /\ analyses' = [analyses EXCEPT ![g] = [@ EXCEPT !.status = "completed", !.winner = n,
                                                         !.pending = 0]]
    BY <1>6 DEF FinalizeAnalysis, Fenced, AnalysisHeld
  <2>2. analyses[g].winner = 0
    BY <2>1, KnownStarts
  <2>3. analyses'[g].pending = 0 /\ analyses'[g].winner = n
        /\ \A h \in Generation \ {g} : analyses'[h] = analyses[h]
    BY <1>0, <2>1 DEF AnalysisRow
  <2> HIDE DEF n
  <2>4. \A h \in Generation : {analyses'[h].pending, analyses'[h].winner}
                                = {analyses[h].pending, analyses[h].winner}
    BY <2>1, <2>2, <2>3
  <2>5. QED
    BY <1>2, <2>4, NothingSeen
<1>7. ASSUME NEW g \in Generation, NEW e \in Epoch, RunStep(g, e)
      PROVE  ClaimAnalysis(g, e) \/ Reclaim(g, e) \/ FinalizeAnalysis(g, e) \/ UNCHANGED analyses
  BY <1>7 DEF RunStep, Load, Reconcile, Route, Begin, Execute, Fail, CallFails, End, Drop
<1>8. CASE \A g \in Generation : ~AnalysisLeaseExpires(g) /\ \A e \in Epoch : ~RunStep(g, e)
  BY <1>3, <1>8 DEF Next, vars, EnqueueInitial, Take, Terminalize, JobLeaseExpires
<1>9. QED
  BY <1>3, <1>4, <1>5, <1>6, <1>7, <1>8

\* For any providers, limits, attempts and rearms: behind the leases, the ledger and
\* the overlapping attempts, a candidate is screened as CandidateScreening says.
THEOREM ScreeningRefinement == Spec => ImplementsScreening
<1>1. Init => Screening!Init
  <2> SUFFICES ASSUME Init PROVE Screening!Init
    OBVIOUS
  <2>1. candidate.generation = 0 /\ candidate.state = "AI Screening"
    BY Zenon DEF Init
  <2>2. ledger = [g \in Generation |-> <<>>]
    BY DEF Init
  <2>3. \A g \in Generation : \A A : ProvidersOf(g, A) = {}
    BY <2>2 DEF ProvidersOf
  <2>4. /\ [g \in Generation |-> ProvidersOf(g, ExecutedOf(g))] = [g \in Generation |-> {}]
        /\ [g \in Generation |-> ProvidersOf(g, {analyses[g].pending, analyses[g].winner})]
             = [g \in Generation |-> {}]
        /\ [g \in Generation |-> ProvidersOf(g, {decision[g]})] = [g \in Generation |-> {}]
    BY <2>3
  <2>5. Screening!Generation = Generation
    BY DEF Screening!Generation, Generation
  <2>6. QED
    BY <2>1, <2>4, <2>5, Zenon DEF Screening!Init
<1>2. NormalizationInv /\ BegunInv /\ [Next]_vars => [Screening!Next]_(Screening!vars)
  <2> SUFFICES ASSUME NormalizationInv, NormalizationInv', BegunInv, [Next]_vars
               PROVE  Screening!Next \/ UNCHANGED Screening!vars
    BY NormalizationStep
  <2>0. Screening!Generation = Generation
    BY DEF Screening!Generation, Generation
  <2>1. ASSUME NEW g \in Generation, NEW e \in Epoch, Execute(g, e), executed' # executed
        PROVE  Screening!Next
    BY <2>0, <2>1, ExecuteConsumes DEF Screening!Next
  <2>2. ASSUME NEW g \in Generation, NEW e \in Epoch, Succeed(g, e)
        PROVE  Screening!Next
    BY <2>2, SucceedAnswers DEF Screening!Next
  <2>3. ASSUME NEW g \in Generation, NEW e \in Epoch, Decide(g, e) \/ Defer(g, e)
        PROVE  Screening!Next \/ UNCHANGED Screening!vars
    BY <2>3, DecideDecides, DeferDefers DEF Screening!Next
  <2>4. CASE Rearm
    BY <2>4, RearmRearms DEF Screening!Next
  <2>5. executed' = executed \/ \E g \in Generation, e \in Epoch : Execute(g, e)
    <3>1. ASSUME NEW g \in Generation, NEW e \in Epoch, RunStep(g, e)
          PROVE  executed' = executed \/ Execute(g, e)
      BY <3>1 DEF RunStep, Load, ClaimAnalysis, Reclaim, Reconcile, Route, Begin, Succeed, Fail,
                  FinalizeAnalysis, Decide, Defer, CallFails, End, Drop
    <3>2. QED
      BY <3>1 DEF Next, vars, EnqueueInitial, Rearm, Take, Terminalize, JobLeaseExpires,
                  AnalysisLeaseExpires
  <2>6. QED
    BY <2>1, <2>2, <2>3, <2>4, <2>5, OtherStepUnseen
<1>3. QED
  BY <1>1, <1>2, NormalizationInvariant, BegunInvariant, PTL
     DEF Spec, ImplementsScreening, Screening!Spec

\* For any providers, limits, attempts and rearms: both abstract specifications are
\* kept by the one module, each by the steps that concern it.
THEOREM Refinements == Spec => ImplementsBoth
BY JobRefinement, ScreeningRefinement DEF ImplementsBoth
=============================================================================
