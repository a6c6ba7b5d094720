------------------------------ MODULE EndingsProofs ------------------------------
(***************************************************************************)
(* The safety of what has to end: the permit of an adapter, the call to a  *)
(* provider, the invocation of a client.  Each part has an invariant that  *)
(* is inductive by itself; a step of another part leaves its variables     *)
(* alone.                                                                  *)
(***************************************************************************)
EXTENDS Endings, Sequences, SequenceTheorems, TLAPS

-----------------------------------------------------------------------------
(***************************************************************************)
(* The permit.  Beside what PermitConserved says, whoever waits is in the  *)
(* queue, and no caller is there twice: the abort of one would leave the   *)
(* other place to somebody who no longer waits.                            *)
(***************************************************************************)

WaiterIsQueued == \A c \in Caller : pc[c] = "waiting" => \E n \in 1..Len(queue) : queue[n] = c

QueuedOnce == \A m, n \in 1..Len(queue) : queue[m] = queue[n] => m = n

PermitInv == Semaphore!TypeOK /\ Semaphore!PermitConserved /\ WaiterIsQueued /\ QueuedOnce

\* What is left of a sequence without one of its places.
LEMMA WithoutPlace ==
    ASSUME NEW S, NEW s \in Seq(S), NEW k \in 1..Len(s)
    PROVE  /\ Semaphore!RemoveAt(s, k) \in Seq(S)
           /\ Len(Semaphore!RemoveAt(s, k)) = Len(s) - 1
           /\ \A n \in 1..Len(s) - 1 :
                Semaphore!RemoveAt(s, k)[n] = IF n < k THEN s[n] ELSE s[n + 1]
<1> DEFINE a == SubSeq(s, 1, k - 1)
           b == SubSeq(s, k + 1, Len(s))
<1>1. Semaphore!RemoveAt(s, k) = a \o b
  BY DEF Semaphore!RemoveAt
<1>2. a \in Seq(S) /\ Len(a) = k - 1 /\ \A n \in 1..k - 1 : a[n] = s[n]
  BY SubSeqProperties
<1>3. b \in Seq(S) /\ Len(b) = Len(s) - k /\ \A n \in 1..Len(s) - k : b[n] = s[n + k]
  BY SubSeqProperties
<1> HIDE DEF a, b
<1>4. /\ a \o b \in Seq(S)
      /\ Len(a \o b) = Len(a) + Len(b)
      /\ \A n \in 1..Len(a) + Len(b) :
           (a \o b)[n] = IF n <= Len(a) THEN a[n] ELSE b[n - Len(a)]
  <2>1. a \in Seq(S) /\ b \in Seq(S)
    BY <1>2, <1>3
  <2>2. QED
    BY <2>1, ConcatProperties
<1>5. Len(s) \in Nat /\ k \in Nat /\ Len(a \o b) = Len(s) - 1
  BY <1>2, <1>3, <1>4, LenProperties
<1>6. ASSUME NEW n \in 1..Len(s) - 1
      PROVE  (a \o b)[n] = IF n < k THEN s[n] ELSE s[n + 1]
  <2>1. CASE n < k
    BY <1>2, <1>3, <1>4, <1>5, <2>1
  <2>2. CASE ~(n < k)
    <3>1. (a \o b)[n] = b[n - (k - 1)] /\ n - (k - 1) \in 1..Len(s) - k
      BY <1>2, <1>3, <1>4, <1>5, <2>2
    <3>2. QED
      BY <1>3, <1>5, <2>2, <3>1
  <2>3. QED
    BY <2>1, <2>2
<1> QED
  BY <1>1, <1>4, <1>5, <1>6

\* The abort listener's indexOf and splice: the caller is taken out, the others
\* stay, in the queue and only once.
LEMMA WithoutCaller ==
    ASSUME NEW S, NEW s \in Seq(S), NEW k \in 1..Len(s),
           \A m, n \in 1..Len(s) : s[m] = s[n] => m = n
    PROVE  Semaphore!RemoveFirst(s, s[k]) = Semaphore!RemoveAt(s, k)
<1> DEFINE I == {i \in 1..Len(s) : s[i] = s[k]}
<1>1. I = {k}
  OBVIOUS
<1>2. Semaphore!Min(I) = k
  BY <1>1 DEF Semaphore!Min
<1>3. \E i \in 1..Len(s) : s[i] = s[k]
  OBVIOUS
<1>4. I # {}
  BY <1>1
<1> QED
  BY <1>2, <1>3, <1>4 DEF Semaphore!RemoveFirst, Semaphore!SelectInSeq

LEMMA PermitInit ==
    ASSUME Semaphore!Init
    PROVE  PermitInv
<1>1. /\ held = FALSE /\ queue = <<>> /\ aborted = {}
      /\ pc = [c \in Caller |-> "calling"]
  BY DEF Semaphore!Init
<1>2. queue \in Seq(Caller) /\ Len(queue) = 0
  BY <1>1
<1>3. \A c \in Caller : pc[c] = "calling"
  BY <1>1
<1>4. Semaphore!TypeOK
  BY <1>1, <1>2 DEF Semaphore!TypeOK
<1>5. Semaphore!PermitConserved
  BY <1>1, <1>2, <1>3 DEF Semaphore!PermitConserved, Semaphore!Holders
<1>6. WaiterIsQueued /\ QueuedOnce
  BY <1>2, <1>3 DEF WaiterIsQueued, QueuedOnce
<1>7. QED
  BY <1>4, <1>5, <1>6 DEF PermitInv

\* The permit goes on to the first who waits, or it is free.
LEMMA ReleaseKeeps ==
    ASSUME PermitInv, NEW c \in Caller, pc[c] \in {"resolved", "working"},
           Semaphore!Release(c), UNCHANGED aborted
    PROVE  PermitInv'
<1>1. /\ Semaphore!TypeOK /\ held
      /\ \A d \in Caller : pc[d] \in {"resolved", "working"} => d = c
      /\ \A n \in 1..Len(queue) : pc[queue[n]] = "waiting"
  BY DEF PermitInv, Semaphore!PermitConserved, Semaphore!Holders
<1>2. WaiterIsQueued /\ QueuedOnce
  BY DEF PermitInv
<1>3. queue \in Seq(Caller) /\ Len(queue) \in Nat /\ \A n \in 1..Len(queue) : queue[n] \in Caller
  BY <1>1, ElementOfSeq, LenProperties DEF Semaphore!TypeOK
<1>4. CASE queue # <<>>
  <2>1. /\ pc' = [pc EXCEPT ![c] = "done", ![Head(queue)] = "resolved"]
        /\ queue' = Tail(queue) /\ UNCHANGED held
    BY <1>4 DEF Semaphore!Release
  <2>2. Len(queue) \in Nat \ {0} /\ Head(queue) = queue[1]
    BY <1>3, <1>4, EmptySeq
  <2>3. /\ queue' \in Seq(Caller) /\ Len(queue') = Len(queue) - 1
        /\ \A n \in 1..Len(queue) - 1 : queue'[n] = queue[n + 1]
    BY <1>3, <1>4, <2>1, HeadTailProperties
  <2> DEFINE h == queue[1]
  <2>4. h \in Caller /\ pc[h] = "waiting" /\ h # c
    BY <1>1, <1>3, <2>2
  <2>5. /\ pc' = [pc EXCEPT ![c] = "done", ![h] = "resolved"]
        /\ pc'[c] = "done" /\ pc'[h] = "resolved"
        /\ \A d \in Caller : d # c /\ d # h => pc'[d] = pc[d]
    BY <1>1, <2>1, <2>2, <2>4 DEF Semaphore!TypeOK
  <2>6. Semaphore!TypeOK'
    BY <1>1, <2>1, <2>3, <2>5 DEF Semaphore!TypeOK
  <2> HIDE DEF h
  <2>7. \A d \in Caller : pc'[d] \in {"resolved", "working"} <=> d = h
    BY <1>1, <2>4, <2>5
  <2>8. \A n \in 1..Len(queue') : queue'[n] \in Caller /\ queue'[n] # h /\ queue'[n] # c
                                     /\ pc[queue'[n]] = "waiting"
    <3>1. TAKE n \in 1..Len(queue')
    <3>2. n + 1 \in 1..Len(queue) /\ queue'[n] = queue[n + 1] /\ n + 1 # 1 /\ 1 \in 1..Len(queue)
      BY <2>2, <2>3
    <3>3. queue[n + 1] # h
      BY <1>2, <3>2 DEF QueuedOnce, h
    <3>4. QED
      BY <1>1, <1>3, <3>2, <3>3
  <2>9. Semaphore!PermitConserved'
    BY <1>1, <2>1, <2>4, <2>5, <2>7, <2>8 DEF Semaphore!PermitConserved, Semaphore!Holders
  <2>10. WaiterIsQueued'
    <3>1. SUFFICES ASSUME NEW d \in Caller, pc'[d] = "waiting"
                   PROVE  \E n \in 1..Len(queue') : queue'[n] = d
      BY DEF WaiterIsQueued
    <3>2. d # c /\ d # h /\ pc[d] = "waiting"
      BY <2>5, <3>1
    <3>3. PICK n \in 1..Len(queue) : queue[n] = d
      BY <1>2, <3>2 DEF WaiterIsQueued
    <3>4. n # 1
      BY <3>2, <3>3 DEF h
    <3>5. n - 1 \in 1..Len(queue') /\ queue'[n - 1] = queue[n]
      BY <2>2, <2>3, <3>4
    <3>6. QED
      BY <3>3, <3>5
  <2>11. QueuedOnce'
    <3>1. SUFFICES ASSUME NEW m \in 1..Len(queue'), NEW n \in 1..Len(queue'),
                          queue'[m] = queue'[n]
                   PROVE  m = n
      BY DEF QueuedOnce
    <3>2. /\ m + 1 \in 1..Len(queue) /\ n + 1 \in 1..Len(queue)
          /\ queue[m + 1] = queue[n + 1]
      BY <2>2, <2>3, <3>1
    <3>3. m + 1 = n + 1
      BY <1>2, <3>2 DEF QueuedOnce
    <3>4. QED
      BY <2>2, <2>3, <3>3
  <2>12. QED
    BY <2>6, <2>9, <2>10, <2>11 DEF PermitInv
<1>5. CASE queue = <<>>
  <2>1. pc' = [pc EXCEPT ![c] = "done"] /\ held' = FALSE /\ UNCHANGED queue
    BY <1>5 DEF Semaphore!Release
  <2>2. pc'[c] = "done" /\ \A d \in Caller : d # c => pc'[d] = pc[d]
    BY <1>1, <2>1 DEF Semaphore!TypeOK
  <2>3. Semaphore!TypeOK'
    BY <1>1, <2>1 DEF Semaphore!TypeOK
  <2>4. Len(queue) = 0 /\ Len(queue') = 0 /\ queue' = <<>>
    BY <1>5, <2>1
  <2>5. Semaphore!PermitConserved'
    BY <1>1, <2>1, <2>2, <2>4 DEF Semaphore!PermitConserved, Semaphore!Holders
  <2>6. WaiterIsQueued' /\ QueuedOnce'
    BY <1>2, <2>2, <2>4 DEF WaiterIsQueued, QueuedOnce
  <2>7. QED
    BY <2>3, <2>5, <2>6 DEF PermitInv
<1>6. QED
  BY <1>4, <1>5

LEMMA AbortKeeps ==
    ASSUME PermitInv, NEW c \in Caller, Semaphore!Abort(c)
    PROVE  PermitInv'
<1>1. /\ Semaphore!TypeOK
      /\ \A n \in 1..Len(queue) : pc[queue[n]] = "waiting"
  BY DEF PermitInv, Semaphore!PermitConserved
<1>2. WaiterIsQueued /\ QueuedOnce
  BY DEF PermitInv
<1>3. queue \in Seq(Caller) /\ Len(queue) \in Nat /\ \A n \in 1..Len(queue) : queue[n] \in Caller
  BY <1>1, ElementOfSeq, LenProperties DEF Semaphore!TypeOK
<1>4. aborted' \subseteq Caller /\ UNCHANGED held
  BY <1>1 DEF Semaphore!Abort, Semaphore!TypeOK
<1>5. CASE pc[c] # "waiting"
  <2>1. UNCHANGED <<queue, pc>>
    BY <1>5 DEF Semaphore!Abort, Semaphore!LeftQueue
  <2>2. QED
    BY <1>4, <2>1 DEF PermitInv, WaiterIsQueued, QueuedOnce, Semaphore!TypeOK,
          Semaphore!PermitConserved, Semaphore!Holders
<1>6. CASE pc[c] = "waiting"
  <2>1. queue' = Semaphore!RemoveFirst(queue, c) /\ pc' = [pc EXCEPT ![c] = "done"]
    BY <1>6 DEF Semaphore!Abort, Semaphore!LeftQueue
  <2>2. PICK k \in 1..Len(queue) : queue[k] = c
    BY <1>2, <1>6 DEF WaiterIsQueued
  <2>3. queue' = Semaphore!RemoveAt(queue, k)
    BY <1>2, <1>3, <2>1, <2>2, WithoutCaller DEF QueuedOnce
  <2>4. /\ queue' \in Seq(Caller) /\ Len(queue') = Len(queue) - 1
        /\ \A n \in 1..Len(queue) - 1 : queue'[n] = IF n < k THEN queue[n] ELSE queue[n + 1]
    BY <1>3, <2>3, WithoutPlace
  <2>5. pc'[c] = "done" /\ \A d \in Caller : d # c => pc'[d] = pc[d]
    BY <1>1, <2>1 DEF Semaphore!TypeOK
  <2>6. Semaphore!TypeOK'
    BY <1>1, <1>4, <2>1, <2>4 DEF Semaphore!TypeOK
  <2> DEFINE At(n) == IF n < k THEN n ELSE n + 1
  <2>7. \A n \in 1..Len(queue') : At(n) \in 1..Len(queue) /\ At(n) # k /\ queue'[n] = queue[At(n)]
    BY <1>3, <2>4
  <2>8. \A m, n \in 1..Len(queue') : At(m) = At(n) => m = n
    BY <1>3, <2>4
  <2>9. \A m \in 1..Len(queue) : m # k => \E n \in 1..Len(queue') : At(n) = m
    <3>1. TAKE m \in 1..Len(queue)
    <3>2. CASE m < k
      BY <1>3, <2>4, <3>2
    <3>3. CASE m > k
      <4>1. m - 1 \in 1..Len(queue') /\ At(m - 1) = m
        BY <1>3, <2>4, <3>3
      <4>2. QED
        BY <4>1
    <3>4. QED
      BY <1>3, <3>2, <3>3
  <2> HIDE DEF At
  <2>10. \A n \in 1..Len(queue') : queue'[n] \in Caller /\ queue'[n] # c /\ pc'[queue'[n]] = "waiting"
    <3>1. TAKE n \in 1..Len(queue')
    <3>2. queue[At(n)] # c
      BY <1>2, <2>2, <2>7 DEF QueuedOnce
    <3>3. QED
      BY <1>1, <1>3, <2>5, <2>7, <3>2
  <2>11. queue' # <<>> => queue # <<>>
    <3>1. 1 \in 1..Len(queue)
      BY <1>3, <2>2
    <3>2. QED
      BY <3>1
  <2>12. \A d \in Caller : pc'[d] \in {"resolved", "working"} <=> pc[d] \in {"resolved", "working"}
    BY <1>6, <2>5
  <2>13. Semaphore!PermitConserved'
    BY <1>4, <2>10, <2>11, <2>12 DEF PermitInv, Semaphore!PermitConserved, Semaphore!Holders
  <2>14. WaiterIsQueued'
    <3>1. SUFFICES ASSUME NEW d \in Caller, pc'[d] = "waiting"
                   PROVE  \E n \in 1..Len(queue') : queue'[n] = d
      BY DEF WaiterIsQueued
    <3>2. d # c /\ pc[d] = "waiting"
      BY <2>5, <3>1
    <3>3. PICK m \in 1..Len(queue) : queue[m] = d
      BY <1>2, <3>2 DEF WaiterIsQueued
    <3>4. m # k
      BY <2>2, <3>2, <3>3
    <3>5. PICK n \in 1..Len(queue') : At(n) = m
      BY <2>9, <3>4
    <3>6. QED
      BY <2>7, <3>3, <3>5
  <2>15. QueuedOnce'
    <3>1. SUFFICES ASSUME NEW m \in 1..Len(queue'), NEW n \in 1..Len(queue'),
                          queue'[m] = queue'[n]
                   PROVE  m = n
      BY DEF QueuedOnce
    <3>2. At(m) = At(n)
      BY <1>2, <2>7, <3>1 DEF QueuedOnce
    <3>3. QED
      BY <2>8, <3>2
  <2>16. QED
    BY <2>6, <2>13, <2>14, <2>15 DEF PermitInv
<1>7. QED
  BY <1>5, <1>6

LEMMA AcquireKeeps ==
    ASSUME PermitInv, NEW c \in Caller, Semaphore!Acquire(c)
    PROVE  PermitInv'
<1>1. /\ Semaphore!TypeOK /\ pc[c] = "calling" /\ UNCHANGED aborted
      /\ held <=> Semaphore!Holders # {}
      /\ queue # <<>> => held
      /\ \A n \in 1..Len(queue) : pc[queue[n]] = "waiting"
  BY DEF PermitInv, Semaphore!PermitConserved, Semaphore!Acquire
<1>2. WaiterIsQueued /\ QueuedOnce
  BY DEF PermitInv
<1>3. queue \in Seq(Caller) /\ Len(queue) \in Nat /\ \A n \in 1..Len(queue) : queue[n] \in Caller
  BY <1>1, ElementOfSeq, LenProperties DEF Semaphore!TypeOK
<1>4. \A n \in 1..Len(queue) : queue[n] # c
  BY <1>1
<1>5. CASE c \in aborted
  <2>1. pc' = [pc EXCEPT ![c] = "done"] /\ UNCHANGED <<held, queue>>
    BY <1>5 DEF Semaphore!Acquire
  <2>2. pc'[c] = "done" /\ \A d \in Caller : d # c => pc'[d] = pc[d]
    BY <1>1, <2>1 DEF Semaphore!TypeOK
  <2>3. Semaphore!TypeOK'
    BY <1>1, <2>1 DEF Semaphore!TypeOK
  <2>4. \A d \in Caller : pc'[d] \in {"resolved", "working"} <=> pc[d] \in {"resolved", "working"}
    BY <1>1, <2>2
  <2>5. \A n \in 1..Len(queue) : pc'[queue[n]] = "waiting"
    BY <1>1, <1>3, <1>4, <2>2
  <2>6. Semaphore!PermitConserved'
    BY <2>1, <2>4, <2>5 DEF PermitInv, Semaphore!PermitConserved, Semaphore!Holders
  <2>7. WaiterIsQueued' /\ QueuedOnce'
    BY <1>2, <2>1, <2>2 DEF WaiterIsQueued, QueuedOnce
  <2>8. QED
    BY <2>3, <2>6, <2>7 DEF PermitInv
<1>6. CASE c \notin aborted /\ ~held
  <2>1. held' = TRUE /\ pc' = [pc EXCEPT ![c] = "resolved"] /\ UNCHANGED queue
    BY <1>6 DEF Semaphore!Acquire
  <2>2. pc'[c] = "resolved" /\ \A d \in Caller : d # c => pc'[d] = pc[d]
    BY <1>1, <2>1 DEF Semaphore!TypeOK
  <2>3. Semaphore!TypeOK'
    BY <1>1, <2>1 DEF Semaphore!TypeOK
  <2>4. \A d \in Caller : pc'[d] \in {"resolved", "working"} <=> d = c
    BY <1>1, <1>6, <2>2 DEF Semaphore!Holders
  <2>5. \A n \in 1..Len(queue) : pc'[queue[n]] = "waiting"
    BY <1>1, <1>3, <1>4, <2>2
  <2>6. Semaphore!PermitConserved'
    BY <2>1, <2>4, <2>5 DEF Semaphore!PermitConserved, Semaphore!Holders
  <2>7. WaiterIsQueued' /\ QueuedOnce'
    BY <1>2, <2>1, <2>2 DEF WaiterIsQueued, QueuedOnce
  <2>8. QED
    BY <2>3, <2>6, <2>7 DEF PermitInv
<1>7. CASE c \notin aborted /\ held
  <2>1. queue' = Append(queue, c) /\ pc' = [pc EXCEPT ![c] = "waiting"] /\ UNCHANGED held
    BY <1>7 DEF Semaphore!Acquire
  <2>2. pc'[c] = "waiting" /\ \A d \in Caller : d # c => pc'[d] = pc[d]
    BY <1>1, <2>1 DEF Semaphore!TypeOK
  <2>3. /\ queue' \in Seq(Caller) /\ Len(queue') = Len(queue) + 1
        /\ \A n \in 1..Len(queue) : queue'[n] = queue[n]
        /\ queue'[Len(queue) + 1] = c
    BY <1>3, <2>1, AppendProperties
  <2>4. Semaphore!TypeOK'
    BY <1>1, <2>1, <2>3 DEF Semaphore!TypeOK
  <2>5. \A d \in Caller : pc'[d] \in {"resolved", "working"} <=> pc[d] \in {"resolved", "working"}
    BY <1>1, <2>2
  <2>6. \A n \in 1..Len(queue') : n \in 1..Len(queue) \/ n = Len(queue) + 1
    BY <1>3, <2>3
  <2>7. \A n \in 1..Len(queue') : pc'[queue'[n]] = "waiting"
    BY <1>1, <1>3, <1>4, <2>2, <2>3, <2>6
  <2>8. Semaphore!PermitConserved'
    BY <1>7, <2>1, <2>5, <2>7 DEF PermitInv, Semaphore!PermitConserved, Semaphore!Holders
  <2>9. WaiterIsQueued'
    <3>1. SUFFICES ASSUME NEW d \in Caller, pc'[d] = "waiting"
                   PROVE  \E n \in 1..Len(queue') : queue'[n] = d
      BY DEF WaiterIsQueued
    <3>2. CASE d = c
      <4>1. Len(queue) + 1 \in 1..Len(queue')
        BY <1>3, <2>3
      <4>2. QED
        BY <2>3, <3>2, <4>1
    <3>3. CASE d # c
      <4>1. PICK n \in 1..Len(queue) : queue[n] = d
        BY <1>2, <2>2, <3>1, <3>3 DEF WaiterIsQueued
      <4>2. n \in 1..Len(queue')
        BY <1>3, <2>3
      <4>3. QED
        BY <2>3, <4>1, <4>2
    <3>4. QED
      BY <3>2, <3>3
  <2>10. QueuedOnce'
    BY <1>2, <1>3, <1>4, <2>3, <2>6 DEF QueuedOnce
  <2>11. QED
    BY <2>4, <2>8, <2>9, <2>10 DEF PermitInv
<1>8. QED
  BY <1>5, <1>6, <1>7

LEMMA PermitStep ==
    ASSUME PermitInv, [Semaphore!Next]_permit
    PROVE  PermitInv'
<1>1. CASE UNCHANGED permit
  BY <1>1 DEF permit, PermitInv, WaiterIsQueued, QueuedOnce, Semaphore!TypeOK,
        Semaphore!PermitConserved, Semaphore!Holders
<1>2. ASSUME NEW c \in Caller, Semaphore!Acquire(c)
      PROVE  PermitInv'
  BY <1>2, AcquireKeeps
<1>3. ASSUME NEW c \in Caller, Semaphore!Abort(c)
      PROVE  PermitInv'
  BY <1>3, AbortKeeps
<1>4. ASSUME NEW c \in Caller, Semaphore!Resume(c)
      PROVE  PermitInv'
  <2>1. pc[c] = "resolved" /\ UNCHANGED aborted
    BY <1>4 DEF Semaphore!Resume
  <2>2. CASE c \in aborted
    <3>1. Semaphore!Release(c)
      BY <1>4, <2>2 DEF Semaphore!Resume
    <3>2. QED
      BY <2>1, <3>1, ReleaseKeeps
  <2>3. CASE c \notin aborted
    <3>1. pc' = [pc EXCEPT ![c] = "working"] /\ UNCHANGED <<held, queue>>
      BY <1>4, <2>3 DEF Semaphore!Resume
    <3>2. Semaphore!TypeOK
      BY DEF PermitInv
    <3>3. pc'[c] = "working" /\ \A d \in Caller : d # c => pc'[d] = pc[d]
      BY <3>1, <3>2 DEF Semaphore!TypeOK
    <3>4. Semaphore!TypeOK'
      BY <2>1, <3>1, <3>2 DEF Semaphore!TypeOK
    <3>5. \A d \in Caller : pc'[d] \in {"resolved", "working"} <=> pc[d] \in {"resolved", "working"}
      BY <2>1, <3>3
    <3>6. \A n \in 1..Len(queue) : pc'[queue[n]] = "waiting"
      <4>1. \A n \in 1..Len(queue) : queue[n] \in Caller
        BY <3>2, ElementOfSeq DEF Semaphore!TypeOK
      <4>2. \A n \in 1..Len(queue) : pc[queue[n]] = "waiting"
        BY DEF PermitInv, Semaphore!PermitConserved
      <4>3. QED
        BY <2>1, <3>3, <4>1, <4>2
    <3>7. Semaphore!PermitConserved'
      BY <3>1, <3>5, <3>6 DEF PermitInv, Semaphore!PermitConserved, Semaphore!Holders
    <3>8. WaiterIsQueued' /\ QueuedOnce'
      BY <3>1, <3>3 DEF PermitInv, WaiterIsQueued, QueuedOnce
    <3>9. QED
      BY <3>4, <3>7, <3>8 DEF PermitInv
  <2>4. QED
    BY <2>2, <2>3
<1>5. ASSUME NEW c \in Caller, Semaphore!Finish(c)
      PROVE  PermitInv'
  BY <1>5, ReleaseKeeps DEF Semaphore!Finish
<1>6. QED
  BY <1>1, <1>2, <1>3, <1>4, <1>5 DEF Semaphore!Next

-----------------------------------------------------------------------------
(***************************************************************************)
(* The invocation.  What the worker has seen to be over stays so: nothing  *)
(* but its own start, which comes first, queues the unit; the stop of the  *)
(* cleanup takes a queued start away; and only the unit before its main    *)
(* process makes the directories.                                          *)
(***************************************************************************)

\* Before the start there is nothing.
NotBegun == caller = "S0" => unit = "inactive" /\ ~procs /\ dirs = {}

\* The checks of the cleanup are made in an order in which each stays true.
CleanedSoFar ==
    /\ caller \in {"kill", "terminal", "cgroup", "directory"} => unit # "queued"
    /\ caller \in {"cgroup", "directory"} => unit = "inactive"
    /\ caller = "directory" => ~procs

\* Only a result is cleaned up for the first time when it is lost.
CleanedTwice ==
    /\ caller \in Client!Phase => cleanups = 0 /\ result = "none"
    /\ caller \in Client!Cleanup => \/ result = "result" /\ cleanups = 1
                                    \/ result = "error" /\ cleanups \in 1..2

InvocationInv == /\ Client!TypeOK /\ Client!NothingLeft
                 /\ NotBegun /\ CleanedSoFar /\ CleanedTwice

LEMMA InvocationInit ==
    ASSUME Client!Init
    PROVE  InvocationInv
<1>1. /\ caller = "S0" /\ result = "none" /\ cleanups = 0
      /\ unit = "inactive" /\ ~procs /\ dirs = {} /\ file = "none"
      /\ procs \in BOOLEAN /\ status \in BOOLEAN /\ published \in BOOLEAN
  BY DEF Client!Init
<1>2. Client!TypeOK
  BY <1>1 DEF Client!TypeOK, Client!Phase, Client!Outcome
<1>3. Client!NothingLeft /\ NotBegun /\ CleanedSoFar
  BY <1>1 DEF Client!NothingLeft, NotBegun, CleanedSoFar
<1>4. CleanedTwice
  BY <1>1 DEF CleanedTwice, Client!Cleanup
<1>5. QED
  BY <1>2, <1>3, <1>4 DEF InvocationInv

\* A failure of the worker leads into the cleanup, from a phase or from the cleanup
\* of a result, whatever else the step that failed has done.
LEMMA FailKeeps ==
    ASSUME InvocationInv, Client!Fail, UNCHANGED <<status, dirs, published>>,
           unit' \in {"inactive", "queued", "start-pre", "start", "running", "stopping", "stop-post"},
           procs' \in BOOLEAN, file' \in {"none", "written", "sealed"},
           \/ caller \in Client!Phase
           \/ caller \in Client!Cleanup /\ result = "result"
    PROVE  InvocationInv'
<1>1. caller' = "stop" /\ result' = "error" /\ cleanups' = cleanups + 1
  BY DEF Client!Fail
<1>2. cleanups \in 0..1
  BY DEF InvocationInv, CleanedTwice
<1>3. cleanups' \in 1..2
  BY <1>1, <1>2
<1>4. Client!TypeOK'
  BY <1>1, <1>3 DEF InvocationInv, Client!TypeOK, Client!Phase, Client!Cleanup, Client!Over,
        Client!Outcome
<1>5. Client!NothingLeft' /\ NotBegun' /\ CleanedSoFar'
  BY <1>1 DEF Client!NothingLeft, NotBegun, CleanedSoFar
<1>6. CleanedTwice'
  BY <1>1, <1>3 DEF CleanedTwice, Client!Phase, Client!Cleanup
<1>7. QED
  BY <1>4, <1>5, <1>6 DEF InvocationInv

LEMMA CallerStepKeeps ==
    ASSUME InvocationInv, Client!CallerStep
    PROVE  InvocationInv'
<1> USE DEF Client!Goto, Client!unitVars, Client!fileVars, Client!callerVars
<1>1. CASE Client!Start
  <2>1. caller = "S0" /\ UNCHANGED <<status, procs, dirs, file, published>>
    BY <1>1 DEF Client!Start
  <2>2. CASE unit' = "queued" /\ caller' = "S1" /\ UNCHANGED <<result, cleanups>>
    BY <2>1, <2>2 DEF InvocationInv, Client!TypeOK, Client!NothingLeft, NotBegun, CleanedSoFar,
          CleanedTwice, Client!Phase, Client!Cleanup, Client!Over
  <2>3. CASE UNCHANGED <<unit, cleanups>> /\ caller' = "ended" /\ result' = "error"
    BY <2>1, <2>3 DEF InvocationInv, Client!TypeOK, Client!NothingLeft, Client!Gone, NotBegun, CleanedSoFar,
          CleanedTwice, Client!Phase, Client!Cleanup, Client!Over, Client!Outcome
  <2>4. CASE /\ unit' \in {unit, "queued"} /\ UNCHANGED cleanups
             /\ caller' = "ended" /\ result' = "unstarted"
    BY <2>1, <2>4 DEF InvocationInv, Client!TypeOK, Client!NothingLeft, NotBegun, CleanedSoFar,
          CleanedTwice, Client!Phase, Client!Cleanup, Client!Over
  <2>5. QED
    BY <1>1, <2>2, <2>3, <2>4 DEF Client!Start
<1>2. CASE Client!Wait
  <2>1. caller \in {"S1", "S3", "S4", "S5"} /\ UNCHANGED <<unit, status, procs, dirs, file, published>>
    BY <1>2 DEF Client!Wait
  <2>2. CASE caller = "S5"
    <3>1. caller' = "stop" /\ result' = "result" /\ cleanups' = cleanups + 1 /\ cleanups = 0
      BY <1>2, <2>2 DEF Client!Wait, InvocationInv, CleanedTwice, Client!Phase
    <3>2. QED
      BY <2>1, <2>2, <3>1 DEF InvocationInv, Client!TypeOK, Client!NothingLeft, NotBegun,
            CleanedSoFar, CleanedTwice, Client!Phase, Client!Cleanup, Client!Over, Client!Outcome
  <2>3. CASE caller # "S5"
    <3>1. caller' \in {"S2", "S4", "S5"} /\ UNCHANGED <<result, cleanups>>
      BY <1>2, <2>1, <2>3 DEF Client!Wait, Client!After
    <3>2. QED
      BY <2>1, <3>1 DEF InvocationInv, Client!TypeOK, Client!NothingLeft, NotBegun, CleanedSoFar,
            CleanedTwice, Client!Phase, Client!Cleanup, Client!Over
  <2>4. QED
    BY <2>2, <2>3
<1>3. CASE \/ Client!SeesTerminal \/ Client!RunsOut \/ Client!Cancelled
           \/ Client!BadDirectory \/ Client!BadResult
  <2>1. /\ Client!Fail /\ UNCHANGED <<unit, status, procs, dirs, file, published>>
        /\ caller \in Client!Phase
    BY <1>3 DEF Client!SeesTerminal, Client!RunsOut, Client!Cancelled, Client!BadDirectory,
          Client!BadResult, Client!Phase
  <2>2. QED
    BY <2>1, FailKeeps DEF InvocationInv, Client!TypeOK
<1>4. CASE Client!WriteRequest
  <2>1. /\ caller = "S2" /\ file' = "written"
        /\ UNCHANGED <<unit, status, procs, dirs, published>>
    BY <1>4 DEF Client!WriteRequest
  <2>2. CASE caller' = "S3" /\ UNCHANGED <<result, cleanups>>
    BY <2>1, <2>2 DEF InvocationInv, Client!TypeOK, Client!NothingLeft, NotBegun, CleanedSoFar,
          CleanedTwice, Client!Phase, Client!Cleanup, Client!Over
  <2>3. CASE Client!Fail
    BY <2>1, <2>3, FailKeeps DEF InvocationInv, Client!TypeOK, Client!Phase
  <2>4. QED
    BY <1>4, <2>2, <2>3 DEF Client!WriteRequest
<1>5. CASE Client!Stop
  <2>1. /\ caller = "stop" /\ caller' = "kill"
        /\ UNCHANGED <<result, cleanups, status, procs, dirs, file, published>>
    BY <1>5 DEF Client!Stop
  <2>2. unit' \in {"inactive", "stopping", "stop-post"}
    <3>1. unit \in {"inactive", "queued", "start-pre", "start", "running", "stopping", "stop-post"}
      BY DEF InvocationInv, Client!TypeOK
    <3>2. unit' = CASE unit = "queued" -> "inactive"
                    [] unit \in {"start-pre", "start", "running"} -> "stopping"
                    [] OTHER -> unit
      BY <1>5 DEF Client!Stop, Client!Stopped
    <3>3. CASE unit = "queued"
      BY <3>2, <3>3
    <3>4. CASE unit \in {"start-pre", "start", "running"}
      BY <3>2, <3>4
    <3>5. CASE unit \in {"inactive", "stopping", "stop-post"}
      BY <3>2, <3>5
    <3>6. QED
      BY <3>1, <3>3, <3>4, <3>5
  <2>3. QED
    BY <2>1, <2>2 DEF InvocationInv, Client!TypeOK, Client!NothingLeft, NotBegun, CleanedSoFar,
          CleanedTwice, Client!Phase, Client!Cleanup, Client!Over
<1>6. CASE Client!KillAll
  <2>1. /\ caller = "kill" /\ caller' = "terminal" /\ procs' \in {procs, FALSE}
        /\ UNCHANGED <<result, cleanups, unit, status, dirs, file, published>>
    BY <1>6 DEF Client!KillAll, Client!Killed
  <2>2. procs' \in BOOLEAN
    BY <2>1 DEF InvocationInv, Client!TypeOK
  <2>3. QED
    BY <2>1, <2>2 DEF InvocationInv, Client!TypeOK, Client!NothingLeft, NotBegun, CleanedSoFar,
          CleanedTwice, Client!Phase, Client!Cleanup, Client!Over
<1>7. CASE Client!Check
  <2>1. /\ caller \in {"terminal", "cgroup", "directory"}
        /\ UNCHANGED <<result, cleanups, unit, status, procs, dirs, file, published>>
    BY <1>7 DEF Client!Check
  <2>2. CASE caller = "terminal"
    <3>1. caller' = "cgroup" /\ unit \in {"inactive", "queued"}
      BY <1>7, <2>2 DEF Client!Check, Client!NextCheck, Client!Passed, Client!IsTerminal
    <3>2. unit = "inactive"
      BY <2>2, <3>1 DEF InvocationInv, CleanedSoFar
    <3>3. QED
      BY <2>1, <2>2, <3>1, <3>2 DEF InvocationInv, Client!TypeOK, Client!NothingLeft, NotBegun,
            CleanedSoFar, CleanedTwice, Client!Phase, Client!Cleanup, Client!Over
  <2>3. CASE caller = "cgroup"
    <3>1. caller' = "directory" /\ ~procs
      BY <1>7, <2>3 DEF Client!Check, Client!NextCheck, Client!Passed
    <3>2. QED
      BY <2>1, <2>3, <3>1 DEF InvocationInv, Client!TypeOK, Client!NothingLeft, NotBegun,
            CleanedSoFar, CleanedTwice, Client!Phase, Client!Cleanup, Client!Over
  <2>4. CASE caller = "directory"
    <3>1. caller' = "ended" /\ "invocation" \notin dirs
      BY <1>7, <2>4 DEF Client!Check, Client!NextCheck, Client!Passed
    <3>2. QED
      BY <2>1, <2>4, <3>1 DEF InvocationInv, Client!TypeOK, Client!NothingLeft, Client!Gone, NotBegun,
            CleanedSoFar, CleanedTwice, Client!Phase, Client!Cleanup, Client!Over
  <2>5. QED
    BY <2>1, <2>2, <2>3, <2>4
<1>8. CASE Client!CleanupFails
  <2>1. caller \in Client!Cleanup /\ UNCHANGED <<status, dirs, file, published>>
    BY <1>8 DEF Client!CleanupFails
  <2>2. /\ unit' \in {unit, Client!Stopped} /\ procs' \in BOOLEAN
        /\ unit' \in {"inactive", "queued", "start-pre", "start", "running", "stopping", "stop-post"}
    <3>1. unit' \in {unit, Client!Stopped} /\ procs' \in {procs, FALSE}
      BY <1>8 DEF Client!CleanupFails, Client!Killed
    <3>2. QED
      BY <3>1 DEF Client!Stopped, InvocationInv, Client!TypeOK
  <2>3. CASE result = "result"
    BY <1>8, <2>1, <2>2, <2>3, FailKeeps DEF Client!CleanupFails, InvocationInv, Client!TypeOK
  <2>4. CASE result # "result"
    <3>1. caller' = "ended" /\ result' = "uncleaned" /\ UNCHANGED cleanups
      BY <1>8, <2>4 DEF Client!CleanupFails
    <3>2. QED
      BY <2>1, <2>2, <3>1 DEF InvocationInv, Client!TypeOK, Client!NothingLeft, NotBegun,
            CleanedSoFar, CleanedTwice, Client!Phase, Client!Cleanup, Client!Over
  <2>5. QED
    BY <2>3, <2>4
<1>9. QED
  BY <1>1, <1>2, <1>3, <1>4, <1>5, <1>6, <1>7, <1>8 DEF Client!CallerStep

\* What the worker has found to be over stays over.
LEMMA UnitStepKeeps ==
    ASSUME InvocationInv, Client!UnitStep
    PROVE  InvocationInv'
<1> USE DEF Client!unitVars, Client!fileVars, Client!callerVars
<1>1. UNCHANGED <<caller, result, cleanups>>
  BY DEF Client!UnitStep, Client!UnitStarts, Client!Prepare, Client!Approve, Client!Ready,
        Client!Publish, Client!UnitFails, Client!UnitStops, Client!StopPost, Client!ProcessEnds
<1>2. Client!TypeOK
  BY DEF InvocationInv
<1>3. Client!TypeOK'
  <2>1. CASE Client!UnitStarts \/ Client!UnitFails \/ Client!Approve \/ Client!Ready
    BY <1>1, <1>2, <2>1 DEF Client!UnitStarts, Client!UnitFails, Client!Approve, Client!Ready,
          Client!TypeOK
  <2>2. CASE Client!Prepare
    <3>1. dirs' \subseteq {"approved", "invocation"} /\ UNCHANGED <<unit, status, procs, file, published>>
      BY <2>2 DEF Client!Prepare
    <3>2. QED
      BY <1>1, <1>2, <3>1 DEF Client!TypeOK
  <2>3. CASE Client!Publish
    BY <1>1, <1>2, <2>3 DEF Client!Publish, Client!TypeOK
  <2>4. CASE Client!UnitStops \/ Client!ProcessEnds
    BY <1>1, <1>2, <2>4 DEF Client!UnitStops, Client!ProcessEnds, Client!TypeOK
  <2>5. CASE Client!StopPost
    <3>1. dirs' \subseteq dirs /\ unit' = "inactive" /\ UNCHANGED <<status, procs>>
      BY <2>5 DEF Client!StopPost
    <3>2. file' \in {"none", file} /\ published' \in BOOLEAN
      BY <2>5 DEF Client!StopPost
    <3>3. QED
      BY <1>1, <1>2, <3>1, <3>2 DEF Client!TypeOK
  <2>6. QED
    BY <2>1, <2>2, <2>3, <2>4, <2>5 DEF Client!UnitStep
<1>4. unit = "inactive" => unit' = "inactive" /\ (~procs => ~procs') /\ dirs' = dirs
  BY DEF Client!UnitStep, Client!UnitStarts, Client!Prepare, Client!Approve, Client!Ready,
        Client!Publish, Client!UnitFails, Client!UnitStops, Client!StopPost, Client!ProcessEnds
<1>5. unit' # "queued" \/ unit' = unit
  BY DEF Client!UnitStep, Client!UnitStarts, Client!Prepare, Client!Approve, Client!Ready,
        Client!Publish, Client!UnitFails, Client!UnitStops, Client!StopPost, Client!ProcessEnds
<1>6. Client!NothingLeft' /\ NotBegun'
  BY <1>1, <1>4 DEF InvocationInv, Client!NothingLeft, Client!Gone, NotBegun
<1>7. CleanedSoFar'
  BY <1>1, <1>4, <1>5 DEF InvocationInv, CleanedSoFar
<1>8. CleanedTwice'
  BY <1>1 DEF InvocationInv, CleanedTwice
<1>9. QED
  BY <1>3, <1>6, <1>7, <1>8 DEF InvocationInv

LEMMA InvocationStep ==
    ASSUME InvocationInv, [Client!Next]_sandbox
    PROVE  InvocationInv'
<1>1. CASE UNCHANGED sandbox
  BY <1>1 DEF sandbox, InvocationInv, Client!TypeOK, Client!NothingLeft, Client!Gone, NotBegun, CleanedSoFar,
        CleanedTwice
<1>2. CASE Client!WorkerDies
  <2>1. /\ caller' = "dead" /\ result' = "none"
        /\ UNCHANGED <<cleanups, unit, status, procs, dirs, file, published>>
    BY <1>2 DEF Client!WorkerDies, Client!unitVars, Client!fileVars
  <2>2. QED
    BY <2>1 DEF InvocationInv, Client!TypeOK, Client!NothingLeft, NotBegun, CleanedSoFar,
          CleanedTwice, Client!Phase, Client!Cleanup, Client!Over, Client!Outcome
<1>3. CASE Client!CollectOrphan
  <2>1. /\ dirs' = {} /\ file' = "none" /\ published' = FALSE
        /\ UNCHANGED <<caller, result, cleanups, unit, status, procs>>
    BY <1>3 DEF Client!CollectOrphan, Client!callerVars, Client!unitVars
  <2>2. QED
    BY <2>1 DEF InvocationInv, Client!TypeOK, Client!NothingLeft, Client!Gone, NotBegun, CleanedSoFar,
          CleanedTwice
<1>4. QED
  BY <1>1, <1>2, <1>3, CallerStepKeeps, UnitStepKeeps DEF Client!Next

-----------------------------------------------------------------------------
(***************************************************************************)
(* The call.  The requests the endpoint received are those of the raw call *)
(* before, all of them at most, and of this one those before the request   *)
(* that is being made; once its answer is there, that one too.             *)
(***************************************************************************)

SentBefore == IF raws = 2 THEN Retries + 1 ELSE 0

RequestsCounted ==
    /\ raws \in 1..2 /\ request \in 1..Retries + 1
    /\ posts <= SentBefore + request
    /\ step \in {"validating", "requesting", "receiving", "spawning"} =>
         posts + 1 <= SentBefore + request
    /\ setup.payg => raws = 1

\* An HTTP call is never where a command is, nor the reverse; a command has no
\* request but the first.
OwnWay == /\ step \in {"validating", "requesting", "receiving"} => setup.kind = "http"
          /\ step \in {"spawning", "running"} => setup.kind = "command"
          /\ step = "validating" => raws = 1

CallInv == /\ Call!TypeOK /\ Call!ConnectsWithinScope
           /\ RequestsCounted /\ OwnWay

LEMMA RequestsStayBounded ==
    ASSUME CallInv
    PROVE  Call!RequestsBounded
<1>1. Retries \in Nat /\ posts \in Nat /\ raws \in 1..2 /\ request \in 1..Retries + 1
  BY EndingsAssumption DEF CallInv, Call!TypeOK, RequestsCounted
<1>2. posts <= SentBefore + request
  BY DEF CallInv, RequestsCounted
<1>3. CASE setup.payg
  <2>1. posts <= request
    BY <1>1, <1>2, <1>3 DEF CallInv, RequestsCounted, SentBefore
  <2>2. QED
    BY <1>1, <1>3, <2>1 DEF Call!RequestsBounded
<1>4. CASE ~setup.payg
  <2>1. posts <= (Retries + 1) + request
    BY <1>1, <1>2 DEF SentBefore
  <2>2. posts <= 2 * (Retries + 1)
    BY <1>1, <2>1
  <2>3. QED
    BY <1>4, <2>2 DEF Call!RequestsBounded
<1>5. QED
  BY <1>3, <1>4

LEMMA CallInit ==
    ASSUME Call!Init
    PROVE  CallInv
<1>1. /\ setup \in Call!Setup /\ answer \in Call!Answer /\ changes = 0
      /\ raws = 1 /\ request = 1 /\ posts = 0 /\ reached = {} /\ outcome = "none"
      /\ child = Call!NoChild
      /\ step = IF setup.kind = "http" THEN "validating" ELSE "spawning"
  BY DEF Call!Init
<1>2. setup.kind \in {"http", "command"}
  BY <1>1 DEF Call!Setup
<1>3. \/ setup.kind = "http" /\ step = "validating"
      \/ setup.kind = "command" /\ step = "spawning"
  BY <1>1, <1>2
<1>4. Call!TypeOK
  <2>1. child \in [alive : BOOLEAN, settled : BOOLEAN, term : BOOLEAN,
                   exit : {"none", "zero", "failed", "killed"}]
    BY <1>1 DEF Call!NoChild
  <2>2. changes \in 0..MaxChanges /\ raws \in 0..2 /\ request \in 0..Retries + 1
        /\ posts \in 0..2 * (Retries + 1)
    BY <1>1, EndingsAssumption
  <2>3. outcome \in Call!Outcome /\ reached \subseteq Call!Category
    BY <1>1 DEF Call!Outcome
  <2>4. step \in {"validating", "requesting", "receiving", "spawning", "running", "parsing", "done"}
    BY <1>3
  <2>5. QED
    BY <1>1, <2>1, <2>2, <2>3, <2>4 DEF Call!TypeOK
<1>5. Call!ConnectsWithinScope
  BY <1>1 DEF Call!ConnectsWithinScope
<1>6. RequestsCounted
  BY <1>1, EndingsAssumption DEF RequestsCounted, SentBefore
<1>7. OwnWay
  BY <1>1, <1>3 DEF OwnWay
<1>8. QED
  BY <1>4, <1>5, <1>6, <1>7 DEF CallInv

\* What a step may do that reaches nobody and sends nothing: it ends the call, or
\* goes on with a request that is at least as late.
LEMMA QuietStepKeeps ==
    ASSUME CallInv, UNCHANGED <<setup, raws, posts, reached>>,
           answer' \in Call!Answer, changes' \in 0..MaxChanges,
           child' \in [alive : BOOLEAN, settled : BOOLEAN, term : BOOLEAN,
                       exit : {"none", "zero", "failed", "killed"}],
           outcome' \in Call!Outcome,
           request' \in request..Retries + 1,
           \/ step' = step
           \/ step' \in {"done", "parsing"}
           \/ step \in {"validating", "requesting", "receiving"}
              /\ step' \in {"requesting", "receiving"}
    PROVE  CallInv'
<1>1. /\ Call!TypeOK /\ Retries \in Nat /\ posts \in Nat /\ raws \in 1..2
      /\ request \in 1..Retries + 1
  BY EndingsAssumption DEF CallInv, RequestsCounted, Call!TypeOK
<1>2. request' \in 1..Retries + 1 /\ request <= request' /\ SentBefore' = SentBefore
      /\ SentBefore \in Nat
  BY <1>1 DEF SentBefore
<1>3. step' \in {"validating", "requesting", "receiving", "spawning", "running", "parsing", "done"}
  BY <1>1 DEF Call!TypeOK
<1>4. Call!TypeOK'
  BY <1>1, <1>2, <1>3 DEF Call!TypeOK
<1>5. Call!ConnectsWithinScope'
  BY DEF CallInv, Call!ConnectsWithinScope, Call!Permitted
<1>6. RequestsCounted'
  <2>1. /\ posts <= SentBefore + request'
        /\ posts + 1 <= SentBefore + request => posts + 1 <= SentBefore + request'
    <3>1. request \in Nat /\ request' \in Nat /\ request <= request'
      BY <1>1, <1>2
    <3>2. /\ SentBefore \in Nat /\ posts \in Nat /\ request \in Nat
          /\ posts <= SentBefore + request
      BY <1>1, <1>2 DEF CallInv, RequestsCounted
    <3>3. PICK later \in Nat : request' = later /\ request <= later
      BY <3>1
    <3>4. QED
      BY <3>2, <3>3
  <2>2. step' \in {"validating", "requesting", "receiving", "spawning"} =>
          posts + 1 <= SentBefore + request'
    <3>1. step' \in {"validating", "requesting", "receiving", "spawning"} =>
            step \in {"validating", "requesting", "receiving", "spawning"}
      OBVIOUS
    <3>2. QED
      BY <2>1, <3>1 DEF CallInv, RequestsCounted
  <2>3. QED
    BY <1>1, <1>2, <2>1, <2>2 DEF CallInv, RequestsCounted
<1>7. OwnWay'
  BY DEF CallInv, OwnWay
<1>8. QED
  BY <1>4, <1>5, <1>6, <1>7 DEF CallInv

\* The first address of an answer that is pinned is in scope.
LEMMA PinnedInScope ==
    ASSUME Call!Pinned(answer), answer \in Call!Answer
    PROVE  answer[1] \in Call!Permitted(setup.scope)
<1>1. PICK n \in 0..2 : answer \in [1..n -> Call!Category]
  BY DEF Call!Answer
<1>2. answer # <<>> /\ \A m \in 1..Len(answer) : answer[m] \in Call!Permitted(setup.scope)
  BY DEF Call!Pinned
<1>3. answer \in Seq(Call!Category) /\ Len(answer) = n
  BY <1>1, IsASeq
<1>4. Len(answer) # 0
  BY <1>2, <1>3, EmptySeq
<1>5. 1 \in 1..Len(answer)
  BY <1>3, <1>4
<1>6. QED
  BY <1>2, <1>5

\* A request that reached nobody is made again, or was the last.
LEMMA RetryKeeps ==
    ASSUME CallInv, step \in {"requesting", "receiving"}, Call!RetryOr("unavailable"),
           UNCHANGED <<setup, answer, changes, raws, posts, reached, child>>
    PROVE  CallInv'
<1>1. /\ Call!TypeOK /\ Retries \in Nat /\ request \in 1..Retries + 1
  BY EndingsAssumption DEF CallInv, RequestsCounted, Call!TypeOK
<1>2. CASE request <= Retries
  <2>1. step' = "requesting" /\ request' = request + 1 /\ UNCHANGED outcome
    BY <1>2 DEF Call!RetryOr
  <2>2. request' \in request..Retries + 1
    BY <1>1, <1>2, <2>1
  <2>3. QED
    BY <1>1, <2>1, <2>2, QuietStepKeeps DEF Call!TypeOK
<1>3. CASE ~(request <= Retries)
  <2>1. step' = "done" /\ outcome' = "unavailable" /\ UNCHANGED request
    BY <1>3 DEF Call!RetryOr, Call!End
  <2>2. request' \in request..Retries + 1 /\ outcome' \in Call!Outcome
    BY <1>1, <2>1 DEF Call!Outcome
  <2>3. QED
    BY <1>1, <2>1, <2>2, QuietStepKeeps DEF Call!TypeOK
<1>4. QED
  BY <1>2, <1>3

LEMMA RequestKeeps ==
    ASSUME CallInv, Call!Request
    PROVE  CallInv'
<1>1. /\ Call!TypeOK /\ step = "requesting"
      /\ UNCHANGED <<setup, answer, changes, raws, posts, child>>
      /\ Retries \in Nat /\ posts \in Nat /\ request \in 1..Retries + 1
  BY EndingsAssumption DEF CallInv, RequestsCounted, Call!TypeOK, Call!Request
<1>2. CASE Call!Destination
  <2>1. /\ reached' = reached \cup {answer[1]} /\ step' = "receiving"
        /\ UNCHANGED <<request, outcome>>
    BY <1>2 DEF Call!Request
  <2>2. answer[1] \in Call!Permitted(setup.scope)
    BY <1>1, <1>2, PinnedInScope DEF Call!Destination, Call!TypeOK
  <2>3. setup.scope \in Call!Scope
    BY <1>1 DEF Call!TypeOK, Call!Setup
  <2>4. Call!Permitted(setup.scope) \subseteq Call!Category
    BY <2>3 DEF Call!Permitted, Call!Scope, Call!Category
  <2>5. reached' \subseteq Call!Permitted(setup.scope)
    BY <2>1, <2>2 DEF CallInv, Call!ConnectsWithinScope
  <2>6. Call!ConnectsWithinScope'
    BY <1>1, <2>5 DEF Call!ConnectsWithinScope, Call!Permitted
  <2>7. Call!TypeOK'
    BY <1>1, <2>1, <2>4, <2>5 DEF Call!TypeOK
  <2>8. RequestsCounted'
    BY <1>1, <2>1 DEF CallInv, RequestsCounted, SentBefore
  <2>9. OwnWay'
    BY <1>1, <2>1 DEF CallInv, OwnWay
  <2>10. QED
    BY <2>6, <2>7, <2>8, <2>9 DEF CallInv
<1>3. CASE ~Call!Destination
  BY <1>1, <1>3, RetryKeeps DEF Call!Request
<1>4. QED
  BY <1>2, <1>3

\* A step that counts one request more, and is then past it.
LEMMA CountedStepKeeps ==
    ASSUME CallInv, step \in {"receiving", "spawning"}, posts' = posts + 1,
           UNCHANGED <<setup, answer, changes, raws, reached>>,
           child' \in [alive : BOOLEAN, settled : BOOLEAN, term : BOOLEAN,
                       exit : {"none", "zero", "failed", "killed"}],
           outcome' \in Call!Outcome,
           \/ step' \in {"parsing", "done"} /\ request' = request
           \/ step' = "running" /\ request' = request /\ setup.kind = "command"
           \/ /\ step' = "requesting" /\ request' = request + 1 /\ request <= Retries
              /\ setup.kind = "http"
    PROVE  CallInv'
<1>1. /\ Call!TypeOK /\ Retries \in Nat /\ posts \in Nat /\ raws \in 1..2
      /\ request \in 1..Retries + 1 /\ posts + 1 <= SentBefore + request
  BY EndingsAssumption DEF CallInv, RequestsCounted, Call!TypeOK
<1>2. SentBefore' = SentBefore /\ SentBefore \in {0, Retries + 1}
  BY <1>1 DEF SentBefore
<1>3. request' \in 1..Retries + 1 /\ request <= request'
  BY <1>1
<1>4. posts' <= SentBefore + request' /\ (step' = "requesting" => posts' + 1 <= SentBefore + request')
  <2>1. request \in Nat /\ SentBefore \in Nat
    BY <1>1, <1>2
  <2>2. CASE request' = request /\ step' # "requesting"
    BY <1>1, <2>1, <2>2
  <2>3. CASE request' = request + 1
    <3>1. posts' + 1 <= SentBefore + request'
      BY <1>1, <2>1, <2>3
    <3>2. QED
      BY <1>1, <2>1, <2>3, <3>1
  <2>4. QED
    BY <2>2, <2>3
<1>5. posts' \in 0..2 * (Retries + 1)
  <2>1. posts + 1 <= (Retries + 1) + (Retries + 1)
    BY <1>1, <1>2
  <2>2. QED
    BY <1>1, <2>1
<1>6. Call!TypeOK'
  BY <1>1, <1>3, <1>5 DEF Call!TypeOK
<1>7. Call!ConnectsWithinScope'
  BY DEF CallInv, Call!ConnectsWithinScope, Call!Permitted
<1>8. RequestsCounted'
  <2>1. step' \notin {"validating", "receiving", "spawning"}
    OBVIOUS
  <2>2. setup'.payg => raws' = 1
    BY DEF CallInv, RequestsCounted
  <2>3. QED
    BY <1>1, <1>2, <1>3, <1>4, <2>1, <2>2 DEF RequestsCounted
<1>9. OwnWay'
  BY DEF CallInv, OwnWay
<1>10. QED
  BY <1>6, <1>7, <1>8, <1>9 DEF CallInv

LEMMA ParseKeeps ==
    ASSUME CallInv, Call!Parse
    PROVE  CallInv'
<1>1. /\ Call!TypeOK /\ step = "parsing"
      /\ UNCHANGED <<setup, answer, changes, posts, reached>>
      /\ Retries \in Nat /\ posts \in Nat /\ request \in 1..Retries + 1
  BY EndingsAssumption DEF CallInv, RequestsCounted, Call!TypeOK, Call!Parse
<1>2. CASE step' = "done" /\ outcome' \in Call!Outcome /\ UNCHANGED <<raws, request, child>>
  <2>1. request' \in request..Retries + 1
    BY <1>1, <1>2
  <2>2. QED
    BY <1>1, <1>2, <2>1, QuietStepKeeps DEF Call!TypeOK
<1>3. CASE /\ Call!Repairs /\ raws' = 2 /\ request' = 1 /\ child' = Call!NoChild
           /\ UNCHANGED outcome
           /\ step' = IF setup.kind = "http" THEN "requesting" ELSE "spawning"
  <2>1. raws = 1 /\ ~setup.payg
    BY <1>3 DEF Call!Repairs
  <2>2. setup.kind \in {"http", "command"}
    BY <1>1 DEF Call!TypeOK, Call!Setup
  <2>3. posts <= request
    BY <1>1, <2>1 DEF CallInv, RequestsCounted, SentBefore
  <2>4. child' \in [alive : BOOLEAN, settled : BOOLEAN, term : BOOLEAN,
                    exit : {"none", "zero", "failed", "killed"}]
    BY <1>3 DEF Call!NoChild
  <2>5. Call!TypeOK'
    BY <1>1, <1>3, <2>4 DEF Call!TypeOK
  <2>6. Call!ConnectsWithinScope'
    BY <1>1 DEF CallInv, Call!ConnectsWithinScope, Call!Permitted
  <2>7. RequestsCounted'
    BY <1>1, <1>3, <2>1, <2>3 DEF RequestsCounted, SentBefore
  <2>8. OwnWay'
    BY <1>1, <1>3, <2>2 DEF OwnWay
  <2>9. QED
    BY <2>5, <2>6, <2>7, <2>8 DEF CallInv
<1>4. QED
  BY <1>2, <1>3 DEF Call!Parse, Call!End, Call!Outcome

LEMMA CallStep ==
    ASSUME CallInv, [Call!Next]_command
    PROVE  CallInv'
<1>1. /\ Call!TypeOK /\ Retries \in Nat /\ request \in 1..Retries + 1
      /\ request \in request..Retries + 1
  BY EndingsAssumption DEF CallInv, RequestsCounted, Call!TypeOK
<1>2. setup.kind \in {"http", "command"}
  BY <1>1 DEF Call!TypeOK, Call!Setup
<1>3. CASE UNCHANGED command
  <2>1. UNCHANGED <<setup, answer, changes, step, raws, request, posts, reached, outcome, child>>
    BY <1>3 DEF command
  <2>2. QED
    BY <1>1, <2>1, QuietStepKeeps DEF Call!TypeOK
<1>4. CASE Call!AnswerChanges
  <2>1. /\ changes < MaxChanges /\ changes' = changes + 1 /\ answer' \in Call!Answer
        /\ UNCHANGED <<setup, step, raws, request, posts, reached, outcome, child>>
    BY <1>4 DEF Call!AnswerChanges
  <2>2. changes' \in 0..MaxChanges
    BY <1>1, <2>1, EndingsAssumption DEF Call!TypeOK
  <2>3. QED
    BY <1>1, <2>1, <2>2, QuietStepKeeps DEF Call!TypeOK
<1>5. CASE Call!Validate
  <2>1. /\ step = "validating" /\ UNCHANGED <<setup, answer, changes, raws, request, posts, reached, child>>
        /\ \/ step' = "requesting" /\ UNCHANGED outcome
           \/ step' = "done" /\ outcome' = "misconfigured"
    BY <1>5 DEF Call!Validate, Call!End
  <2>2. outcome' \in Call!Outcome
    BY <1>1, <2>1 DEF Call!TypeOK, Call!Outcome
  <2>3. QED
    BY <1>1, <2>1, <2>2, QuietStepKeeps DEF Call!TypeOK
<1>6. CASE Call!Request
  BY <1>6, RequestKeeps
<1>7. CASE Call!Respond
  <2>1. /\ step = "receiving"
        /\ UNCHANGED <<setup, answer, changes, raws, reached, child>>
        /\ setup.kind = "http"
    BY <1>7 DEF Call!Respond, CallInv, OwnWay
  <2>2. CASE posts' = posts + 1 /\ Call!Answered
    <3>1. /\ outcome' \in Call!Outcome
          /\ \/ step' \in {"parsing", "done"} /\ request' = request
             \/ step' = "requesting" /\ request' = request + 1 /\ request <= Retries
      BY <1>1, <2>2 DEF Call!Answered, Call!RetryOr, Call!End, Call!TypeOK, Call!Outcome
    <3>2. QED
      BY <1>1, <2>1, <2>2, <3>1, CountedStepKeeps DEF Call!TypeOK
  <2>3. CASE UNCHANGED posts /\ Call!RetryOr("unavailable")
    BY <2>1, <2>3, RetryKeeps
  <2>4. QED
    BY <1>7, <2>2, <2>3 DEF Call!Respond
<1>8. CASE Call!Spawn
  <2>1. /\ step = "spawning" /\ UNCHANGED <<setup, answer, changes, raws, request, reached>>
        /\ setup.kind = "command"
    BY <1>8 DEF Call!Spawn, CallInv, OwnWay
  <2>2. CASE step' = "running" /\ UNCHANGED outcome /\ child' = [Call!NoChild EXCEPT !.alive = TRUE]
    <3>1. posts' = posts + 1
      BY <1>8, <2>2 DEF Call!Spawn
    <3>2. child' \in [alive : BOOLEAN, settled : BOOLEAN, term : BOOLEAN,
                      exit : {"none", "zero", "failed", "killed"}]
      BY <2>2 DEF Call!NoChild
    <3>3. QED
      BY <1>1, <2>1, <2>2, <3>1, <3>2, CountedStepKeeps DEF Call!TypeOK
  <2>3. CASE step' = "done" /\ outcome' = "execution" /\ UNCHANGED child
    <3>1. posts' = posts
      BY <1>1, <1>8, <2>3 DEF Call!Spawn, Call!TypeOK
    <3>2. outcome' \in Call!Outcome
      BY <2>3 DEF Call!Outcome
    <3>3. QED
      BY <1>1, <2>1, <2>3, <3>1, <3>2, QuietStepKeeps DEF Call!TypeOK
  <2>4. QED
    BY <1>8, <2>2, <2>3 DEF Call!Spawn, Call!End
<1>9. CASE Call!Terminate \/ Call!Close
  <2>1. UNCHANGED <<setup, answer, changes, raws, request, posts, reached>>
    BY <1>9 DEF Call!Terminate, Call!Close
  <2>2. child' \in [alive : BOOLEAN, settled : BOOLEAN, term : BOOLEAN,
                    exit : {"none", "zero", "failed", "killed"}]
    BY <1>1, <1>9 DEF Call!Terminate, Call!Close, Call!TypeOK
  <2>3. step' \in {"done", "parsing"} /\ outcome' \in Call!Outcome
    BY <1>1, <1>9 DEF Call!Terminate, Call!Close, Call!End, Call!TypeOK, Call!Outcome
  <2>4. QED
    BY <1>1, <2>1, <2>2, <2>3, QuietStepKeeps DEF Call!TypeOK
<1>10. CASE Call!Kill \/ Call!Exit
  <2>1. UNCHANGED <<setup, answer, changes, step, raws, request, posts, reached, outcome>>
    BY <1>10 DEF Call!Kill, Call!Exit
  <2>2. child' \in [alive : BOOLEAN, settled : BOOLEAN, term : BOOLEAN,
                    exit : {"none", "zero", "failed", "killed"}]
    BY <1>1, <1>10 DEF Call!Kill, Call!Exit, Call!TypeOK
  <2>3. QED
    BY <1>1, <2>1, <2>2, QuietStepKeeps DEF Call!TypeOK
<1>11. CASE Call!Parse
  BY <1>11, ParseKeeps
<1>12. QED
  BY <1>3, <1>4, <1>5, <1>6, <1>7, <1>8, <1>9, <1>10, <1>11 DEF Call!Next

-----------------------------------------------------------------------------
(***************************************************************************)
(* The parts together.                                                     *)
(***************************************************************************)

EndingsInv == PermitInv /\ CallInv /\ InvocationInv

LEMMA EndingsInvariant == Spec => []EndingsInv
<1>1. Init => EndingsInv
  BY PermitInit, CallInit, InvocationInit DEF Init, EndingsInv
<1>2. EndingsInv /\ [Next]_vars => EndingsInv'
  <2>1. SUFFICES ASSUME EndingsInv, [Next]_vars
                 PROVE  EndingsInv'
    OBVIOUS
  <2>2. [Semaphore!Next]_permit /\ [Call!Next]_command /\ [Client!Next]_sandbox
    BY <2>1 DEF Next, vars
  <2>3. QED
    BY <2>1, <2>2, PermitStep, CallStep, InvocationStep DEF EndingsInv
<1>3. QED
  BY <1>1, <1>2, PTL DEF Spec

\* However many retries a request has and whatever the name server answers
\* meanwhile: every connection is within the configured scope, and the endpoint is
\* asked no more often than the retries of one raw call allow, of a free one twice.
THEOREM CallsStayInBounds == Spec => []CallsInBounds
<1>1. EndingsInv => CallsInBounds
  BY RequestsStayBounded DEF EndingsInv, CallInv, CallsInBounds
<1>2. QED
  BY <1>1, EndingsInvariant, PTL

\* For any number of callers of an adapter, aborted at any moment: the permit is
\* with one of them or free.  And whatever an invocation comes to whose start was
\* confirmed or never asked for, short of a failed cleanup, nothing of it is left
\* behind: a start whose answer is lost is not cleaned up, and leaves its unit.
THEOREM NothingStaysBehind == Spec => []NothingLeft
<1>1. EndingsInv => NothingLeft
  BY DEF EndingsInv, PermitInv, InvocationInv, NothingLeft
<1>2. QED
  BY <1>1, EndingsInvariant, PTL
=============================================================================
