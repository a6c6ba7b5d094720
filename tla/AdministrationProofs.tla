--------------------------- MODULE AdministrationProofs ---------------------------
(***************************************************************************)
(* What holds of the administration for any number of clients, tabs,       *)
(* sessions, administrators, keys, revisions and probes, and any limits.   *)
(* Each part has an inductive invariant of its own; they are put together  *)
(* at the end.                                                             *)
(***************************************************************************)
EXTENDS Administration, TLAPS

-----------------------------------------------------------------------------
(***************************************************************************)
(* Logins                                                                  *)
(***************************************************************************)

\* A client's window is one of the shared window's time, or began before it.  Of
\* one that began before, the attempt that opened it is not in the shared window;
\* one that began in it may be the second, after less than a window of attempts.
SpentOfWindows(c) ==
    /\ buckets[c].from <= now
    /\ buckets[c].attempts <= PerClient
    /\ buckets[c].attempts = 0 => buckets[c].from = 0 /\ spent[c] = 0
    /\ IF buckets[c].from < global.from
       THEN buckets[c].attempts > 0 => spent[c] < buckets[c].attempts
       ELSE spent[c] < buckets[c].attempts + PerClient

\* Whoever compares within its lease has the lock.
ComparesLocked(c) ==
    entry[c].pc = "comparing" /\ now < entry[c].until =>
        lock = [owner |-> c, until |-> entry[c].until]

GuardInv ==
    /\ Guard!TypeOK
    /\ global.from <= now
    /\ global.from = 0 \/ Window <= global.from
    /\ \A c \in Client : SpentOfWindows(c)
    /\ \A c \in Client : spent[c] <= global.attempts
    /\ \A c \in Client : ComparesLocked(c)

LEMMA GuardInit ==
    ASSUME Guard!Init
    PROVE  GuardInv
<1> USE AdministrationAssumption DEF Guard!Init
<1>1. Guard!TypeOK
  BY DEF Guard!TypeOK, Guard!Row, Guard!Free, Guard!Idle
<1>2. global.from <= now /\ global.from = 0
  OBVIOUS
<1>3. ASSUME NEW c \in Client
      PROVE  SpentOfWindows(c) /\ spent[c] <= global.attempts /\ ComparesLocked(c)
  <2>1. buckets[c].from = 0 /\ buckets[c].attempts = 0 /\ spent[c] = 0 /\ entry[c].pc = "idle"
    BY DEF Guard!Idle
  <2>2. QED
    BY <2>1 DEF SpentOfWindows, ComparesLocked
<1>4. QED
  BY <1>1, <1>2, <1>3 DEF GuardInv

\* What a step does that neither counts attempts nor moves time.
LEMMA GuardLocks ==
    ASSUME GuardInv, Guard!TypeOK', UNCHANGED <<now, buckets, global, spent>>,
           \A c \in Client : ComparesLocked(c)'
    PROVE  GuardInv'
BY DEF GuardInv, SpentOfWindows

\* An attempt that counts.
LEMMA GuardConsume ==
    ASSUME GuardInv, NEW c \in Client, Guard!Consume(c)
    PROVE  GuardInv'
<1> USE AdministrationAssumption
<1> DEFINE anew == Guard!Over(global)
           own  == Guard!Over(buckets[c])
<1>1. /\ Guard!TypeOK
      /\ now \in Nat /\ now <= LastTick
      /\ global \in Guard!Row /\ buckets[c] \in Guard!Row
      /\ \A d \in Client : buckets[d].from \in Nat /\ buckets[d].attempts \in Nat /\ spent[d] \in Nat
  <2>1. Guard!TypeOK
    BY DEF GuardInv
  <2>2. /\ now \in Nat /\ now <= LastTick
        /\ global \in Guard!Row
    BY <2>1 DEF Guard!TypeOK
  <2>3. ASSUME NEW d \in Client
        PROVE  /\ buckets[d] \in Guard!Row
               /\ buckets[d].from \in Nat /\ buckets[d].attempts \in Nat /\ spent[d] \in Nat
    BY <2>1 DEF Guard!TypeOK, Guard!Row
  <2>4. QED
    BY <2>1, <2>2, <2>3
<1>2. /\ anew \/ global.attempts < Global
      /\ own \/ buckets[c].attempts < PerClient
      /\ UNCHANGED <<now, totp, allowed, lock, trusted>>
  BY DEF Guard!Consume, Guard!Left
<1>3. /\ global' = IF anew THEN [from |-> now, attempts |-> 1]
                   ELSE [global EXCEPT !.attempts = @ + 1]
      /\ buckets' = [buckets EXCEPT ![c] =
                       IF own THEN [from |-> now, attempts |-> 1]
                       ELSE [buckets[c] EXCEPT !.attempts = @ + 1]]
  BY DEF Guard!Consume, Guard!Counted
<1>4. spent' = [d \in Client |-> IF anew THEN (IF d = c THEN 1 ELSE 0)
                                 ELSE spent[d] + (IF d = c THEN 1 ELSE 0)]
  BY DEF Guard!Consume
<1>5. PICK r \in [pc : {"idle", "counted"}, until : {0}] : entry' = [entry EXCEPT ![c] = r]
  <2>1. \A pc \in {"idle", "counted"} :
          [Guard!Idle EXCEPT !.pc = pc] \in [pc : {"idle", "counted"}, until : {0}]
    BY DEF Guard!Idle
  <2>2. QED
    BY <2>1 DEF Guard!Consume
<1>7. /\ global'.from = IF anew THEN now ELSE global.from
      /\ global'.attempts = IF anew THEN 1 ELSE global.attempts + 1
      /\ global' \in Guard!Row
  <2>1. CASE anew
    BY <1>1, <1>3, <2>1, 1 \in 0..Global DEF Guard!Row
  <2>2. CASE ~anew
    BY <1>1, <1>2, <1>3, <2>2 DEF Guard!Row
  <2>3. QED
    BY <2>1, <2>2
<1>8. /\ buckets'[c].from = IF own THEN now ELSE buckets[c].from
      /\ buckets'[c].attempts = IF own THEN 1 ELSE buckets[c].attempts + 1
      /\ buckets'[c].attempts <= PerClient
      /\ buckets'[c] \in Guard!Row
      /\ buckets' \in [Client -> Guard!Row]
      /\ \A d \in Client \ {c} : buckets'[d] = buckets[d]
  <2> DEFINE row == IF own THEN [from |-> now, attempts |-> 1]
                    ELSE [buckets[c] EXCEPT !.attempts = @ + 1]
  <2>1. /\ row \in Guard!Row
        /\ row.from = IF own THEN now ELSE buckets[c].from
        /\ row.attempts = IF own THEN 1 ELSE buckets[c].attempts + 1
        /\ row.attempts <= PerClient
    BY <1>1, <1>2 DEF Guard!Row
  <2>2. buckets' = [buckets EXCEPT ![c] = row] /\ buckets \in [Client -> Guard!Row]
    BY <1>1, <1>3 DEF Guard!TypeOK
  <2> HIDE DEF row
  <2>3. QED
    BY <2>1, <2>2
<1>9. /\ global.from <= now /\ (global.from = 0 \/ Window <= global.from)
      /\ \A d \in Client : SpentOfWindows(d) /\ spent[d] <= global.attempts
  BY DEF GuardInv
<1>10. \A d \in Client : SpentOfWindows(d)'
  <2>1. CASE anew
    <3>1. global.from + Window <= now
      BY <2>1 DEF Guard!Over
    <3>2. ASSUME NEW d \in Client, d # c
          PROVE  SpentOfWindows(d)'
      <4>1. spent'[d] = 0 /\ buckets'[d] = buckets[d] /\ global'.from = now
        BY <1>4, <1>7, <1>8, <2>1, <3>2
      <4>2. QED
        BY <1>1, <1>2, <1>9, <4>1 DEF SpentOfWindows
    <3>3. SpentOfWindows(c)'
      <4>1. spent'[c] = 1 /\ global'.from = now
        BY <1>4, <1>7, <2>1
      <4>2. CASE own
        BY <1>1, <1>2, <1>8, <4>1, <4>2 DEF SpentOfWindows
      <4>3. CASE ~own
        <5>1. now < buckets[c].from + Window
          BY <1>1, <4>3 DEF Guard!Over
        <5>2. buckets[c].attempts > 0
          BY <1>1, <1>9, <3>1, <5>1 DEF SpentOfWindows, Guard!Row
        <5>3. QED
          BY <1>1, <1>2, <1>8, <1>9, <4>1, <4>3, <5>2 DEF SpentOfWindows
      <4>4. QED
        BY <4>2, <4>3
    <3>4. QED
      BY <3>2, <3>3
  <2>2. CASE ~anew
    <3>1. now < global.from + Window /\ global'.from = global.from
      BY <1>1, <1>7, <2>2 DEF Guard!Over, Guard!Row
    <3>2. ASSUME NEW d \in Client, d # c
          PROVE  SpentOfWindows(d)'
      <4>1. spent'[d] = spent[d] /\ buckets'[d] = buckets[d]
        BY <1>1, <1>4, <1>8, <2>2, <3>2
      <4>2. QED
        BY <1>2, <1>9, <3>1, <4>1 DEF SpentOfWindows
    <3>3. SpentOfWindows(c)'
      <4>1. spent'[c] = spent[c] + 1
        BY <1>4, <2>2
      <4>2. CASE own
        \* The window that is over began before the shared one.
        <5>1. buckets[c].from + Window <= now
          BY <4>2 DEF Guard!Over
        <5>2. buckets[c].from < global.from
          BY <1>1, <3>1, <5>1 DEF Guard!Row
        <5>3. spent[c] < PerClient
          BY <1>1, <1>9, <5>2 DEF SpentOfWindows
        <5>4. QED
          BY <1>1, <1>2, <1>8, <1>9, <3>1, <4>1, <4>2, <5>3 DEF SpentOfWindows, Guard!Row
      <4>3. CASE ~own
        <5>1. now < buckets[c].from + Window
          BY <1>1, <4>3 DEF Guard!Over
        <5>2. buckets[c].attempts = 0 => ~(buckets[c].from < global.from)
          BY <1>1, <1>9, <5>1 DEF SpentOfWindows, Guard!Row
        <5>3. QED
          BY <1>1, <1>2, <1>8, <1>9, <3>1, <4>1, <4>3, <5>2 DEF SpentOfWindows, Guard!Row
      <4>4. QED
        BY <4>2, <4>3
    <3>4. QED
      BY <3>2, <3>3
  <2>3. QED
    BY <2>1, <2>2
<1>11. \A d \in Client : spent'[d] \in Nat /\ spent'[d] <= global'.attempts
  BY <1>1, <1>4, <1>7, <1>9 DEF Guard!Row
<1>12. Guard!TypeOK'
  <2>1. entry' \in [Client -> [pc : {"idle", "counted", "comparing", "issuing", "in"},
                               until : 0..LastTick + Lease]]
    BY <1>1, <1>5 DEF Guard!TypeOK
  <2>2. spent' \in [Client -> 0..Global]
    <3>1. \A d \in Client : spent'[d] \in 0..Global
      BY <1>7, <1>11 DEF Guard!Row
    <3>2. QED
      BY <1>4, <3>1
  <2>3. QED
    BY <1>1, <1>2, <1>7, <1>8, <2>1, <2>2 DEF Guard!TypeOK
<1>13. \A d \in Client : ComparesLocked(d)'
  BY <1>1, <1>2, <1>5 DEF Guard!TypeOK, GuardInv, ComparesLocked
<1>14. global'.from <= now' /\ (global'.from = 0 \/ Window <= global'.from)
  BY <1>1, <1>2, <1>7, <1>9 DEF Guard!Over, Guard!Row
<1>15. QED
  BY <1>10, <1>11, <1>12, <1>13, <1>14 DEF GuardInv

LEMMA GuardStep ==
    ASSUME GuardInv, [Guard!Next]_guard
    PROVE  GuardInv'
<1> USE AdministrationAssumption
<1>0. Guard!TypeOK
  BY DEF GuardInv
<1>1. CASE Guard!Tick
  BY <1>1 DEF GuardInv, Guard!Tick, Guard!TypeOK, Guard!Row, SpentOfWindows, ComparesLocked
<1>2. ASSUME NEW c \in Client, Guard!Consume(c)
      PROVE  GuardInv'
  BY <1>2, GuardConsume
<1>3. ASSUME NEW c \in Client, Guard!Acquire(c)
      PROVE  GuardInv'
  <2> USE DEF Guard!Acquire
  <2>1. CASE lock = Guard!Free \/ lock.until <= now
    <3>1. /\ lock' = [owner |-> c, until |-> now + Lease]
          /\ entry' = [entry EXCEPT ![c] = [pc |-> "comparing", until |-> now + Lease]]
          /\ UNCHANGED <<now, totp, allowed, buckets, global, trusted, spent>>
      BY <1>3, <2>1
    <3>2. now + Lease \in 0..LastTick + Lease
      BY <1>0 DEF Guard!TypeOK
    <3>3. Guard!TypeOK'
      BY <1>0, <3>1, <3>2 DEF Guard!TypeOK, Guard!Row
    <3>4. ASSUME NEW d \in Client
          PROVE  ComparesLocked(d)'
      <4>1. CASE d = c
        BY <1>0, <3>1, <4>1 DEF Guard!TypeOK, ComparesLocked
      <4>2. CASE d # c
        <5>1. entry'[d] = entry[d] /\ ComparesLocked(d)
          BY <1>0, <3>1, <4>2 DEF Guard!TypeOK, GuardInv
        <5>2. lock = [owner |-> d, until |-> entry[d].until] /\ now < entry[d].until => FALSE
          BY <1>0, <2>1 DEF Guard!TypeOK, Guard!Free
        <5>3. QED
          BY <3>1, <5>1, <5>2 DEF ComparesLocked
      <4>3. QED
        BY <4>1, <4>2
    <3>5. QED
      BY <3>1, <3>3, <3>4, GuardLocks
  <2>2. CASE ~(lock = Guard!Free \/ lock.until <= now)
    <3>1. /\ entry' = [entry EXCEPT ![c] = Guard!Idle]
          /\ UNCHANGED <<now, totp, allowed, buckets, global, lock, trusted, spent>>
      BY <1>3, <2>2
    <3>2. Guard!TypeOK'
      BY <1>0, <3>1 DEF Guard!TypeOK, Guard!Row, Guard!Idle
    <3>3. \A d \in Client : ComparesLocked(d)'
      BY <1>0, <3>1 DEF Guard!TypeOK, GuardInv, ComparesLocked, Guard!Idle
    <3>4. QED
      BY <3>1, <3>2, <3>3, GuardLocks
  <2>3. QED
    BY <2>1, <2>2
<1>4. ASSUME NEW c \in Client, Guard!Compared(c)
      PROVE  GuardInv'
  <2>1. UNCHANGED <<now, totp, allowed, buckets, global, trusted, spent>>
    BY <1>4 DEF Guard!Compared
  <2>2. \E r \in {Guard!Idle, [Guard!Idle EXCEPT !.pc = "issuing"]} : entry' = [entry EXCEPT ![c] = r]
    BY <1>4 DEF Guard!Compared
  <2>3. PICK r \in {Guard!Idle, [Guard!Idle EXCEPT !.pc = "issuing"]} : entry' = [entry EXCEPT ![c] = r]
    BY <2>2
  <2>4. r \in [pc : {"idle", "issuing"}, until : {0}]
    BY DEF Guard!Idle
  <2>5. lock' \in {lock, Guard!Free} /\ (lock' # lock => lock.owner = c)
    BY <1>4 DEF Guard!Compared, Guard!Released
  <2>6. Guard!TypeOK'
    BY <1>0, <2>1, <2>3, <2>4, <2>5 DEF Guard!TypeOK, Guard!Row, Guard!Free
  <2>7. \A d \in Client : ComparesLocked(d)'
    BY <1>0, <2>1, <2>3, <2>4, <2>5 DEF Guard!TypeOK, GuardInv, ComparesLocked
  <2>8. QED
    BY <2>1, <2>6, <2>7, GuardLocks
<1>5. ASSUME NEW c \in Client, Guard!Issue(c)
      PROVE  GuardInv'
  <2>1. UNCHANGED <<now, totp, allowed, buckets, global, lock, spent>>
    BY <1>5 DEF Guard!Issue
  <2>2. PICK r \in {Guard!Idle, [Guard!Idle EXCEPT !.pc = "in"]} : entry' = [entry EXCEPT ![c] = r]
    BY <1>5 DEF Guard!Issue
  <2>3. r \in [pc : {"idle", "in"}, until : {0}]
    BY DEF Guard!Idle
  <2>4. trusted' \subseteq Client
    BY <1>0, <1>5 DEF Guard!Issue, Guard!TypeOK
  <2>5. Guard!TypeOK'
    BY <1>0, <2>1, <2>2, <2>3, <2>4 DEF Guard!TypeOK, Guard!Row
  <2>6. \A d \in Client : ComparesLocked(d)'
    BY <1>0, <2>1, <2>2, <2>3 DEF Guard!TypeOK, GuardInv, ComparesLocked
  <2>7. QED
    BY <2>1, <2>5, <2>6, GuardLocks
<1>6. CASE UNCHANGED guard
  BY <1>6 DEF guard, GuardInv, Guard!TypeOK, Guard!Row, SpentOfWindows, ComparesLocked
<1>7. QED
  BY <1>1, <1>2, <1>3, <1>4, <1>5, <1>6 DEF Guard!Next

LEMMA GuardBounds ==
    ASSUME GuardInv
    PROVE  LoginsBounded
<1> USE AdministrationAssumption
<1>1. ASSUME NEW c \in Client
      PROVE  spent[c] < 2 * PerClient
  <2>1. SpentOfWindows(c) /\ buckets[c] \in Guard!Row /\ global \in Guard!Row /\ spent[c] \in Nat
    BY DEF GuardInv, Guard!TypeOK
  <2>2. QED
    BY <2>1 DEF SpentOfWindows, Guard!Row
<1>2. ASSUME NEW c \in Client, NEW d \in Client,
             entry[c].pc = "comparing", entry[d].pc = "comparing",
             now < entry[c].until, now < entry[d].until
      PROVE  c = d
  BY <1>2 DEF GuardInv, ComparesLocked
<1>3. QED
  BY <1>1, <1>2 DEF LoginsBounded, Guard!LoginsBounded

-----------------------------------------------------------------------------
(***************************************************************************)
(* Sessions                                                                *)
(***************************************************************************)

\* A request is of a session that was issued; one that is late is of a session
\* that has no row, and never will have one again, and is not let in.
RequestInv(t) ==
    /\ request[t].session \in 0..issued
    /\ request[t].late => request[t].session \notin rows /\ request[t].pc # "served"

SessionInv == Session!TypeOK /\ \A t \in Tab : RequestInv(t)

LEMMA SessionInit ==
    ASSUME Session!Init
    PROVE  SessionInv
BY AdministrationAssumption
DEF SessionInv, RequestInv, Session!Init, Session!TypeOK, Session!Idle, Session!MaybeSession

LEMMA SessionStep ==
    ASSUME SessionInv, [Session!Next]_session
    PROVE  SessionInv'
<1> USE AdministrationAssumption
<1>1. /\ issued \in Nat /\ issued <= MaxSession /\ rows \subseteq 1..issued /\ cookie \in 0..issued
      /\ Session!TypeOK
  BY DEF SessionInv, Session!TypeOK, Session!MaybeSession
<1>2. CASE Session!Login
  BY <1>1, <1>2 DEF SessionInv, RequestInv, Session!TypeOK, Session!MaybeSession, Session!Login
<1>3. ASSUME NEW s \in Session!Session, Session!Expire(s)
      PROVE  SessionInv'
  BY <1>1, <1>3
  DEF SessionInv, RequestInv, Session!TypeOK, Session!MaybeSession, Session!Expire, Session!Idle
<1>4. ASSUME NEW t \in Tab, Session!OpenPage(t)
      PROVE  SessionInv'
  BY <1>1, <1>4
  DEF SessionInv, RequestInv, Session!TypeOK, Session!MaybeSession, Session!OpenPage
<1>5. ASSUME NEW t \in Tab, Session!Begin(t)
      PROVE  SessionInv'
  <2>1. PICK reads \in BOOLEAN :
          request' = [request EXCEPT ![t] = [pc |-> "verified", session |-> cookie,
                        reads |-> reads, late |-> cookie \notin rows]]
    BY <1>5 DEF Session!Begin
  <2>2. UNCHANGED <<issued, rows, cookie, page>>
    BY <1>5 DEF Session!Begin
  <2>3. Session!TypeOK'
    BY <1>1, <2>1, <2>2 DEF Session!TypeOK, Session!MaybeSession
  <2>4. \A u \in Tab : RequestInv(u)'
    BY <1>1, <2>1, <2>2 DEF SessionInv, RequestInv, Session!TypeOK
  <2>5. QED
    BY <2>3, <2>4 DEF SessionInv
<1>6. ASSUME NEW t \in Tab, Session!Check(t)
      PROVE  SessionInv'
  BY <1>1, <1>6
  DEF SessionInv, RequestInv, Session!TypeOK, Session!MaybeSession, Session!Check, Session!Active, Session!Idle
<1>7. ASSUME NEW t \in Tab, Session!Serve(t)
      PROVE  SessionInv'
  <2>1. request' = [request EXCEPT ![t] = Session!Idle] /\ UNCHANGED <<issued, page>>
    BY <1>7 DEF Session!Serve
  <2>2. rows' \subseteq rows /\ cookie' \in 0..issued
    BY <1>1, <1>7 DEF Session!Serve
  <2>3. Session!TypeOK'
    BY <1>1, <2>1, <2>2 DEF Session!TypeOK, Session!MaybeSession, Session!Idle
  <2>4. \A u \in Tab : RequestInv(u)'
    BY <1>1, <2>1, <2>2 DEF SessionInv, RequestInv, Session!TypeOK, Session!Idle
  <2>5. QED
    BY <2>3, <2>4 DEF SessionInv
<1>8. CASE UNCHANGED session
  BY <1>8 DEF SessionInv, RequestInv, Session!TypeOK, session
<1>9. QED
  BY <1>2, <1>3, <1>4, <1>5, <1>6, <1>7, <1>8 DEF Session!Next

-----------------------------------------------------------------------------
(***************************************************************************)
(* Settings of an HTTP provider                                            *)
(***************************************************************************)

\* A window that shows the current revision and saves has read the current secret.
FormInv(f) ==
    /\ f.rev <= provider.rev
    /\ f.pc = "saving" =>
         /\ f.config \in Config
         /\ f.rev = provider.rev /\ f.typed = "none" => f.stored = secret

\* Who has read the current revision has read the current settings.
ReaderInv(r) ==
    /\ r.pc # "idle" => r.rev \in 1..provider.rev /\ r.config \in Config
    /\ r.pc \in {"reading", "ready"} /\ r.rev = provider.rev =>
         r.config = provider.config /\ (r.pc = "ready" => r.key = secret)

\* The evidence of a probe of a manual model is that of its endpoint.
ProbeInv(p) ==
    p.ok /\ p.of \in Manual \X Key => p.of \in proved

HttpInv ==
    /\ Http!TypeOK
    /\ settings \in [Http!Revision -> {<<>>} \cup Http!Fingerprints]
    /\ settings[provider.rev] = <<provider.config, secret>>
    /\ Http!IdentityTracksSettings
    /\ \A a \in Admin : FormInv(form[a])
    /\ ReaderInv(test) /\ ReaderInv(call)
    /\ Http!OneRevisionExecutes
    /\ ProbeInv(provider.probe) /\ ProbeInv(catalog.probe)
    /\ test.pc = "passed" /\ test.config \in Manual =>
         test.key \in Key /\ <<test.config, test.key>> \in proved
    /\ catalog.pc = "reading" => catalog.config \in Config
    /\ Http!ListedWasTested

LEMMA HttpInit ==
    ASSUME Http!Init
    PROVE  HttpInv
<1> USE AdministrationAssumption
<1>1. PICK c \in Config, k \in Http!MaybeKey :
         /\ provider = [rev |-> 1, enabled |-> TRUE, config |-> c,
                        identity |-> <<c, k>>, probe |-> Http!NoProbe]
         /\ secret = k
         /\ form = [a \in Admin |-> Http!Form(1)]
         /\ test = Http!Idle
         /\ catalog = Http!NoCatalog
         /\ call = Http!Idle
         /\ settings = [r \in Http!Revision |-> IF r = 1 THEN <<c, k>> ELSE <<>>]
         /\ proved = {}
  BY DEF Http!Init, Http!Fingerprint
<1>2. <<c, k>> \in Http!Fingerprints /\ 1 \in Http!Revision
  BY DEF Http!Fingerprints, Http!Revision
<1>3. provider.rev = 1 /\ ~provider.probe.ok /\ provider.identity = <<c, k>> /\ provider.config = c
  BY <1>1 DEF Http!NoProbe
<1>4. Http!TypeOK
  BY <1>1, <1>2 DEF Http!TypeOK, Http!Probe, Http!NoProbe, Http!Form, Http!Idle, Http!Reader, Http!NoCatalog, Http!MaybeKey
<1>5. /\ settings \in [Http!Revision -> {<<>>} \cup Http!Fingerprints]
      /\ settings[provider.rev] = <<provider.config, secret>>
      /\ Http!IdentityTracksSettings
  BY <1>1, <1>2, <1>3 DEF Http!IdentityTracksSettings, Http!Fingerprint
<1>6. \A a \in Admin : FormInv(form[a])
  BY <1>1, <1>3 DEF FormInv, Http!Form
<1>7. ReaderInv(test) /\ ReaderInv(call) /\ Http!OneRevisionExecutes /\ test.pc # "passed"
  BY <1>1 DEF ReaderInv, Http!OneRevisionExecutes, Http!Idle
<1>8. /\ ProbeInv(provider.probe) /\ ProbeInv(catalog.probe) /\ catalog.pc # "reading"
      /\ Http!ListedWasTested
  BY <1>1, <1>3 DEF ProbeInv, Http!NoCatalog, Http!NoProbe, Http!ListedWasTested
<1>9. QED
  BY <1>4, <1>5, <1>6, <1>7, <1>8 DEF HttpInv

\* What a step does that leaves the rows as they are.
LEMMA HttpReads ==
    ASSUME HttpInv, UNCHANGED <<provider, secret, settings, proved>>,
           Http!TypeOK', \A a \in Admin : FormInv(form[a])',
           ReaderInv(test)', ReaderInv(call)', Http!OneRevisionExecutes',
           test' = test \/ test'.pc # "passed",
           catalog' = catalog \/ (/\ ProbeInv(catalog.probe)' /\ Http!ListedWasTested'
                                  /\ catalog'.pc = "reading" => catalog'.config \in Config)
    PROVE  HttpInv'
BY DEF HttpInv, ProbeInv, Http!IdentityTracksSettings, Http!ListedWasTested, Http!Fingerprint

\* A save in the current revision makes the next one of what the window read.
LEMMA HttpSave ==
    ASSUME HttpInv, NEW a \in Admin, Http!Save(a)
    PROVE  HttpInv'
<1> USE AdministrationAssumption
<1> DEFINE f == form[a]
           identity == <<f.config, Http!NextSecret(f)>>
<1>1. /\ Http!TypeOK
      /\ provider.rev \in Nat /\ provider.rev + 1 \in Http!Revision
      /\ f.pc = "saving" /\ f.rev = provider.rev /\ f.config \in Config
      /\ f.typed \in Http!MaybeKey
      /\ FormInv(f)
  BY DEF HttpInv, FormInv, Http!TypeOK, Http!Save, Http!CurrentRevision, Http!Revision
<1>2. UNCHANGED <<test, catalog, call, proved>>
  BY DEF Http!Save
<1>3. secret' = Http!NextSecret(f) /\ secret' \in Http!MaybeKey
  BY <1>1 DEF Http!Save, Http!NextSecret, FormInv, Http!TypeOK
<1>4. PICK on \in BOOLEAN :
        provider' = [rev |-> provider.rev + 1, enabled |-> on, config |-> f.config,
                     identity |-> identity, probe |-> Http!KeptProbe(identity)]
  BY DEF Http!Save, Http!Fingerprint
<1>5. /\ provider'.rev = provider.rev + 1 /\ provider'.config = f.config
      /\ provider'.identity = <<f.config, secret'>>
      /\ provider'.probe \in {provider.probe, Http!NoProbe}
  BY <1>3, <1>4 DEF Http!KeptProbe
<1>6. settings' = [settings EXCEPT ![provider.rev + 1] = <<f.config, secret'>>]
  BY DEF Http!Save
<1>7. form' = [form EXCEPT ![a] = Http!Form(f.rev)]
  BY DEF Http!Save
<1>8. Http!TypeOK'
  <2>1. provider' \in [rev : Http!Revision, enabled : BOOLEAN, config : Config,
                       identity : Http!Fingerprints, probe : Http!Probe]
    BY <1>1, <1>3, <1>4, <1>5 DEF Http!TypeOK, Http!Fingerprints, Http!Probe
  <2>2. Http!Form(f.rev) \in [pc : {"open", "saving"}, rev : Http!Revision,
                              config : Config \cup {"none"}, typed : Http!MaybeKey,
                              stored : Http!MaybeKey]
    BY <1>1 DEF Http!Form, Http!MaybeKey, Http!TypeOK
  <2>3. QED
    BY <1>1, <1>2, <1>3, <1>7, <2>1, <2>2 DEF Http!TypeOK
<1>9. /\ settings' \in [Http!Revision -> {<<>>} \cup Http!Fingerprints]
      /\ settings'[provider'.rev] = <<provider'.config, secret'>>
      /\ \A r \in 1..provider.rev : settings'[r] = settings[r]
  <2>1. <<f.config, secret'>> \in Http!Fingerprints
    BY <1>1, <1>3 DEF Http!Fingerprints
  <2>2. settings \in [Http!Revision -> {<<>>} \cup Http!Fingerprints]
    BY DEF HttpInv
  <2>3. \A r \in 1..provider.rev : r # provider.rev + 1 /\ r \in Http!Revision
    BY <1>1 DEF Http!Revision
  <2>4. QED
    BY <1>1, <1>5, <1>6, <2>1, <2>2, <2>3
<1>10. Http!IdentityTracksSettings'
  BY <1>5 DEF Http!IdentityTracksSettings, Http!Fingerprint
<1>11. ASSUME NEW b \in Admin
       PROVE  FormInv(form[b])'
  <2>1. CASE b = a
    BY <1>1, <1>5, <1>7, <2>1 DEF FormInv, Http!Form, Http!TypeOK
  <2>2. CASE b # a
    BY <1>1, <1>5, <1>7, <2>2 DEF FormInv, HttpInv, Http!TypeOK, Http!Revision
  <2>3. QED
    BY <2>1, <2>2
<1>12. ReaderInv(test)' /\ ReaderInv(call)'
  BY <1>1, <1>2, <1>5 DEF ReaderInv, HttpInv
<1>13. Http!OneRevisionExecutes'
  BY <1>2, <1>9 DEF Http!OneRevisionExecutes, ReaderInv, HttpInv
<1>14. ProbeInv(provider.probe)' /\ ProbeInv(catalog.probe)'
  BY <1>2, <1>5 DEF ProbeInv, HttpInv, Http!NoProbe
<1>15. QED
  BY <1>2, <1>8, <1>9, <1>10, <1>11, <1>12, <1>13, <1>14 DEF HttpInv, Http!ListedWasTested

\* A test that passes proves what it read, and gives the settings a new revision.
LEMMA HttpTestPasses ==
    ASSUME HttpInv, Http!TestPasses
    PROVE  HttpInv'
<1> USE AdministrationAssumption
<1>1. /\ Http!TypeOK
      /\ provider.rev \in Nat /\ provider.rev + 1 \in Http!Revision
      /\ test.pc = "ready" /\ test.key \in Key /\ test.config \in Config
  BY DEF HttpInv, ReaderInv, Http!TypeOK, Http!TestPasses, Http!Revision, Http!Reader, Http!MaybeKey
<1>2. UNCHANGED <<secret, form, catalog, call>>
  BY DEF Http!TestPasses
<1>3. proved' = proved \cup ({<<test.config, test.key>>} \cap (Manual \X Key))
  BY DEF Http!TestPasses, Http!Fingerprint
<1>4. proved \subseteq proved' /\ proved' \subseteq Http!Fingerprints
  BY <1>1, <1>3 DEF Http!TypeOK, Http!Fingerprints, Http!MaybeKey
<1>5. CASE test.rev = provider.rev
  <2>1. /\ provider' = [provider EXCEPT !.rev = @ + 1]
        /\ settings' = [settings EXCEPT ![provider.rev + 1] = <<provider.config, secret>>]
        /\ test' = [test EXCEPT !.pc = "passed"]
    BY <1>5 DEF Http!TestPasses
  <2>2. /\ provider'.rev = provider.rev + 1
        /\ provider'.config = provider.config /\ provider'.identity = provider.identity
        /\ provider'.probe = provider.probe
        /\ provider' \in [rev : Http!Revision, enabled : BOOLEAN, config : Config,
                          identity : Http!Fingerprints, probe : Http!Probe]
    BY <1>1, <2>1 DEF Http!TypeOK
  <2>3. /\ test' \in Http!Reader /\ test'.pc = "passed" /\ test'.rev = test.rev
        /\ test'.config = test.config /\ test'.key = test.key
    BY <1>1, <2>1 DEF Http!TypeOK, Http!Reader
  <2>4. Http!TypeOK'
    BY <1>1, <1>2, <1>4, <2>2, <2>3 DEF Http!TypeOK
  <2>5. /\ settings' \in [Http!Revision -> {<<>>} \cup Http!Fingerprints]
        /\ settings'[provider'.rev] = <<provider'.config, secret'>>
        /\ \A r \in 1..provider.rev : settings'[r] = settings[r]
    <3>1. <<provider.config, secret>> \in Http!Fingerprints
      BY <1>1 DEF Http!TypeOK, Http!Fingerprints
    <3>2. settings \in [Http!Revision -> {<<>>} \cup Http!Fingerprints]
      BY DEF HttpInv
    <3>3. \A r \in 1..provider.rev : r # provider.rev + 1 /\ r \in Http!Revision
      BY <1>1 DEF Http!Revision
    <3>4. QED
      BY <1>1, <1>2, <2>1, <2>2, <3>1, <3>2, <3>3
  <2>6. Http!IdentityTracksSettings'
    BY <1>2, <2>2 DEF HttpInv, Http!IdentityTracksSettings, Http!Fingerprint
  <2>7. \A a \in Admin : FormInv(form[a])'
    BY <1>1, <1>2, <2>2 DEF FormInv, HttpInv, Http!TypeOK, Http!Revision
  <2>8. ReaderInv(test)' /\ ReaderInv(call)'
    BY <1>1, <1>2, <2>2, <2>3 DEF ReaderInv, HttpInv
  <2>9. Http!OneRevisionExecutes'
    BY <1>2, <2>5 DEF Http!OneRevisionExecutes, ReaderInv, HttpInv
  <2>10. ProbeInv(provider.probe)' /\ ProbeInv(catalog.probe)'
    BY <1>2, <1>4, <2>2 DEF ProbeInv, HttpInv
  <2>11. test'.config \in Manual => test'.key \in Key /\ <<test'.config, test'.key>> \in proved'
    BY <1>1, <1>3, <2>3
  <2>12. Http!ListedWasTested' /\ (catalog'.pc = "reading" => catalog'.config \in Config)
    BY <1>2, <1>4 DEF HttpInv, Http!ListedWasTested
  <2>13. QED
    BY <2>4, <2>5, <2>6, <2>7, <2>8, <2>9, <2>10, <2>11, <2>12 DEF HttpInv
<1>6. CASE test.rev # provider.rev
  <2>1. test' = Http!Idle /\ UNCHANGED <<provider, settings>>
    BY <1>6 DEF Http!TestPasses
  <2>2. test' \in Http!Reader /\ test'.pc = "idle"
    BY <2>1 DEF Http!Reader, Http!Idle, Http!MaybeKey
  <2>3. Http!TypeOK'
    BY <1>1, <1>2, <1>4, <2>1, <2>2 DEF Http!TypeOK
  <2>4. QED
    BY <1>2, <1>4, <2>1, <2>2, <2>3
    DEF HttpInv, FormInv, ReaderInv, ProbeInv, Http!OneRevisionExecutes,
        Http!IdentityTracksSettings, Http!ListedWasTested, Http!Fingerprint
<1>7. QED
  BY <1>5, <1>6

LEMMA HttpStep ==
    ASSUME HttpInv, [Http!Next]_http
    PROVE  HttpInv'
<1> USE AdministrationAssumption
<1> USE DEF HttpInv, FormInv, ReaderInv, ProbeInv, Http!OneRevisionExecutes,
        Http!IdentityTracksSettings, Http!ListedWasTested, Http!Fingerprint
<1>0. /\ Http!TypeOK
      /\ provider.rev \in Nat /\ provider.rev >= 1
  BY DEF Http!TypeOK, Http!Revision
<1>1. ASSUME NEW a \in Admin, Http!Open(a)
      PROVE  HttpInv'
  BY <1>0, <1>1 DEF Http!Open, Http!TypeOK, Http!Form, Http!MaybeKey
<1>2. ASSUME NEW a \in Admin, Http!Submit(a)
      PROVE  HttpInv'
  <2>1. PICK c \in Config, k \in Http!MaybeKey :
          form' = [form EXCEPT ![a].pc = "saving", ![a].config = c, ![a].typed = k,
                               ![a].stored = IF k = "none" THEN secret ELSE "none"]
    BY <1>2 DEF Http!Submit
  <2>2. UNCHANGED <<provider, secret, test, catalog, call, settings, proved>>
    BY <1>2 DEF Http!Submit
  <2> DEFINE f == [form[a] EXCEPT !.pc = "saving", !.config = c, !.typed = k,
                                  !.stored = IF k = "none" THEN secret ELSE "none"]
  <2>3. form' = [form EXCEPT ![a] = f]
    BY <2>1
  <2>4. /\ f \in [pc : {"open", "saving"}, rev : Http!Revision, config : Config \cup {"none"},
                  typed : Http!MaybeKey, stored : Http!MaybeKey]
        /\ f.config \in Config /\ (f.typed = "none" => f.stored = secret)
        /\ f.rev = form[a].rev
    <3>1. form[a] \in [pc : {"open", "saving"}, rev : Http!Revision, config : Config \cup {"none"},
                       typed : Http!MaybeKey, stored : Http!MaybeKey]
          /\ secret \in Http!MaybeKey /\ "none" \in Http!MaybeKey
      BY <1>0 DEF Http!TypeOK, Http!MaybeKey
    <3>2. QED
      BY <3>1
  <2> HIDE DEF f
  <2>5. Http!TypeOK'
    BY <1>0, <2>2, <2>3, <2>4 DEF Http!TypeOK
  <2>6. \A b \in Admin : FormInv(form[b])'
    BY <1>0, <2>2, <2>3, <2>4 DEF Http!TypeOK
  <2>7. QED
    BY <2>2, <2>5, <2>6, HttpReads
<1>3. ASSUME NEW a \in Admin, Http!Save(a)
      PROVE  HttpInv'
  BY <1>3, HttpSave
<1>4. ASSUME NEW a \in Admin, Http!SaveConflicts(a)
      PROVE  HttpInv'
  BY <1>0, <1>4 DEF Http!SaveConflicts, Http!TypeOK, Http!Form, Http!MaybeKey
<1>5. CASE Http!TestFinds
  BY <1>0, <1>5 DEF Http!TestFinds, Http!Row, Http!Reader, Http!Revision, Http!TypeOK, Http!MaybeKey
<1>6. CASE Http!TestReadsSecret
  <2>1. /\ test' = [test EXCEPT !.pc = "ready", !.key = secret] /\ test.pc = "reading"
        /\ UNCHANGED <<provider, secret, form, catalog, call, settings, proved>>
    BY <1>6 DEF Http!TestReadsSecret
  <2>2. test' \in Http!Reader
    BY <1>0, <2>1 DEF Http!TypeOK, Http!Reader
  <2>3. ReaderInv(test)' /\ test'.pc # "passed"
    BY <1>0, <2>1 DEF Http!TypeOK, Http!Reader
  <2>4. Http!TypeOK'
    BY <1>0, <2>1, <2>2 DEF Http!TypeOK
  <2>5. QED
    BY <2>1, <2>3, <2>4, HttpReads
<1>7. CASE Http!TestPasses
  BY <1>7, HttpTestPasses
<1>8. CASE Http!TestFails
  BY <1>0, <1>8 DEF Http!TestFails, Http!Reader, Http!TypeOK
<1>9. CASE Http!TestRecords
  <2> DEFINE of == <<test.config, test.key>>
  <2>1. /\ test.pc \in {"passed", "failed"}
        /\ provider' = IF provider.identity = of
                       THEN [provider EXCEPT !.probe = [ok |-> test.pc = "passed", of |-> of]]
                       ELSE provider
        /\ test' = Http!Idle
        /\ UNCHANGED <<secret, form, catalog, call, settings, proved>>
    BY <1>9 DEF Http!TestRecords
  <2>2. of \in Http!Fingerprints
    BY <1>0, <2>1 DEF Http!TypeOK, Http!Reader, Http!Fingerprints
  <2>3. /\ provider'.rev = provider.rev /\ provider'.config = provider.config
        /\ provider'.identity = provider.identity
        /\ provider' \in [rev : Http!Revision, enabled : BOOLEAN, config : Config,
                          identity : Http!Fingerprints, probe : Http!Probe]
        /\ provider'.probe \in {provider.probe, [ok |-> test.pc = "passed", of |-> of]}
    BY <1>0, <2>1, <2>2 DEF Http!TypeOK, Http!Probe
  <2>4. test.pc = "passed" /\ of \in Manual \X Key => of \in proved
    OBVIOUS
  <2>5. ProbeInv(provider.probe)'
    BY <2>1, <2>3, <2>4
  <2>6. test' \in Http!Reader /\ test'.pc = "idle"
    BY <2>1 DEF Http!Reader, Http!Idle, Http!MaybeKey
  <2>7. Http!TypeOK'
    BY <1>0, <2>1, <2>3, <2>6 DEF Http!TypeOK
  <2> HIDE DEF of
  <2>8. QED
    BY <2>1, <2>3, <2>5, <2>6, <2>7
<1>10. CASE Http!TestDies
  BY <1>0, <1>10 DEF Http!TestDies, Http!Idle, Http!Reader, Http!TypeOK, Http!MaybeKey
<1>11. CASE Http!CatalogReads
  <2>1. UNCHANGED <<provider, secret, form, test, call, settings, proved>>
    BY <1>11 DEF Http!CatalogReads
  <2>2. /\ ProbeInv(catalog.probe)' /\ catalog'.listed = <<>>
        /\ catalog'.pc = "reading" => catalog'.config \in Config
        /\ Http!TypeOK'
    <3>1. CASE catalog' = [Http!NoCatalog EXCEPT !.pc = "reading", !.config = provider.config,
                                                 !.probe = provider.probe]
      BY <1>0, <2>1, <3>1 DEF Http!NoCatalog, Http!TypeOK, Http!MaybeKey
    <3>2. CASE catalog' = [Http!NoCatalog EXCEPT !.pc = "keyed", !.key = secret]
      BY <1>0, <2>1, <3>2 DEF Http!NoCatalog, Http!NoProbe, Http!Probe, Http!TypeOK
    <3>3. QED
      BY <1>11, <3>1, <3>2 DEF Http!CatalogReads
  <2>3. QED
    BY <2>1, <2>2, HttpReads
<1>12. CASE Http!CatalogResolves
  <2> DEFINE first == catalog.pc = "reading"
             config == IF first THEN catalog.config ELSE provider.config
             probe == IF first THEN catalog.probe ELSE provider.probe
             key == IF first THEN secret ELSE catalog.key
  <2>1. PICK listed \in {<<>>, <<config, key>>} :
          /\ catalog' = [Http!NoCatalog EXCEPT !.pc = "fresh", !.listed = listed]
          /\ listed # <<>> /\ config \in Manual =>
               /\ key # "none"
               /\ probe.ok /\ probe.of = <<config, key>>
    BY <1>12 DEF Http!CatalogResolves, Http!Lists, Http!ProbeAvailable
  <2>2. UNCHANGED <<provider, secret, form, test, call, settings, proved>>
    BY <1>12 DEF Http!CatalogResolves
  <2>3. config \in Config /\ key \in Http!MaybeKey /\ ProbeInv(probe)
    BY <1>0 DEF Http!TypeOK
  <2> HIDE DEF first, config, probe, key
  <2>4. <<config, key>> \in Http!Fingerprints
    BY <2>3 DEF Http!Fingerprints
  <2>5. catalog' = [pc |-> "fresh", config |-> "none", probe |-> Http!NoProbe, key |-> "none",
                    listed |-> listed]
    BY <2>1 DEF Http!NoCatalog
  <2>6. Http!TypeOK'
    BY <1>0, <2>1, <2>2, <2>4, <2>5 DEF Http!TypeOK, Http!Probe, Http!MaybeKey
  <2>7. Http!ListedWasTested'
    <3>1. CASE listed # <<>> /\ config \in Manual
      BY <2>1, <2>2, <2>3, <2>5, <3>1 DEF Http!MaybeKey
    <3>2. CASE listed = <<>> \/ config \notin Manual
      BY <2>1, <2>5, <3>2
    <3>3. QED
      BY <3>1, <3>2
  <2>8. ProbeInv(catalog.probe)' /\ catalog'.pc # "reading"
    BY <2>5 DEF Http!NoProbe
  <2>9. QED
    BY <2>2, <2>6, <2>7, <2>8, HttpReads
<1>13. CASE Http!CatalogLapses
  BY <1>0, <1>13
  DEF Http!CatalogLapses, Http!NoCatalog, Http!NoProbe, Http!Probe, Http!TypeOK, Http!MaybeKey
<1>14. CASE Http!Route
  BY <1>0, <1>14 DEF Http!Route, Http!Row, Http!Reader, Http!Revision, Http!TypeOK, Http!MaybeKey
<1>15. CASE Http!TargetReadsSecret
  <2>1. /\ call' = [call EXCEPT !.pc = "ready", !.key = secret] /\ call.pc = "reading"
        /\ UNCHANGED <<provider, secret, form, catalog, test, settings, proved>>
    BY <1>15 DEF Http!TargetReadsSecret
  <2>2. call' \in Http!Reader
    BY <1>0, <2>1 DEF Http!TypeOK, Http!Reader
  <2>3. ReaderInv(call)' /\ call'.pc = "ready"
    BY <1>0, <2>1 DEF Http!TypeOK, Http!Reader
  <2>4. Http!TypeOK'
    BY <1>0, <2>1, <2>2 DEF Http!TypeOK
  <2>5. QED
    BY <2>1, <2>3, <2>4, HttpReads
<1>16. CASE Http!Begin
  <2>1. /\ call.pc = "ready"
        /\ UNCHANGED <<provider, secret, form, catalog, test, settings, proved>>
    BY <1>16 DEF Http!Begin
  <2>2. CASE Http!Authorized
    <3>1. call' = [call EXCEPT !.pc = "executing"] /\ provider.rev = call.rev
      BY <1>16, <2>2 DEF Http!Begin, Http!Authorized
    <3>2. call' \in Http!Reader /\ ReaderInv(call)'
      BY <1>0, <2>1, <3>1 DEF Http!TypeOK, Http!Reader
    <3>3. <<call.config, call.key>> = settings[call.rev]
      BY <2>1, <3>1
    <3>4. Http!OneRevisionExecutes'
      BY <1>0, <2>1, <3>1, <3>3 DEF Http!TypeOK, Http!Reader
    <3>5. Http!TypeOK'
      BY <1>0, <2>1, <3>2 DEF Http!TypeOK
    <3>6. QED
      BY <2>1, <3>2, <3>4, <3>5, HttpReads
  <2>3. CASE ~Http!Authorized
    <3>1. call' = Http!Idle
      BY <1>16, <2>3 DEF Http!Begin
    <3>2. Http!TypeOK' /\ call'.pc = "idle"
      BY <1>0, <2>1, <3>1 DEF Http!TypeOK, Http!Reader, Http!Idle, Http!MaybeKey
    <3>3. QED
      BY <2>1, <3>2, HttpReads
  <2>4. QED
    BY <2>2, <2>3
<1>17. CASE Http!Answered
  BY <1>0, <1>17 DEF Http!Answered, Http!Idle, Http!Reader, Http!TypeOK, Http!MaybeKey
<1>18. CASE UNCHANGED http
  BY <1>0, <1>18 DEF http, Http!TypeOK
<1>19. QED
  BY <1>1, <1>2, <1>3, <1>4, <1>5, <1>6, <1>7, <1>8, <1>9, <1>10, <1>11, <1>12, <1>13,
     <1>14, <1>15, <1>16, <1>17, <1>18 DEF Http!Next

-----------------------------------------------------------------------------
(***************************************************************************)
(* Runtime state of a subscription provider                                *)
(***************************************************************************)

RuntimeRow ==
    [present : BOOLEAN, available : BOOLEAN,
     state : {"authorization_required", "ready", "expired", "needs_attention"},
     validUntil : Subscription!Time, retry : Subscription!Time, fails : 0..4,
     auth : Subscription!Authorization, probe : Subscription!Generation,
     job : Subscription!Generation,
     credential : {0} \cup Subscription!Login,
     capability : {0} \cup Subscription!Login,
     containment : {0} \cup Subscription!Login]

ProbeRun ==
    [pc : {"idle", "started", "collected"}, kind : {"acceptance", "readiness"},
     probe : Subscription!Generation, auth : Subscription!Authorization,
     digest : {0} \cup Subscription!Login, seen : 0..MaxAuth + MaxProbe]

\* Only a row that is ready has a lease.
Leased(row) == row.validUntil # "none" => row.state = "ready"

\* A fence takes a generation of probes, ready is what a probe has proved since
\* the last one, and the probe on record is of the current bindings.
RuntimeInv ==
    /\ fenced <= rt.probe
    /\ Leased(rt)
    /\ rt.state = "ready" => proof = fenced /\ rt.capability # 0 /\ rt.containment # 0
    /\ rt.job # 0 => rt.job = rt.probe /\ jobs[rt.job].auth = rt.auth

\* Evidence of the generation on record was collected since the last fence.
ProbeRunInv(r) ==
    runs[r].pc # "idle" /\ runs[r].kind = "readiness" =>
        /\ runs[r].probe <= rt.probe
        /\ runs[r].pc = "collected" /\ runs[r].probe = rt.probe => runs[r].seen = fenced

SubscriptionInv == Subscription!TypeOK /\ RuntimeInv /\ \A r \in Run : ProbeRunInv(r)

LEMMA SubscriptionInit ==
    ASSUME Subscription!Init
    PROVE  SubscriptionInv
<1> USE AdministrationAssumption DEF Subscription!Init
<1>1. /\ rt.state = "authorization_required" /\ rt.job = 0 /\ rt.probe = 0
      /\ rt \in RuntimeRow /\ rt.validUntil = "none"
  BY DEF RuntimeRow, Subscription!Time, Subscription!Authorization, Subscription!Generation
<1>2. runs \in [Run -> {Subscription!IdleRun}]
  OBVIOUS
<1>3. Subscription!TypeOK
  <2>1. Subscription!IdleRun \in
          [pc : {"idle", "started", "collected"}, kind : {"acceptance", "readiness"},
           probe : Subscription!Generation, auth : Subscription!Authorization,
           digest : {0} \cup Subscription!Login, seen : 0..MaxAuth + MaxProbe]
    BY DEF Subscription!IdleRun, Subscription!Authorization, Subscription!Generation
  <2>2. jobs \in [Subscription!Generation ->
                    [status : {"absent", "queued", "running", "done"},
                     auth : Subscription!Authorization, claims : 0..2]]
    BY DEF Subscription!Authorization
  <2>3. attempt \in [pc : {"idle", "running"}, auth : Subscription!Authorization,
                     probe : Subscription!Generation]
    BY DEF Subscription!NoAttempt, Subscription!Authorization, Subscription!Generation
  <2>4. login \in Subscription!Login /\ fenced \in 0..MaxAuth + MaxProbe /\ proof \in 0..MaxAuth + MaxProbe
    BY DEF Subscription!Login
  <2>5. QED
    BY <1>1, <1>2, <2>1, <2>2, <2>3, <2>4 DEF Subscription!TypeOK, RuntimeRow
<1>4. RuntimeInv /\ \A r \in Run : ProbeRunInv(r)
  BY <1>1, <1>2 DEF RuntimeInv, Leased, ProbeRunInv, Subscription!IdleRun
<1>5. QED
  BY <1>3, <1>4 DEF SubscriptionInv

\* A row that is not ready is a row, with the bindings it had.
LEMMA UnreadyRow ==
    ASSUME NEW row \in RuntimeRow,
           NEW state \in {"authorization_required", "expired", "needs_attention"}
    PROVE  LET new == Subscription!Unready(row, state)
           IN  /\ new \in RuntimeRow
               /\ new.state = state /\ new.validUntil = "none"
               /\ new.auth = row.auth /\ new.probe = row.probe /\ new.job = row.job
BY DEF Subscription!Unready, RuntimeRow, Subscription!Time

\* What an enqueued probe is, of a row that keeps the bindings on record.
LEMMA ProbeEnqueued ==
    ASSUME SubscriptionInv, NEW row \in RuntimeRow, Subscription!EnqueueProbe(row),
           row.auth = rt.auth, row.probe = rt.probe, row.job \in {0, rt.job}, Leased(row),
           row.state = "ready" => rt.state = "ready" /\ row.capability = rt.capability
                                  /\ row.containment = rt.containment,
           enabled' \in BOOLEAN, UNCHANGED <<runs, attempt, login, fenced, proof>>
    PROVE  SubscriptionInv'
<1> USE AdministrationAssumption
<1>1. /\ Subscription!TypeOK /\ RuntimeInv
      /\ rt \in RuntimeRow
  BY DEF SubscriptionInv, Subscription!TypeOK, RuntimeRow
<1>2. CASE row.job # 0 /\ Subscription!Live(row.job)
  <2>1. rt' = row /\ jobs' = jobs
    BY <1>2 DEF Subscription!EnqueueProbe
  <2>2. Subscription!TypeOK'
    BY <1>1, <2>1 DEF Subscription!TypeOK, RuntimeRow
  <2>3. RuntimeInv'
    BY <1>1, <2>1 DEF RuntimeInv
  <2>4. \A r \in Run : ProbeRunInv(r)'
    BY <1>1, <2>1 DEF SubscriptionInv, ProbeRunInv
  <2>5. QED
    BY <2>2, <2>3, <2>4 DEF SubscriptionInv
<1>3. CASE ~(row.job # 0 /\ Subscription!Live(row.job))
  <2> DEFINE g == row.probe + 1
             job == [status |-> "queued", auth |-> row.auth, claims |-> 0]
  <2>1. /\ row.probe < MaxProbe
        /\ rt' = [row EXCEPT !.probe = g, !.job = g, !.retry = "none", !.available = FALSE]
        /\ jobs' = [jobs EXCEPT ![g] = job]
    BY <1>3 DEF Subscription!EnqueueProbe
  <2>2. g \in Subscription!Generation /\ g # 0
    BY <2>1 DEF RuntimeRow, Subscription!Generation
  <2>3. /\ rt' \in RuntimeRow
        /\ rt'.probe = g /\ rt'.job = g /\ rt'.auth = row.auth /\ rt'.state = row.state
        /\ rt'.validUntil = row.validUntil
        /\ rt'.capability = row.capability /\ rt'.containment = row.containment
    BY <2>1, <2>2 DEF RuntimeRow, Subscription!Time
  <2>4. jobs' \in [Subscription!Generation -> [status : {"absent", "queued", "running", "done"},
                     auth : Subscription!Authorization, claims : 0..2]]
        /\ jobs'[g] = job
    BY <1>1, <2>1, <2>2 DEF Subscription!TypeOK, RuntimeRow
  <2>5. Subscription!TypeOK'
    BY <1>1, <2>3, <2>4 DEF Subscription!TypeOK, RuntimeRow
  <2>6. RuntimeInv'
    BY <1>1, <2>2, <2>3, <2>4
    DEF RuntimeInv, Leased, RuntimeRow, Subscription!Generation, Subscription!TypeOK
  <2>7. ASSUME NEW r \in Run
        PROVE  ProbeRunInv(r)'
    <3>1. runs'[r] = runs[r] /\ runs[r].probe \in Nat /\ rt.probe \in Nat /\ rt'.probe = rt.probe + 1
      BY <1>1, <2>3 DEF Subscription!TypeOK, RuntimeRow, Subscription!Generation
    <3>2. QED
      BY <3>1 DEF SubscriptionInv, ProbeRunInv
  <2>8. QED
    BY <2>5, <2>6, <2>7 DEF SubscriptionInv
<1>4. QED
  BY <1>2, <1>3

\* What becomes of a row by a fence: it is not ready, of a new generation of
\* probes, and waits for none.
LEMMA RowFenced ==
    ASSUME SubscriptionInv, rt' \in RuntimeRow, rt'.state # "ready", Leased(rt)', rt'.job = 0,
           rt'.probe = rt.probe + 1, fenced' = fenced + 1,
           enabled' \in BOOLEAN, UNCHANGED <<jobs, runs, attempt, login, proof>>
    PROVE  SubscriptionInv'
<1> USE AdministrationAssumption
<1>1. /\ Subscription!TypeOK /\ RuntimeInv
      /\ rt.probe \in Nat /\ fenced \in Nat /\ rt'.probe \in Nat /\ rt'.probe <= MaxProbe
  BY DEF SubscriptionInv, Subscription!TypeOK, RuntimeRow, Subscription!Generation
<1>2. fenced' \in 0..MaxAuth + MaxProbe
  BY <1>1 DEF RuntimeInv
<1>3. Subscription!TypeOK'
  BY <1>1, <1>2 DEF Subscription!TypeOK, RuntimeRow
<1>4. RuntimeInv'
  BY <1>1 DEF RuntimeInv
<1>5. ASSUME NEW r \in Run
      PROVE  ProbeRunInv(r)'
  <2>1. runs'[r] = runs[r] /\ runs[r].probe \in Nat
    BY <1>1 DEF Subscription!TypeOK, Subscription!Generation
  <2>2. QED
    BY <1>1, <2>1 DEF SubscriptionInv, ProbeRunInv
<1>6. QED
  BY <1>3, <1>4, <1>5 DEF SubscriptionInv

\* What a step does that keeps the bindings, the jobs' and the fences.
LEMMA BindingsKept ==
    ASSUME SubscriptionInv, Subscription!TypeOK',
           rt'.probe = rt.probe, rt'.auth = rt.auth, rt'.job \in {0, rt.job}, Leased(rt)',
           \A g \in Subscription!Generation : jobs'[g].auth = jobs[g].auth,
           fenced' = fenced,
           rt'.state = "ready" =>
               proof' = fenced /\ rt'.capability # 0 /\ rt'.containment # 0,
           \A r \in Run : ProbeRunInv(r)'
    PROVE  SubscriptionInv'
<1>1. RuntimeInv /\ rt.job \in Subscription!Generation
  BY DEF SubscriptionInv, Subscription!TypeOK
<1>2. RuntimeInv'
  BY <1>1 DEF RuntimeInv
<1>3. QED
  BY <1>2 DEF SubscriptionInv

LEMMA IdleRunTyped == Subscription!IdleRun \in ProbeRun /\ Subscription!IdleRun.pc = "idle"
BY AdministrationAssumption
DEF Subscription!IdleRun, ProbeRun, Subscription!Authorization, Subscription!Generation

\* One run moves, and the rows stay as they are.
LEMMA RunReplaced ==
    ASSUME SubscriptionInv, NEW r \in Run, NEW new \in ProbeRun,
           runs' = [runs EXCEPT ![r] = new],
           UNCHANGED <<enabled, rt, jobs, attempt, login, fenced, proof>>,
           new.kind = "readiness" => new.probe <= rt.probe /\ new.seen = fenced
    PROVE  SubscriptionInv'
<1>1. Subscription!TypeOK /\ \A q \in Run : ProbeRunInv(q)
  BY DEF SubscriptionInv
<1>2. Subscription!TypeOK'
  BY <1>1 DEF Subscription!TypeOK, ProbeRun
<1>3. \A q \in Run : ProbeRunInv(q)'
  BY <1>1 DEF Subscription!TypeOK, ProbeRunInv
<1>4. QED
  BY <1>2, <1>3, BindingsKept DEF SubscriptionInv, RuntimeInv, Leased

\* A run ends, having perhaps written to the rows.
LEMMA RunCommitted ==
    ASSUME SubscriptionInv, NEW r \in Run,
           runs' = [runs EXCEPT ![r] = Subscription!IdleRun],
           rt' \in RuntimeRow, rt'.probe = rt.probe, rt'.auth = rt.auth, rt'.job \in {0, rt.job},
           Leased(rt)',
           jobs' \in [Subscription!Generation -> [status : {"absent", "queued", "running", "done"},
                        auth : Subscription!Authorization, claims : 0..2]],
           \A g \in Subscription!Generation : jobs'[g].auth = jobs[g].auth,
           proof' \in 0..MaxAuth + MaxProbe,
           rt'.state = "ready" => proof' = fenced /\ rt'.capability # 0 /\ rt'.containment # 0,
           UNCHANGED <<enabled, attempt, login, fenced>>
    PROVE  SubscriptionInv'
<1>1. Subscription!TypeOK /\ \A q \in Run : ProbeRunInv(q)
  BY DEF SubscriptionInv
<1>2. Subscription!TypeOK'
  BY <1>1, IdleRunTyped DEF Subscription!TypeOK, RuntimeRow, ProbeRun
<1>3. \A q \in Run : ProbeRunInv(q)'
  BY <1>1, IdleRunTyped DEF Subscription!TypeOK, ProbeRunInv
<1>4. QED
  BY <1>2, <1>3, BindingsKept

\* A failure of an attempt never makes a row ready.
LEMMA FailedRow ==
    ASSUME NEW class \in Subscription!FailureClass, rt \in RuntimeRow, Leased(rt)
    PROVE  LET new == Subscription!AfterFailure(class)
           IN  /\ new \in RuntimeRow
               /\ new.auth = rt.auth /\ new.probe = rt.probe /\ new.job = rt.job
               /\ Leased(new)
               /\ new.state = "ready" => /\ rt.state = "ready"
                                         /\ new.capability = rt.capability
                                         /\ new.containment = rt.containment
<1> DEFINE new == Subscription!AfterFailure(class)
<1>1. CASE class = "auth_expired"
  <2>1. new = Subscription!Unready(rt, "expired")
    BY <1>1 DEF Subscription!AfterFailure
  <2>2. QED
    BY <2>1, UnreadyRow DEF Leased
<1>2. CASE class \in {"credential_source_mismatch", "profile_mismatch", "capability_failure",
                      "unsafe_unknown"}
  <2> DEFINE unready == Subscription!Unready(rt, "needs_attention")
  <2>1. new \in {unready, [unready EXCEPT !.credential = 0],
                 [unready EXCEPT !.containment = 0], [unready EXCEPT !.capability = 0]}
    BY <1>2 DEF Subscription!AfterFailure
  <2>2. /\ unready \in RuntimeRow /\ unready.state = "needs_attention"
        /\ unready.validUntil = "none"
        /\ unready.auth = rt.auth /\ unready.probe = rt.probe /\ unready.job = rt.job
    BY UnreadyRow
  <2> HIDE DEF unready
  <2>3. QED
    BY <2>1, <2>2 DEF RuntimeRow, Leased
<1>3. CASE class \in {"rate_limited", "transient_network", "schema_invalid_output"}
  <2> DEFINE more == IF rt.fails < 4 THEN rt.fails + 1 ELSE 4
  <2>1. more \in 0..4
    BY DEF RuntimeRow
  <2>2. new = rt \/ \E fails \in {rt.fails, more} :
                      /\ rt.validUntil # "none"
                      /\ new = [rt EXCEPT !.state = "ready", !.available = FALSE,
                                         !.retry = "ahead", !.fails = fails]
    <3>1. new \in {rt, Subscription!Postponed(rt.fails), Subscription!Postponed(more)}
      BY <1>3 DEF Subscription!AfterFailure
    <3>2. QED
      BY <3>1 DEF Subscription!Postponed
  <2> HIDE DEF more, new
  <2>3. CASE new = rt
    BY <2>3 DEF new
  <2>4. ASSUME NEW fails \in {rt.fails, more}, rt.validUntil # "none",
               new = [rt EXCEPT !.state = "ready", !.available = FALSE,
                                !.retry = "ahead", !.fails = fails]
        PROVE  /\ new \in RuntimeRow
               /\ new.auth = rt.auth /\ new.probe = rt.probe /\ new.job = rt.job
               /\ Leased(new) /\ rt.state = "ready"
               /\ new.capability = rt.capability /\ new.containment = rt.containment
    <3>1. fails \in 0..4 /\ rt.state = "ready"
      BY <2>1, <2>4 DEF RuntimeRow, Leased
    <3> DEFINE later == [rt EXCEPT !.available = FALSE, !.retry = "ahead"]
    <3>2. later \in RuntimeRow /\ later.state = "ready"
      BY <3>1 DEF RuntimeRow, Subscription!Time
    <3>3. /\ later.auth = rt.auth /\ later.probe = rt.probe /\ later.job = rt.job
          /\ later.capability = rt.capability /\ later.containment = rt.containment
      BY DEF RuntimeRow
    <3>4. new = [later EXCEPT !.fails = fails]
      BY <2>4, <3>1 DEF RuntimeRow
    <3> HIDE DEF later
    <3>5. QED
      BY <3>1, <3>2, <3>3, <3>4 DEF RuntimeRow, Leased
  <2>5. QED
    BY <2>2, <2>3, <2>4 DEF new
<1>4. QED
  BY <1>1, <1>2, <1>3 DEF Subscription!FailureClass

LEMMA SubscriptionStep ==
    ASSUME SubscriptionInv, [Subscription!Next]_subscription
    PROVE  SubscriptionInv'
<1> USE AdministrationAssumption
<1>0. /\ Subscription!TypeOK /\ RuntimeInv
      /\ rt \in RuntimeRow
      /\ \A r \in Run : ProbeRunInv(r)
  BY DEF SubscriptionInv, Subscription!TypeOK, RuntimeRow
<1>1. CASE Subscription!RequestProbe
  <2>1. /\ Subscription!EnqueueProbe(rt)
        /\ UNCHANGED <<enabled, runs, attempt, login, fenced, proof>>
    BY <1>1 DEF Subscription!RequestProbe
  <2>2. enabled' \in BOOLEAN
    BY <1>0, <2>1 DEF Subscription!TypeOK
  <2>3. QED
    BY <1>0, <2>1, <2>2, ProbeEnqueued DEF RuntimeInv
<1>2. CASE Subscription!ExpireReadyLease
  <2> DEFINE row == [rt EXCEPT !.available = FALSE]
  <2>1. /\ Subscription!EnqueueProbe(row)
        /\ UNCHANGED <<enabled, runs, attempt, login, fenced, proof>>
    BY <1>2 DEF Subscription!ExpireReadyLease
  <2>2. enabled' \in BOOLEAN
    BY <1>0, <2>1 DEF Subscription!TypeOK
  <2>3. /\ row \in RuntimeRow
        /\ row.auth = rt.auth /\ row.probe = rt.probe /\ row.job = rt.job
        /\ row.state = rt.state /\ row.validUntil = rt.validUntil
        /\ row.capability = rt.capability /\ row.containment = rt.containment
    BY <1>0 DEF RuntimeRow
  <2> HIDE DEF row
  <2>4. QED
    BY <1>0, <2>1, <2>2, <2>3, ProbeEnqueued DEF RuntimeInv, Leased
<1>3. CASE Subscription!Activate
  <2> DEFINE unready == Subscription!Unready(rt, "authorization_required")
             row == [unready EXCEPT !.job = 0]
  <2>1. /\ Subscription!EnqueueProbe(row)
        /\ enabled' = TRUE
        /\ UNCHANGED <<runs, attempt, login, fenced, proof>>
    BY <1>3 DEF Subscription!Activate
  <2>2. /\ unready \in RuntimeRow
        /\ unready.auth = rt.auth /\ unready.probe = rt.probe
        /\ unready.state = "authorization_required" /\ unready.validUntil = "none"
    BY <1>0, UnreadyRow
  <2> HIDE DEF unready
  <2>3. /\ row \in RuntimeRow
        /\ row.auth = rt.auth /\ row.probe = rt.probe /\ row.job = 0
        /\ row.state = "authorization_required" /\ row.validUntil = "none"
    BY <2>2 DEF RuntimeRow, Subscription!Generation
  <2> HIDE DEF row
  <2>4. enabled' \in BOOLEAN /\ row.job \in {0, rt.job} /\ row.state # "ready"
    BY <2>1, <2>3
  <2>5. QED
    BY <1>0, <2>1, <2>3, <2>4, ProbeEnqueued DEF Leased
<1>4. CASE Subscription!Deactivate
  <2> DEFINE unready == Subscription!Unready(rt, "authorization_required")
  <2>1. /\ rt.probe < MaxProbe /\ enabled' = FALSE
        /\ rt' = [unready EXCEPT !.probe = @ + 1, !.job = 0]
        /\ fenced' = fenced + 1
        /\ UNCHANGED <<jobs, runs, attempt, login, proof>>
    BY <1>4 DEF Subscription!Deactivate
  <2>2. /\ unready \in RuntimeRow
        /\ unready.probe = rt.probe /\ unready.state = "authorization_required"
        /\ unready.validUntil = "none"
    BY <1>0, UnreadyRow
  <2> HIDE DEF unready
  <2>3. /\ rt' \in RuntimeRow /\ rt'.probe = rt.probe + 1 /\ rt'.job = 0
        /\ rt'.state = "authorization_required" /\ rt'.validUntil = "none"
    <3>1. rt.probe + 1 \in Subscription!Generation /\ 0 \in Subscription!Generation
      BY <1>0, <2>1 DEF RuntimeRow, Subscription!Generation
    <3>2. rt' = [unready EXCEPT !.probe = rt.probe + 1, !.job = 0]
      BY <2>1, <2>2 DEF RuntimeRow
    <3>3. QED
      BY <2>2, <3>1, <3>2 DEF RuntimeRow
  <2>4. enabled' \in BOOLEAN /\ rt'.state # "ready"
    BY <2>1, <2>3
  <2>5. QED
    BY <2>1, <2>3, <2>4, RowFenced DEF Leased
<1>5. CASE Subscription!FenceAuth
  <2> DEFINE unready == Subscription!Unready(rt, "authorization_required")
  <2>1. /\ rt.probe < MaxProbe /\ rt.auth < MaxAuth
        /\ rt' = [unready EXCEPT !.auth = @ + 1, !.probe = @ + 1, !.job = 0,
                                 !.credential = 0, !.capability = 0, !.containment = 0]
        /\ fenced' = fenced + 1
        /\ UNCHANGED <<enabled, jobs, runs, attempt, login, proof>>
    BY <1>5 DEF Subscription!FenceAuth, Subscription!Fenced
  <2>2. /\ unready \in RuntimeRow
        /\ unready.probe = rt.probe /\ unready.auth = rt.auth
        /\ unready.state = "authorization_required" /\ unready.validUntil = "none"
    BY <1>0, UnreadyRow
  <2> HIDE DEF unready
  <2>3. /\ rt' \in RuntimeRow /\ rt'.probe = rt.probe + 1 /\ rt'.job = 0
        /\ rt'.state = "authorization_required" /\ rt'.validUntil = "none"
    <3>1. /\ rt.probe + 1 \in Subscription!Generation /\ 0 \in Subscription!Generation
          /\ rt.auth + 1 \in Subscription!Authorization
      BY <1>0, <2>1 DEF RuntimeRow, Subscription!Generation, Subscription!Authorization
    <3>2. rt' = [unready EXCEPT !.auth = rt.auth + 1, !.probe = rt.probe + 1, !.job = 0,
                                !.credential = 0, !.capability = 0, !.containment = 0]
      BY <2>1, <2>2 DEF RuntimeRow
    <3>3. QED
      BY <2>2, <3>1, <3>2 DEF RuntimeRow
  <2>4. enabled' \in BOOLEAN
    BY <1>0, <2>1 DEF Subscription!TypeOK
  <2>5. QED
    BY <2>1, <2>3, <2>4, RowFenced DEF Leased
<1>6. CASE Subscription!Relogin
  <2>1. Subscription!TypeOK'
    BY <1>0, <1>6 DEF Subscription!Relogin, Subscription!TypeOK, Subscription!Login
  <2>2. QED
    BY <1>0, <1>6, <2>1 DEF Subscription!Relogin, SubscriptionInv, RuntimeInv, ProbeRunInv
<1>7. ASSUME NEW r \in Run, Subscription!StartAcceptance(r)
      PROVE  SubscriptionInv'
  <2>1. /\ runs' = [runs EXCEPT ![r] = [Subscription!IdleRun EXCEPT
                      !.pc = "started", !.kind = "acceptance", !.auth = rt.auth]]
        /\ UNCHANGED <<enabled, rt, jobs, attempt, login, fenced, proof>>
    BY <1>7 DEF Subscription!StartAcceptance
  <2>2. [Subscription!IdleRun EXCEPT !.pc = "started", !.kind = "acceptance", !.auth = rt.auth]
          \in {x \in ProbeRun : x.kind = "acceptance"}
    <3>1. rt.auth \in Subscription!Authorization
      BY <1>0 DEF RuntimeRow
    <3>2. QED
      BY <3>1, IdleRunTyped DEF ProbeRun
  <2>3. QED
    BY <1>0, <2>1, <2>2, RunReplaced
<1>8. ASSUME NEW r \in Run, Subscription!CommitAcceptance(r)
      PROVE  SubscriptionInv'
  <2> DEFINE unready == Subscription!Unready(rt, "authorization_required")
  <2>1. /\ rt' \in {rt, [unready EXCEPT
                          !.present = TRUE, !.credential = runs[r].digest,
                          !.capability = runs[r].digest, !.containment = runs[r].digest]}
        /\ runs' = [runs EXCEPT ![r] = Subscription!IdleRun]
        /\ UNCHANGED <<enabled, jobs, attempt, login, fenced, proof>>
    BY <1>8 DEF Subscription!CommitAcceptance
  <2>2. /\ unready \in RuntimeRow /\ unready.state = "authorization_required"
        /\ unready.validUntil = "none"
        /\ unready.auth = rt.auth /\ unready.probe = rt.probe /\ unready.job = rt.job
        /\ runs[r].digest \in {0} \cup Subscription!Login
    BY <1>0, UnreadyRow DEF Subscription!TypeOK
  <2> HIDE DEF unready
  <2>3. /\ rt' \in RuntimeRow
        /\ rt'.auth = rt.auth /\ rt'.probe = rt.probe /\ rt'.job = rt.job
        /\ rt' = rt \/ (rt'.state = "authorization_required" /\ rt'.validUntil = "none")
    <3>1. CASE rt' = rt
      BY <1>0, <3>1
    <3>2. CASE rt' # rt
      <4>1. rt' = [unready EXCEPT
                    !.present = TRUE, !.credential = runs[r].digest,
                    !.capability = runs[r].digest, !.containment = runs[r].digest]
        BY <2>1, <3>2
      <4>2. QED
        BY <2>2, <4>1 DEF RuntimeRow
    <3>3. QED
      BY <3>1, <3>2
  <2>4. /\ rt'.job \in {0, rt.job} /\ proof' \in 0..MaxAuth + MaxProbe /\ Leased(rt)'
        /\ rt'.state = "ready" => proof' = fenced /\ rt'.capability # 0 /\ rt'.containment # 0
    BY <1>0, <2>1, <2>3 DEF RuntimeInv, Leased, Subscription!TypeOK
  <2>5. /\ jobs' \in [Subscription!Generation -> [status : {"absent", "queued", "running", "done"},
                        auth : Subscription!Authorization, claims : 0..2]]
        /\ \A g \in Subscription!Generation : jobs'[g].auth = jobs[g].auth
    BY <1>0, <2>1 DEF Subscription!TypeOK
  <2>6. QED
    BY <1>0, <2>1, <2>3, <2>4, <2>5, RunCommitted
<1>9. ASSUME NEW r \in Run, Subscription!Collect(r)
      PROVE  SubscriptionInv'
  <2> DEFINE new == [runs[r] EXCEPT !.pc = "collected", !.digest = login, !.seen = fenced]
  <2>1. /\ runs' = [runs EXCEPT ![r] = new] /\ runs[r].pc = "started"
        /\ UNCHANGED <<enabled, rt, jobs, attempt, login, fenced, proof>>
    BY <1>9 DEF Subscription!Collect
  <2>2. new \in ProbeRun /\ new.seen = fenced /\ new.probe = runs[r].probe /\ new.kind = runs[r].kind
    <3>1. runs[r] \in ProbeRun /\ login \in Subscription!Login /\ fenced \in 0..MaxAuth + MaxProbe
      BY <1>0 DEF Subscription!TypeOK, ProbeRun
    <3>2. QED
      BY <3>1 DEF ProbeRun
  <2>3. new.kind = "readiness" => new.probe <= rt.probe
    BY <1>0, <2>1, <2>2 DEF ProbeRunInv
  <2> HIDE DEF new
  <2>4. QED
    BY <1>0, <2>1, <2>2, <2>3, RunReplaced
<1>10. ASSUME NEW r \in Run, Subscription!CommitReadiness(r)
       PROVE  SubscriptionInv'
  <2>1. /\ runs[r].pc = "collected" /\ runs[r].kind = "readiness"
        /\ jobs' = [jobs EXCEPT ![runs[r].probe].status = "done"]
        /\ runs' = [runs EXCEPT ![r] = Subscription!IdleRun]
        /\ UNCHANGED <<enabled, attempt, login, fenced>>
    BY <1>10 DEF Subscription!CommitReadiness
  <2>2. runs[r].probe \in Subscription!Generation /\ runs[r].seen \in 0..MaxAuth + MaxProbe
    BY <1>0 DEF Subscription!TypeOK
  <2>3. /\ jobs' \in [Subscription!Generation -> [status : {"absent", "queued", "running", "done"},
                        auth : Subscription!Authorization, claims : 0..2]]
        /\ \A g \in Subscription!Generation : jobs'[g].auth = jobs[g].auth
    BY <1>0, <2>1, <2>2 DEF Subscription!TypeOK
  <2>4. CASE Subscription!Commits(r)
    <3>1. /\ rt' = [rt EXCEPT !.state = "ready", !.available = TRUE,
                      !.validUntil = "ahead", !.retry = "none", !.fails = 0, !.job = 0]
          /\ proof' = runs[r].seen
      BY <1>10, <2>4 DEF Subscription!CommitReadiness
    <3>2. /\ rt.probe = runs[r].probe /\ rt.capability # 0 /\ rt.containment # 0
      BY <2>4 DEF Subscription!Commits, Subscription!Attested
    \* The evidence is that of the generation on record: no fence came since.
    <3>3. proof' = fenced
      BY <1>0, <2>1, <3>1, <3>2 DEF ProbeRunInv
    <3>4. /\ rt' \in RuntimeRow /\ rt'.probe = rt.probe /\ rt'.auth = rt.auth /\ rt'.job = 0
          /\ Leased(rt)' /\ rt'.capability # 0 /\ rt'.containment # 0
      <4>1. 0 \in Subscription!Generation
        BY DEF Subscription!Generation
      <4>2. rt' \in RuntimeRow
        <5> DEFINE lease == [rt EXCEPT !.available = TRUE, !.validUntil = "ahead"]
                   kept == [lease EXCEPT !.retry = "none", !.fails = 0]
                   row == [kept EXCEPT !.job = 0]
        <5>1. lease \in RuntimeRow
          BY <1>0 DEF RuntimeRow, Subscription!Time
        <5>2. kept \in RuntimeRow
          <6> HIDE DEF lease
          <6> DEFINE early == [lease EXCEPT !.retry = "none"]
          <6>1. early \in RuntimeRow
            BY <5>1 DEF RuntimeRow, Subscription!Time
          <6>2. kept = [early EXCEPT !.fails = 0]
            BY <5>1 DEF RuntimeRow
          <6> HIDE DEF early, kept
          <6>3. QED
            BY <6>1, <6>2 DEF RuntimeRow
        <5>3. row \in RuntimeRow
          <6> HIDE DEF kept
          <6>1. QED
            BY <4>1, <5>2 DEF RuntimeRow
        <5>4. rt' = [row EXCEPT !.state = "ready"]
          BY <1>0, <3>1 DEF RuntimeRow
        <5> HIDE DEF row
        <5>5. QED
          BY <5>3, <5>4 DEF RuntimeRow
      <4>3. /\ rt'.probe = rt.probe /\ rt'.auth = rt.auth /\ rt'.job = 0 /\ rt'.state = "ready"
            /\ rt'.capability = rt.capability /\ rt'.containment = rt.containment
        BY <1>0, <3>1 DEF RuntimeRow
      <4>4. QED
        BY <3>2, <4>2, <4>3 DEF Leased
    <3>5. QED
      BY <1>0, <2>1, <2>2, <2>3, <3>1, <3>3, <3>4, IdleRunTyped, RunCommitted
  <2>5. CASE ~Subscription!Commits(r)
    <3>1. UNCHANGED <<rt, proof>>
      BY <1>10, <2>5 DEF Subscription!CommitReadiness
    <3>2. proof' \in 0..MaxAuth + MaxProbe /\ (rt'.state = "ready" => proof' = fenced /\ rt'.capability # 0 /\ rt'.containment # 0)
      BY <1>0, <3>1 DEF Subscription!TypeOK, RuntimeInv
    <3>3. Leased(rt)'
      BY <1>0, <3>1 DEF RuntimeInv, Leased
    <3>4. QED
      BY <1>0, <2>1, <2>3, <3>1, <3>2, <3>3, IdleRunTyped, RunCommitted
  <2>6. QED
    BY <2>4, <2>5
<1>11. ASSUME NEW r \in Run, Subscription!RunEnds(r)
       PROVE  SubscriptionInv'
  <2>1. /\ runs' = [runs EXCEPT ![r] = Subscription!IdleRun]
        /\ UNCHANGED <<enabled, rt, attempt, login, fenced, proof>>
    BY <1>11 DEF Subscription!RunEnds
  <2>2. runs[r].probe \in Subscription!Generation
    BY <1>0 DEF Subscription!TypeOK
  <2>3. PICK status \in {"absent", "queued", "running", "done"} :
           jobs' \in {jobs, [jobs EXCEPT ![runs[r].probe].status = status]}
    BY <1>0, <1>11, <2>2 DEF Subscription!RunEnds, Subscription!TypeOK
  <2>4. /\ jobs' \in [Subscription!Generation -> [status : {"absent", "queued", "running", "done"},
                        auth : Subscription!Authorization, claims : 0..2]]
        /\ \A g \in Subscription!Generation : jobs'[g].auth = jobs[g].auth
    <3>1. CASE jobs' = jobs
      BY <1>0, <3>1 DEF Subscription!TypeOK
    <3>2. CASE jobs' = [jobs EXCEPT ![runs[r].probe].status = status]
      BY <1>0, <2>2, <3>2 DEF Subscription!TypeOK
    <3>3. QED
      BY <2>3, <3>1, <3>2
  <2>5. proof' \in 0..MaxAuth + MaxProbe /\ (rt'.state = "ready" => proof' = fenced /\ rt'.capability # 0 /\ rt'.containment # 0)
    BY <1>0, <2>1 DEF Subscription!TypeOK, RuntimeInv
  <2>6. Leased(rt)'
    BY <1>0, <2>1 DEF RuntimeInv, Leased
  <2>7. QED
    BY <1>0, <2>1, <2>4, <2>5, <2>6, IdleRunTyped, RunCommitted
<1>12. ASSUME NEW r \in Run, NEW g \in Subscription!Generation, Subscription!StartReadiness(r, g)
       PROVE  SubscriptionInv'
  <2> DEFINE current == enabled /\ jobs[g].auth = rt.auth /\ g = rt.probe
             new == [Subscription!IdleRun EXCEPT !.pc = "started", !.probe = g, !.auth = jobs[g].auth]
  <2>1. /\ jobs[g].claims < 2
        /\ jobs' = [jobs EXCEPT ![g].status = IF current THEN "running" ELSE "done",
                                ![g].claims = @ + 1]
        /\ runs' = IF current THEN [runs EXCEPT ![r] = new] ELSE runs
        /\ UNCHANGED <<enabled, rt, attempt, login, fenced, proof>>
    BY <1>12 DEF Subscription!StartReadiness
  <2>2. /\ jobs' \in [Subscription!Generation -> [status : {"absent", "queued", "running", "done"},
                        auth : Subscription!Authorization, claims : 0..2]]
        /\ \A h \in Subscription!Generation : jobs'[h].auth = jobs[h].auth
    <3> DEFINE job == [jobs[g] EXCEPT !.status = IF current THEN "running" ELSE "done",
                                      !.claims = @ + 1]
    <3>1. jobs' = [jobs EXCEPT ![g] = job]
      BY <2>1
    <3>2. /\ job \in [status : {"absent", "queued", "running", "done"},
                      auth : Subscription!Authorization, claims : 0..2]
          /\ job.auth = jobs[g].auth
      BY <1>0, <2>1 DEF Subscription!TypeOK
    <3> HIDE DEF job
    <3>3. QED
      BY <1>0, <3>1, <3>2 DEF Subscription!TypeOK
  <2>3. new \in ProbeRun /\ new.pc = "started" /\ new.probe = g
    BY <1>0, <2>1 DEF Subscription!IdleRun, ProbeRun, Subscription!TypeOK
  <2>4. runs' \in {runs, [runs EXCEPT ![r] = new]} /\ (runs' = runs \/ new.probe <= rt.probe)
    BY <1>0, <2>1, <2>3 DEF Subscription!TypeOK, Subscription!Generation, RuntimeRow
  <2> HIDE DEF new, current
  <2>5. Subscription!TypeOK'
    BY <1>0, <2>1, <2>2, <2>3, <2>4 DEF Subscription!TypeOK, ProbeRun
  <2>6. \A q \in Run : ProbeRunInv(q)'
    BY <1>0, <2>1, <2>3, <2>4 DEF Subscription!TypeOK, ProbeRunInv
  <2>7. QED
    BY <1>0, <2>1, <2>2, <2>5, <2>6, BindingsKept DEF RuntimeInv, Leased
<1>13. CASE Subscription!StartAttempt
  <2>1. /\ attempt' = [pc |-> "running", auth |-> rt.auth, probe |-> rt.probe]
        /\ UNCHANGED <<enabled, rt, jobs, runs, login, fenced, proof>>
    BY <1>13 DEF Subscription!StartAttempt
  <2>2. Subscription!TypeOK'
    BY <1>0, <2>1 DEF Subscription!TypeOK, RuntimeRow
  <2>3. QED
    BY <1>0, <2>1, <2>2 DEF SubscriptionInv, RuntimeInv, Leased, ProbeRunInv
<1>14. CASE Subscription!FailAttempt
  <2>1. PICK class \in Subscription!FailureClass :
          rt' \in {rt, Subscription!AfterFailure(class)}
    BY <1>14 DEF Subscription!FailAttempt
  <2>2. /\ attempt' = Subscription!NoAttempt
        /\ UNCHANGED <<enabled, jobs, runs, login, fenced, proof>>
    BY <1>14 DEF Subscription!FailAttempt
  <2>3. /\ rt' \in RuntimeRow /\ rt'.auth = rt.auth /\ rt'.probe = rt.probe /\ rt'.job = rt.job
        /\ Leased(rt)'
        /\ rt'.state = "ready" => /\ rt.state = "ready" /\ rt'.capability = rt.capability
                                  /\ rt'.containment = rt.containment
    BY <1>0, <2>1, FailedRow DEF RuntimeInv, Leased
  <2>4. attempt' \in [pc : {"idle", "running"}, auth : Subscription!Authorization,
                      probe : Subscription!Generation]
    BY <2>2 DEF Subscription!NoAttempt, Subscription!Authorization, Subscription!Generation
  <2>5. Subscription!TypeOK'
    BY <1>0, <2>2, <2>3, <2>4 DEF Subscription!TypeOK, RuntimeRow
  <2>6. QED
    BY <1>0, <2>2, <2>3, <2>5 DEF SubscriptionInv, RuntimeInv, ProbeRunInv
<1>15. CASE Subscription!LeaseLapses \/ Subscription!RetryElapses
  <2>1. /\ \/ rt' = [rt EXCEPT !.validUntil = "past"] /\ rt.validUntil # "none"
           \/ rt' = [rt EXCEPT !.retry = "past"]
        /\ UNCHANGED <<enabled, jobs, runs, attempt, login, fenced, proof>>
    BY <1>15 DEF Subscription!LeaseLapses, Subscription!RetryElapses
  <2>2. /\ rt' \in RuntimeRow /\ rt'.auth = rt.auth /\ rt'.probe = rt.probe /\ rt'.job = rt.job
        /\ rt'.state = rt.state /\ rt'.capability = rt.capability
        /\ rt'.containment = rt.containment
        /\ rt'.validUntil # "none" => rt.validUntil # "none"
    BY <1>0, <2>1 DEF RuntimeRow, Subscription!Time
  <2>3. Subscription!TypeOK'
    BY <1>0, <2>1, <2>2 DEF Subscription!TypeOK, RuntimeRow
  <2>4. QED
    BY <1>0, <2>1, <2>2, <2>3 DEF SubscriptionInv, RuntimeInv, Leased, ProbeRunInv
<1>16. CASE UNCHANGED subscription
  BY <1>16 DEF subscription, SubscriptionInv, Subscription!TypeOK, RuntimeInv, Leased, ProbeRunInv
<1>17. QED
  BY <1>1, <1>2, <1>3, <1>4, <1>5, <1>6, <1>7, <1>8, <1>9, <1>10, <1>11, <1>12, <1>13,
     <1>14, <1>15, <1>16 DEF Subscription!Next

-----------------------------------------------------------------------------
(***************************************************************************)
(* The administration                                                      *)
(***************************************************************************)

AdminInv == GuardInv /\ SessionInv /\ HttpInv /\ SubscriptionInv

LEMMA AdminInit ==
    ASSUME Init
    PROVE  AdminInv
BY GuardInit, SessionInit, HttpInit, SubscriptionInit DEF Init, AdminInv

\* A part moves while the others rest.
LEMMA AdminStep ==
    ASSUME AdminInv, [Next]_vars
    PROVE  AdminInv'
<1>1. /\ [Guard!Next]_guard /\ [Session!Next]_session
      /\ [Http!Next]_http /\ [Subscription!Next]_subscription
  BY DEF Next, vars
<1>2. QED
  BY <1>1, GuardStep, SessionStep, HttpStep, SubscriptionStep DEF AdminInv

\* A provider that can be routed to is ready, and a ready one has proved it since
\* its last fence; and the settings page goes by the same row.
LEMMA ReadinessOfRow ==
    ASSUME SubscriptionInv
    PROVE  ReadinessIsProved
<1>1. RuntimeInv /\ Subscription!TypeOK
  BY DEF SubscriptionInv
<1>2. Subscription!RoutableIsProbed
  BY <1>1 DEF RuntimeInv, Subscription!RoutableIsProbed, Subscription!Routable
<1>3. Subscription!ActiveProbeCanCommit
  BY <1>1 DEF RuntimeInv, Subscription!ActiveProbeCanCommit
<1>4. Subscription!ShownReadyIsRoutable
  <2>1. SUFFICES ASSUME Subscription!SetupStatus = "ready"
                 PROVE  Subscription!Routable
    BY DEF Subscription!ShownReadyIsRoutable
  <2>2. /\ enabled /\ rt.present /\ rt.available
        /\ rt.retry = "none" /\ rt.validUntil = "ahead"
        /\ rt.state \notin {"authorization_required", "expired", "needs_attention"}
    BY <1>1, <2>1 DEF Subscription!SetupStatus, Subscription!TypeOK
  <2>3. rt.state = "ready"
    BY <1>1, <2>2 DEF Subscription!TypeOK
  <2>4. QED
    BY <1>1, <2>2, <2>3 DEF RuntimeInv, Subscription!Routable, Subscription!Attested
<1>5. QED
  BY <1>2, <1>3, <1>4 DEF ReadinessIsProved

LEMMA AdminImplies ==
    ASSUME AdminInv
    PROVE  TypeOK /\ LoginsBounded /\ RevokedIsShut /\ SettingsTogether
           /\ ListedWasTested /\ ReadinessIsProved
<1>1. TypeOK
  BY DEF AdminInv, GuardInv, SessionInv, HttpInv, SubscriptionInv, TypeOK
<1>2. LoginsBounded /\ ReadinessIsProved
  BY GuardBounds, ReadinessOfRow DEF AdminInv
<1>3. RevokedIsShut
  BY DEF AdminInv, SessionInv, RequestInv, RevokedIsShut, Session!RevokedIsShut
<1>4. SettingsTogether /\ ListedWasTested
  BY DEF AdminInv, HttpInv, SettingsTogether, ListedWasTested
<1>5. QED
  BY <1>1, <1>2, <1>3, <1>4

LEMMA AdminInvariant == Spec => []AdminInv
<1>1. Init => AdminInv
  BY AdminInit
<1>2. AdminInv /\ [Next]_vars => AdminInv'
  BY AdminStep
<1>3. QED
  BY <1>1, <1>2, PTL DEF Spec

\* Every variable of the four parts stays of its type, for every value of the
\* limits: the attempts in a window never pass the limit of its bucket, and no
\* probe, generation or revision is of one that was never given out.
THEOREM TypesStay == Spec => []TypeOK
<1>1. AdminInv => TypeOK
  BY AdminImplies
<1>2. QED
  BY <1>1, AdminInvariant, PTL

\* For any limits, window and lease: a client spends less than two of its windows
\* out of a shared one, and two passwords are compared at a time only if a lease
\* ran out (login-guard.ts).
THEOREM LoginsStayBounded == Spec => []LoginsBounded
<1>1. AdminInv => LoginsBounded
  BY AdminImplies
<1>2. QED
  BY <1>1, AdminInvariant, PTL

\* For any number of tabs and sessions: no request that begins after its session
\* was revoked is served (the session check of every route).
THEOREM RevokedStaysShut == Spec => []RevokedIsShut
<1>1. AdminInv => RevokedIsShut
  BY AdminImplies
<1>2. QED
  BY <1>1, AdminInvariant, PTL

\* For any administrators, keys, configurations and revisions: the identity on
\* record is that of the settings, and a call executes with the key and the
\* endpoint of one revision, although it reads them one after the other.
THEOREM SettingsStayTogether == Spec => []SettingsTogether
<1>1. AdminInv => SettingsTogether
  BY AdminImplies
<1>2. QED
  BY <1>1, AdminInvariant, PTL

\* For any administrators, keys and configurations: the catalog lists a manual
\* model only if its endpoint passed a test with the configuration and key listed.
THEOREM ListedStaysTested == Spec => []ListedWasTested
<1>1. AdminInv => ListedWasTested
  BY AdminImplies
<1>2. QED
  BY <1>1, AdminInvariant, PTL

\* For any number of probes, logins and generations: a subscription provider is
\* routable, or shown ready, only on evidence collected after its last fence, and
\* the probe on record can still commit.
THEOREM ReadinessStaysProved == Spec => []ReadinessIsProved
<1>1. AdminInv => ReadinessIsProved
  BY AdminImplies
<1>2. QED
  BY <1>1, AdminInvariant, PTL
=============================================================================
