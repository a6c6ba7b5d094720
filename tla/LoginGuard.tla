-------------------------------- MODULE LoginGuard --------------------------------
(***************************************************************************)
(* What an attempt to log in goes through: the clients that may try at     *)
(* all, the attempts a client and all of them together have in a window of *)
(* time, one comparison of a password at a time under a lease, the second  *)
(* factor unless the device is trusted.                                    *)
(*                                                                         *)
(* A window starts with the attempt that finds the former one over, so the *)
(* windows of a client and the one they share are not aligned.             *)
(***************************************************************************)
EXTENDS Naturals, FiniteSets

CONSTANTS Client,     \* identities of clients
          PerClient,  \* PER_CLIENT_MAX_ATTEMPTS
          Global,     \* GLOBAL_MAX_ATTEMPTS
          Window,     \* WINDOW_SECONDS
          Lease,      \* SCRYPT_LEASE_SECONDS
          LastTick    \* bound: time

VARIABLES now,      \* now()
          totp,     \* a second factor is configured
          allowed,  \* clients that ARA_ADMIN_ALLOWED_IPS lets in
          buckets,  \* buckets[c]: the row of client c in admin_login_guard
          global,   \* the row they share
          lock,     \* the row of the lease on scrypt
          attempt,  \* attempt[c]: where the request of c is, until when it may compare
          trusted,  \* clients that hold the cookie of a trusted device
          spent     \* attempts of each client since the shared window started

vars == <<now, totp, allowed, buckets, global, lock, attempt, trusted, spent>>

-----------------------------------------------------------------------------
NoOne == "no one"
Idle == [pc |-> "idle", until |-> 0]
Free == [owner |-> NoOne, until |-> 0]
Row == [from : 0..LastTick, attempts : 0..Global]

TypeOK ==
    /\ now \in 0..LastTick /\ totp \in BOOLEAN /\ allowed \subseteq Client
    /\ buckets \in [Client -> Row] /\ global \in Row
    /\ lock \in [owner : Client \cup {NoOne}, until : 0..LastTick + Lease]
    /\ attempt \in [Client -> [pc : {"idle", "counted", "comparing", "issuing", "in"},
                               until : 0..LastTick + Lease]]
    /\ trusted \subseteq Client
    /\ spent \in [Client -> 0..Global]

Init == /\ now = 0 /\ totp \in BOOLEAN
        /\ allowed \in SUBSET Client                 \* assertAdminClientAllowed
        /\ buckets = [c \in Client |-> [from |-> 0, attempts |-> 0]]
        /\ global = [from |-> 0, attempts |-> 0]
        /\ lock = Free
        /\ attempt = [c \in Client |-> Idle]
        /\ trusted = {}
        /\ spent = [c \in Client |-> 0]

Tick == /\ now < LastTick
        /\ now' = now + 1
        /\ UNCHANGED <<totp, allowed, buckets, global, lock, attempt, trusted, spent>>

-----------------------------------------------------------------------------
(***************************************************************************)
(* consume_admin_login_attempt                                             *)
(***************************************************************************)
Over(row) == row.from + Window <= now

Counted(row) == IF Over(row) THEN [from |-> now, attempts |-> 1]
                ELSE [row EXCEPT !.attempts = @ + 1]

\* A bug for the mutants: one attempt more.
OneMoreLeft(row, limit) == Over(row) \/ row.attempts <= limit

Left(row, limit) == Over(row) \/ row.attempts < limit

\* An attempt that either row refuses counts for neither; one of a malformed
\* request counts, and ends.
Consume(c) ==
    /\ c \in allowed /\ attempt[c].pc \in {"idle", "in"}
    /\ Left(global, Global) /\ Left(buckets[c], PerClient)
    /\ buckets' = [buckets EXCEPT ![c] = Counted(@)]
    /\ global' = Counted(global)
    /\ spent' = [d \in Client |-> IF Over(global) THEN (IF d = c THEN 1 ELSE 0)
                                  ELSE spent[d] + (IF d = c THEN 1 ELSE 0)]
    /\ \E pc \in {"idle", "counted"} : attempt' = [attempt EXCEPT ![c] = [Idle EXCEPT !.pc = pc]]
    /\ UNCHANGED <<now, totp, allowed, lock, trusted>>

-----------------------------------------------------------------------------
(***************************************************************************)
(* withDurableLoginScrypt, and what comes after it.                        *)
(***************************************************************************)

\* acquire_admin_login_scrypt, of a lease that is free or has run out.
Acquire(c) ==
    /\ attempt[c].pc = "counted"
    /\ IF lock = Free \/ lock.until <= now
       THEN /\ lock' = [owner |-> c, until |-> now + Lease]
            /\ attempt' = [attempt EXCEPT ![c] = [pc |-> "comparing", until |-> now + Lease]]
       ELSE UNCHANGED lock /\ attempt' = [attempt EXCEPT ![c] = Idle]
    /\ UNCHANGED <<now, totp, allowed, buckets, global, trusted, spent>>

\* release_admin_login_scrypt
Released(c) == IF lock.owner = c THEN Free ELSE lock

\* The comparison ends, whatever came of it; a release that is lost is ignored.
\* The right password takes a trusted device or a code where one is asked for.
Compared(c) ==
    /\ attempt[c].pc = "comparing"
    /\ lock' \in {lock, Released(c)}
    /\ \E right, code \in BOOLEAN :
         attempt' = [attempt EXCEPT ![c] =
            IF right /\ (totp => c \in trusted \/ code)
            THEN [Idle EXCEPT !.pc = "issuing"] ELSE Idle]
    /\ UNCHANGED <<now, totp, allowed, buckets, global, trusted, spent>>

\* persistAdminSession, or its failure; then the cookies.
Issue(c) ==
    /\ attempt[c].pc = "issuing"
    /\ \/ /\ attempt' = [attempt EXCEPT ![c] = [Idle EXCEPT !.pc = "in"]]
          /\ trusted' = IF totp THEN trusted \cup {c} ELSE trusted
       \/ attempt' = [attempt EXCEPT ![c] = Idle] /\ UNCHANGED trusted
    /\ UNCHANGED <<now, totp, allowed, buckets, global, lock, spent>>

Next == \/ Tick
        \/ \E c \in Client : Consume(c) \/ Acquire(c) \/ Compared(c) \/ Issue(c)

Spec == Init /\ [][Next]_vars

-----------------------------------------------------------------------------
\* However its own window and the shared one overlap, a client spends less than two
\* of its windows out of a shared one, so it cannot lock the others out; and two
\* passwords are compared at a time only if the lease of one ran out.
LoginsBounded ==
    /\ \A c \in Client : spent[c] < 2 * PerClient
    /\ \A c, d \in Client :
         attempt[c].pc = "comparing" /\ attempt[d].pc = "comparing"
         /\ now < attempt[c].until /\ now < attempt[d].until => c = d
=============================================================================
