------------------------------ MODULE Notifications ------------------------------
(***************************************************************************)
(* The rows of notifications: what inserts one sends its message at once,  *)
(* and the digest sends those that are still to be told in one message.    *)
(* Senders and digests are attempts at different jobs, which run at the    *)
(* same time and may be taken over while they go on; a message that        *)
(* Telegram takes may still look lost to who sent it.                      *)
(*                                                                         *)
(* A notification is its idempotency key, which is there once for all.     *)
(***************************************************************************)
EXTENDS Naturals, FiniteSets

CONSTANTS Note,        \* idempotency keys
          Sender,      \* attempts that decide about candidates
          Digest,      \* attempts at sending a digest
          DigestLimit  \* rows a digest takes

VARIABLES rows,    \* notifications.status
          told,    \* notes of which Telegram took a message
          sender,  \* sender[s]: the attempt
          digest   \* digest[d]: the attempt

vars == <<rows, told, sender, digest>>

-----------------------------------------------------------------------------
Reply == {"none", "accepted", "retryable", "failed"}
IdleSender == [note |-> "none", reply |-> "none"]
IdleDigest == [loaded |-> {}, reply |-> "none"]

TypeOK ==
    /\ rows \in [Note -> {"absent", "queued", "retryable", "failed", "delivered"}]
    /\ told \subseteq Note
    /\ sender \in [Sender -> [note : Note \cup {"none"}, reply : Reply]]
    /\ digest \in [Digest -> [loaded : SUBSET Note, reply : Reply]]

Init == /\ rows = [n \in Note |-> "absent"] /\ told = {}
        /\ sender = [s \in Sender |-> IdleSender]
        /\ digest = [d \in Digest |-> IdleDigest]

Pending == {n \in Note : rows[n] \in {"queued", "retryable"}}

\* sendTelegramMessage: what comes of a message about the notes, and what its
\* sender takes it for.
Message(notes, reply) ==
    \/ reply \in {"accepted", "retryable"} /\ told' = told \cup notes
    \/ reply \in {"retryable", "failed"} /\ UNCHANGED told

-----------------------------------------------------------------------------
(***************************************************************************)
(* recordCandidateLifecycleNotification, and the summary of a daily run,   *)
(* which only the digest tells.                                            *)
(***************************************************************************)
Record(s, n) ==
    /\ sender[s] = IdleSender
    /\ rows[n] = "absent"                      \* else a duplicate: it is not sent again
    /\ rows' = [rows EXCEPT ![n] = "queued"]
    /\ sender' \in {sender, [sender EXCEPT ![s].note = n]}
    /\ UNCHANGED <<told, digest>>

Deliver(s) ==
    /\ sender[s].note # "none" /\ sender[s].reply = "none"
    /\ \E reply \in Reply \ {"none"} :
         /\ Message({sender[s].note}, reply)
         /\ sender' = [sender EXCEPT ![s].reply = reply]
    /\ UNCHANGED <<rows, digest>>

Status(reply) == IF reply = "accepted" THEN "delivered" ELSE reply

\* Whatever the row has become.
MarkSent(s) ==
    /\ sender[s].reply # "none"
    /\ rows' = [rows EXCEPT ![sender[s].note] = Status(sender[s].reply)]
    /\ sender' = [sender EXCEPT ![s] = IdleSender]
    /\ UNCHANGED <<told, digest>>

\* Telegram is off, the settings cannot be read, or the worker dies.
SenderLeaves(s) ==
    /\ sender[s] # IdleSender
    /\ sender' = [sender EXCEPT ![s] = IdleSender]
    /\ UNCHANGED <<rows, told, digest>>

-----------------------------------------------------------------------------
(***************************************************************************)
(* runSendDigest                                                           *)
(***************************************************************************)

\* The oldest rows; which they are is left open.
Load(d) ==
    /\ digest[d] = IdleDigest
    /\ \E notes \in SUBSET Pending :
         /\ notes # {} /\ Cardinality(notes) <= DigestLimit
         /\ Cardinality(notes) = DigestLimit \/ notes = Pending
         /\ digest' = [digest EXCEPT ![d].loaded = notes]
    /\ UNCHANGED <<rows, told, sender>>

SendDigest(d) ==
    /\ digest[d].loaded # {} /\ digest[d].reply = "none"
    /\ \E reply \in Reply \ {"none"} :
         /\ Message(digest[d].loaded, reply)
         /\ digest' = [digest EXCEPT ![d].reply = reply]
    /\ UNCHANGED <<rows, sender>>

\* A bug for the mutants: all that is to be told is marked as told.
MarkPending(d) == digest[d].loaded \cup Pending

\* The rows that are left to mark.
ToMark(d) == digest[d].loaded

\* Row by row, one that is still to be told as delivered, but any as refused.
MarkRow(d, n) ==
    /\ digest[d].reply # "none" /\ n \in ToMark(d)
    /\ rows' = IF digest[d].reply = "accepted" /\ n \notin Pending THEN rows
               ELSE [rows EXCEPT ![n] = Status(digest[d].reply)]
    /\ digest' = [digest EXCEPT ![d] =
         IF @.loaded \subseteq {n} THEN IdleDigest
         ELSE [@ EXCEPT !.loaded = digest[d].loaded \ {n}]]
    /\ UNCHANGED <<told, sender>>

DigestDies(d) ==
    /\ digest[d] # IdleDigest
    /\ digest' = [digest EXCEPT ![d] = IdleDigest]
    /\ UNCHANGED <<rows, told, sender>>

Next ==
    \/ \E s \in Sender : (\E n \in Note : Record(s, n)) \/ Deliver(s) \/ MarkSent(s) \/ SenderLeaves(s)
    \/ \E d \in Digest : Load(d) \/ SendDigest(d) \/ (\E n \in Note : MarkRow(d, n)) \/ DigestDies(d)

Spec == Init /\ [][Next]_vars

-----------------------------------------------------------------------------
\* Between the senders and the digests that look at a row at the same time, none
\* is marked as delivered that Telegram was never told.
DeliveredWasTold == \A n \in Note : rows[n] = "delivered" => n \in told
=============================================================================
