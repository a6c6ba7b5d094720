--------------------------- MODULE ResearchProofs ---------------------------
(***************************************************************************)
(* What holds of the way of the research for any number of uploads, runs,  *)
(* attempts, versions of the evidence, notes, senders and digests.  Each   *)
(* part has an inductive invariant of its own; they are put together at    *)
(* the end.  Of the pure parts (ResearchCases), what is shown is shown of  *)
(* the operators for all they may be given (business evidence, needs,      *)
(* routes), and of the questions that are asked from that.                 *)
(***************************************************************************)
EXTENDS Research, Sequences, SequenceTheorems, FiniteSetTheorems, TLAPS

-----------------------------------------------------------------------------
(***************************************************************************)
(* Notifications                                                           *)
(***************************************************************************)

\* What a sender or a digest takes for accepted was told, of every note that it is
\* about to mark.
NotesInv ==
    /\ Notes!TypeOK
    /\ \A n \in Note : rows[n] = "delivered" => n \in told
    /\ \A s \in Sender : sender[s].reply = "accepted" => sender[s].note \in told
    /\ \A d \in Digest : digest[d].reply = "accepted" => digest[d].loaded \subseteq told

LEMMA NotesInit ==
    ASSUME Notes!Init
    PROVE  NotesInv
BY DEF NotesInv, Notes!Init, Notes!TypeOK, Notes!IdleSender, Notes!IdleDigest, Notes!Reply

LEMMA NotesStep ==
    ASSUME NotesInv, [Notes!Next]_notes
    PROVE  NotesInv'
<1>1. Notes!TypeOK
  BY DEF NotesInv
<1>2. ASSUME NEW s \in Sender, NEW n \in Note, Notes!Record(s, n)
      PROVE  NotesInv'
  <2>1. /\ rows' = [rows EXCEPT ![n] = "queued"] /\ UNCHANGED <<told, digest>>
        /\ sender[s].note = "none" /\ sender[s].reply = "none"
    BY <1>2 DEF Notes!Record, Notes!IdleSender
  <2>2. PICK m \in {"none", n} :
          sender' = [sender EXCEPT ![s] = [note |-> m, reply |-> "none"]]
    <3>1. sender[s] = [note |-> "none", reply |-> "none"]
      BY <1>2 DEF Notes!Record, Notes!IdleSender
    <3>2. CASE sender' = sender
      <4>1. sender' = [sender EXCEPT ![s] = [note |-> "none", reply |-> "none"]]
        BY <1>1, <3>1, <3>2 DEF Notes!TypeOK
      <4>2. QED
        BY <4>1
    <3>3. CASE sender' = [sender EXCEPT ![s].note = n]
      <4>1. [sender[s] EXCEPT !.note = n] = [note |-> n, reply |-> "none"]
        BY <3>1
      <4>2. sender' = [sender EXCEPT ![s] = [sender[s] EXCEPT !.note = n]]
        BY <3>3
      <4>3. QED
        BY <4>1, <4>2
    <3>4. QED
      BY <1>2, <3>2, <3>3 DEF Notes!Record
  <2>3. Notes!TypeOK'
    BY <1>1, <2>1, <2>2 DEF Notes!TypeOK, Notes!Reply
  <2>4. \A t \in Sender : sender'[t].reply = "accepted" => sender'[t].note \in told'
    BY <1>1, <2>1, <2>2 DEF NotesInv, Notes!TypeOK
  <2>5. QED
    BY <1>1, <2>1, <2>3, <2>4 DEF NotesInv, Notes!TypeOK
<1>3. ASSUME NEW s \in Sender, Notes!Deliver(s)
      PROVE  NotesInv'
  <2>1. PICK reply \in Notes!Reply \ {"none"} :
          /\ Notes!Message({sender[s].note}, reply)
          /\ sender' = [sender EXCEPT ![s].reply = reply]
    BY <1>3 DEF Notes!Deliver
  <2>2. /\ UNCHANGED <<rows, digest>> /\ sender[s].note # "none"
        /\ sender[s] \in [note : Note \cup {"none"}, reply : Notes!Reply]
    BY <1>1, <1>3 DEF Notes!Deliver, Notes!TypeOK
  <2>3. /\ sender[s].note \in Note /\ told \subseteq told' /\ told' \subseteq Note
        /\ reply = "accepted" => sender[s].note \in told'
    BY <1>1, <2>1, <2>2 DEF Notes!Message, Notes!TypeOK
  <2>4. /\ sender'[s] = [sender[s] EXCEPT !.reply = reply]
        /\ \A t \in Sender \ {s} : sender'[t] = sender[t]
        /\ DOMAIN sender' = Sender /\ sender' = [t \in Sender |-> sender'[t]]
    BY <1>1, <2>1 DEF Notes!TypeOK
  <2>5. /\ sender'[s] \in [note : Note \cup {"none"}, reply : Notes!Reply]
        /\ sender'[s].note = sender[s].note /\ sender'[s].reply = reply
    BY <2>1, <2>2, <2>4
  <2>6. Notes!TypeOK'
    BY <1>1, <2>2, <2>3, <2>4, <2>5 DEF Notes!TypeOK
  <2>7. \A t \in Sender : sender'[t].reply = "accepted" => sender'[t].note \in told'
    BY <2>3, <2>4, <2>5 DEF NotesInv
  <2>8. QED
    BY <2>2, <2>3, <2>6, <2>7 DEF NotesInv
<1>4. ASSUME NEW s \in Sender, Notes!MarkSent(s)
      PROVE  NotesInv'
  <2>1. /\ rows' = [rows EXCEPT ![sender[s].note] = Notes!Status(sender[s].reply)]
        /\ sender' = [sender EXCEPT ![s] = Notes!IdleSender]
        /\ UNCHANGED <<told, digest>>
        /\ sender[s].reply \in {"accepted", "retryable", "failed"}
    BY <1>1, <1>4 DEF Notes!MarkSent, Notes!TypeOK, Notes!Reply
  <2>2. /\ Notes!Status(sender[s].reply) \in {"delivered", "retryable", "failed"}
        /\ Notes!Status(sender[s].reply) = "delivered" => sender[s].note \in told
    BY <2>1 DEF Notes!Status, NotesInv
  <2>3. Notes!TypeOK'
    <3>1. Notes!IdleSender \in [note : Note \cup {"none"}, reply : Notes!Reply]
      BY DEF Notes!IdleSender, Notes!Reply
    <3>2. QED
      BY <1>1, <2>1, <2>2, <3>1 DEF Notes!TypeOK
  <2>4. \A n \in Note : rows'[n] = "delivered" => n \in told'
    BY <1>1, <2>1, <2>2 DEF NotesInv, Notes!TypeOK
  <2>5. \A t \in Sender : sender'[t].reply = "accepted" => sender'[t].note \in told'
    BY <1>1, <2>1 DEF NotesInv, Notes!TypeOK, Notes!IdleSender
  <2>6. QED
    BY <2>1, <2>3, <2>4, <2>5 DEF NotesInv
<1>5. ASSUME NEW s \in Sender, Notes!SenderLeaves(s)
      PROVE  NotesInv'
  <2>1. sender' = [sender EXCEPT ![s] = Notes!IdleSender] /\ UNCHANGED <<rows, told, digest>>
    BY <1>5 DEF Notes!SenderLeaves
  <2>2. Notes!IdleSender \in [note : Note \cup {"none"}, reply : Notes!Reply]
    BY DEF Notes!IdleSender, Notes!Reply
  <2>3. Notes!TypeOK'
    BY <1>1, <2>1, <2>2 DEF Notes!TypeOK
  <2>4. \A t \in Sender : sender'[t].reply = "accepted" => sender'[t].note \in told'
    BY <1>1, <2>1 DEF NotesInv, Notes!TypeOK, Notes!IdleSender
  <2>5. QED
    BY <2>1, <2>3, <2>4 DEF NotesInv
<1>6. ASSUME NEW d \in Digest, Notes!Load(d)
      PROVE  NotesInv'
  <2>1. PICK loaded \in SUBSET Notes!Pending : digest' = [digest EXCEPT ![d].loaded = loaded]
    BY <1>6 DEF Notes!Load
  <2>2. /\ UNCHANGED <<rows, told, sender>> /\ loaded \subseteq Note
        /\ digest[d] = [loaded |-> {}, reply |-> "none"]
    BY <1>6 DEF Notes!Load, Notes!Pending, Notes!IdleDigest
  <2>3. digest' = [digest EXCEPT ![d] = [loaded |-> loaded, reply |-> "none"]]
    <3>1. [digest[d] EXCEPT !.loaded = loaded] = [loaded |-> loaded, reply |-> "none"]
      BY <2>2
    <3>2. digest' = [digest EXCEPT ![d] = [digest[d] EXCEPT !.loaded = loaded]]
      BY <2>1
    <3>3. QED
      BY <3>1, <3>2
  <2>4. Notes!TypeOK'
    BY <1>1, <2>2, <2>3 DEF Notes!TypeOK, Notes!Reply
  <2>5. \A e \in Digest : digest'[e].reply = "accepted" => digest'[e].loaded \subseteq told'
    BY <1>1, <2>2, <2>3 DEF NotesInv, Notes!TypeOK
  <2>6. QED
    BY <2>2, <2>4, <2>5 DEF NotesInv
<1>7. ASSUME NEW d \in Digest, Notes!SendDigest(d)
      PROVE  NotesInv'
  <2>1. PICK reply \in Notes!Reply \ {"none"} :
          /\ Notes!Message(digest[d].loaded, reply)
          /\ digest' = [digest EXCEPT ![d].reply = reply]
    BY <1>7 DEF Notes!SendDigest
  <2>2. UNCHANGED <<rows, sender>> /\ digest[d] \in [loaded : SUBSET Note, reply : Notes!Reply]
    BY <1>1, <1>7 DEF Notes!SendDigest, Notes!TypeOK
  <2>3. /\ told \subseteq told' /\ told' \subseteq Note
        /\ reply = "accepted" => digest[d].loaded \subseteq told'
    BY <1>1, <2>1, <2>2 DEF Notes!Message, Notes!TypeOK
  <2>4. /\ digest'[d] = [digest[d] EXCEPT !.reply = reply]
        /\ \A e \in Digest \ {d} : digest'[e] = digest[e]
        /\ DOMAIN digest' = Digest /\ digest' = [e \in Digest |-> digest'[e]]
    BY <1>1, <2>1 DEF Notes!TypeOK
  <2>5. /\ digest'[d] \in [loaded : SUBSET Note, reply : Notes!Reply]
        /\ digest'[d].loaded = digest[d].loaded /\ digest'[d].reply = reply
    BY <2>1, <2>2, <2>4
  <2>6. Notes!TypeOK'
    BY <1>1, <2>2, <2>3, <2>4, <2>5 DEF Notes!TypeOK
  <2>7. \A e \in Digest : digest'[e].reply = "accepted" => digest'[e].loaded \subseteq told'
    BY <2>3, <2>4, <2>5 DEF NotesInv
  <2>8. QED
    BY <2>2, <2>3, <2>6, <2>7 DEF NotesInv
<1>8. ASSUME NEW d \in Digest, NEW n \in Note, Notes!MarkRow(d, n)
      PROVE  NotesInv'
  <2>1. /\ digest[d].reply \in {"accepted", "retryable", "failed"}
        /\ n \in digest[d].loaded
        /\ UNCHANGED <<told, sender>>
        /\ digest[d] \in [loaded : SUBSET Note, reply : Notes!Reply]
    BY <1>1, <1>8 DEF Notes!MarkRow, Notes!ToMark, Notes!TypeOK, Notes!Reply
  <2>2. /\ Notes!Status(digest[d].reply) \in {"delivered", "retryable", "failed"}
        /\ Notes!Status(digest[d].reply) = "delivered" => n \in told
    BY <2>1 DEF Notes!Status, NotesInv
  <2>3. rows' = rows \/ rows' = [rows EXCEPT ![n] = Notes!Status(digest[d].reply)]
    BY <1>8 DEF Notes!MarkRow
  <2>4. PICK r \in [loaded : SUBSET digest[d].loaded, reply : {"none", digest[d].reply}] :
          /\ digest' = [digest EXCEPT ![d] = r]
    <3>1. CASE digest[d].loaded \subseteq {n}
      <4>1. Notes!IdleDigest \in [loaded : SUBSET digest[d].loaded,
                                  reply : {"none", digest[d].reply}]
        BY DEF Notes!IdleDigest
      <4>2. digest' = [digest EXCEPT ![d] = Notes!IdleDigest]
        BY <1>8, <3>1 DEF Notes!MarkRow
      <4>3. QED
        BY <4>1, <4>2
    <3>2. CASE ~(digest[d].loaded \subseteq {n})
      <4>1. [digest[d] EXCEPT !.loaded = digest[d].loaded \ {n}] \in
              [loaded : SUBSET digest[d].loaded, reply : {"none", digest[d].reply}]
        BY <2>1
      <4>2. digest' = [digest EXCEPT ![d] = [digest[d] EXCEPT !.loaded =
                                               digest[d].loaded \ {n}]]
        BY <1>8, <3>2 DEF Notes!MarkRow
      <4>3. QED
        BY <4>1, <4>2
    <3>3. QED
      BY <3>1, <3>2
  <2>5. /\ digest'[d] = r /\ \A e \in Digest \ {d} : digest'[e] = digest[e]
        /\ DOMAIN digest' = Digest /\ digest' = [e \in Digest |-> digest'[e]]
    BY <1>1, <2>4 DEF Notes!TypeOK
  <2>6. Notes!TypeOK'
    <3>1. r \in [loaded : SUBSET Note, reply : Notes!Reply]
      BY <2>1 DEF Notes!Reply
    <3>2. digest' \in [Digest -> [loaded : SUBSET Note, reply : Notes!Reply]]
      BY <1>1, <2>5, <3>1 DEF Notes!TypeOK
    <3>3. rows' \in [Note -> {"absent", "queued", "retryable", "failed", "delivered"}]
      BY <1>1, <2>2, <2>3 DEF Notes!TypeOK
    <3>4. QED
      BY <1>1, <2>1, <3>2, <3>3 DEF Notes!TypeOK
  <2>7. \A m \in Note : rows'[m] = "delivered" => m \in told'
    BY <1>1, <2>1, <2>2, <2>3 DEF NotesInv, Notes!TypeOK
  <2>8. \A e \in Digest : digest'[e].reply = "accepted" => digest'[e].loaded \subseteq told'
    <3>1. r.reply = "accepted" => r.loaded \subseteq told
      BY DEF NotesInv
    <3>2. QED
      BY <2>1, <2>5, <3>1 DEF NotesInv
  <2>9. QED
    BY <2>1, <2>6, <2>7, <2>8 DEF NotesInv
<1>9. ASSUME NEW d \in Digest, Notes!DigestDies(d)
      PROVE  NotesInv'
  <2>1. digest' = [digest EXCEPT ![d] = Notes!IdleDigest] /\ UNCHANGED <<rows, told, sender>>
    BY <1>9 DEF Notes!DigestDies
  <2>2. Notes!IdleDigest \in [loaded : SUBSET Note, reply : Notes!Reply]
    BY DEF Notes!IdleDigest, Notes!Reply
  <2>3. Notes!TypeOK'
    BY <1>1, <2>1, <2>2 DEF Notes!TypeOK
  <2>4. \A e \in Digest : digest'[e].reply = "accepted" => digest'[e].loaded \subseteq told'
    BY <1>1, <2>1 DEF NotesInv, Notes!TypeOK, Notes!IdleDigest
  <2>5. QED
    BY <2>1, <2>3, <2>4 DEF NotesInv
<1>10. CASE UNCHANGED notes
  BY <1>10 DEF notes, NotesInv, Notes!TypeOK
<1>11. QED
  BY <1>2, <1>3, <1>4, <1>5, <1>6, <1>7, <1>8, <1>9, <1>10 DEF Notes!Next

-----------------------------------------------------------------------------
(***************************************************************************)
(* The paid research of a candidate                                        *)
(***************************************************************************)
RunRow == [pc : {"idle", "fetching", "deciding", "following", "leaving"},
           read : 0..MaxVersion, began : 0..MaxVersion, from : Paid!State]

\* What an attempt has read is there, and stays as it was read.
PaidInv ==
    /\ Paid!TypeOK
    /\ \A j \in Paid!Job : run[j].began <= Len(versions)
    /\ Paid!HoldBlocks

LEMMA IdleRunRow ==
    \A pc \in {"idle", "following", "leaving"} :
      /\ [Paid!IdleRun EXCEPT !.pc = pc] \in RunRow
      /\ [Paid!IdleRun EXCEPT !.pc = pc].pc = pc
      /\ [Paid!IdleRun EXCEPT !.pc = pc].began = 0
      /\ Paid!IdleRun = [Paid!IdleRun EXCEPT !.pc = "idle"]
<1> DEFINE row(pc) == [pc |-> pc, read |-> 0, began |-> 0, from |-> "Watch"]
<1>1. /\ \A pc : [Paid!IdleRun EXCEPT !.pc = pc] = row(pc)
      /\ Paid!IdleRun = row("idle")
  BY DEF Paid!IdleRun
<1>2. \A pc \in {"idle", "following", "leaving"} :
        row(pc) \in RunRow /\ row(pc).pc = pc /\ row(pc).began = 0
  <2>1. 0 \in 0..MaxVersion /\ "Watch" \in Paid!State
    BY ResearchAssumption DEF Paid!State
  <2>2. QED
    BY <2>1 DEF RunRow
<1> HIDE DEF row
<1>3. QED
  BY <1>1, <1>2

LEMMA PaidInit ==
    ASSUME Paid!Init
    PROVE  PaidInv
<1> USE ResearchAssumption
<1>1. versions = <<>> /\ versions \in Seq(Evidence) /\ Len(versions) = 0
  <2>1. <<>> \in Seq(Evidence) /\ Len(<<>>) = 0
    OBVIOUS
  <2>2. versions = <<>>
    BY DEF Paid!Init
  <2>3. QED
    BY <2>1, <2>2
<1>2. \A j \in Paid!Job : run[j].pc = "idle" /\ run[j].began = 0
  BY DEF Paid!Init, Paid!IdleRun
<1>3. run \in [Paid!Job -> RunRow]
  <2>1. Paid!IdleRun \in RunRow
    BY IdleRunRow
  <2>2. QED
    BY <2>1 DEF Paid!Init
<1>4. Paid!TypeOK
  <2>1. /\ state \in Paid!State /\ jobs \in [Paid!Job -> {"absent", "queued", "done"}]
    BY DEF Paid!Init, Paid!State
  <2>2. Len(versions) <= MaxVersion
    BY <1>1
  <2>3. QED
    BY <1>1, <1>3, <2>1, <2>2 DEF Paid!TypeOK, RunRow
<1>5. QED
  BY <1>1, <1>2, <1>4 DEF PaidInv, Paid!HoldBlocks

\* One attempt goes on, and does not come to pay by it; the evidence stays.
LEMMA RunKeepsPaid ==
    ASSUME PaidInv, NEW j \in Paid!Job, NEW r \in RunRow,
           run' = [run EXCEPT ![j] = r], r.pc # "fetching", r.began <= Len(versions),
           UNCHANGED versions,
           jobs' \in [Paid!Job -> {"absent", "queued", "done"}],
           state' \in Paid!State
    PROVE  PaidInv'
<1>1. Paid!TypeOK /\ run \in [Paid!Job -> RunRow]
  BY DEF PaidInv, Paid!TypeOK, RunRow
<1>2. /\ run' \in [Paid!Job -> RunRow] /\ run'[j] = r
      /\ \A i \in Paid!Job \ {j} : run'[i] = run[i]
  BY <1>1
<1>3. Paid!TypeOK'
  BY <1>1, <1>2 DEF Paid!TypeOK, RunRow
<1>4. \A i \in Paid!Job : run'[i].began <= Len(versions')
  BY <1>2 DEF PaidInv
<1>5. Paid!HoldBlocks'
  BY <1>2 DEF PaidInv, Paid!HoldBlocks, Paid!Admits
<1>6. QED
  BY <1>3, <1>4, <1>5 DEF PaidInv

LEMMA GotoRow ==
    ASSUME PaidInv, NEW j \in Paid!Job, NEW pc \in {"deciding", "following", "leaving"},
           Paid!Goto(j, pc)
    PROVE  \E r \in RunRow : /\ run' = [run EXCEPT ![j] = r]
                             /\ r.pc # "fetching" /\ r.began <= Len(versions)
<1>1. run \in [Paid!Job -> RunRow] /\ run[j] \in RunRow /\ Len(versions) \in Nat
  <2>1. versions \in Seq(Evidence) /\ run \in [Paid!Job -> RunRow]
    BY DEF PaidInv, Paid!TypeOK, RunRow
  <2>2. QED
    BY <2>1
<1>2. CASE pc = "deciding"
  <2>1. run' = [run EXCEPT ![j] = [run[j] EXCEPT !.pc = pc]]
    BY <1>1, <1>2 DEF Paid!Goto
  <2>2. /\ [run[j] EXCEPT !.pc = pc] \in RunRow
        /\ [run[j] EXCEPT !.pc = pc].pc = pc
        /\ [run[j] EXCEPT !.pc = pc].began = run[j].began
    BY <1>1, <1>2 DEF RunRow
  <2>3. run[j].began <= Len(versions)
    BY DEF PaidInv
  <2>4. QED
    BY <1>2, <2>1, <2>2, <2>3
<1>3. CASE pc # "deciding"
  <2>1. run' = [run EXCEPT ![j] = [Paid!IdleRun EXCEPT !.pc = pc]]
    BY <1>3 DEF Paid!Goto
  <2>2. /\ [Paid!IdleRun EXCEPT !.pc = pc] \in RunRow
        /\ [Paid!IdleRun EXCEPT !.pc = pc].pc = pc
        /\ [Paid!IdleRun EXCEPT !.pc = pc].began = 0
    BY <1>3, IdleRunRow
  <2>3. PICK r \in RunRow : /\ r = [Paid!IdleRun EXCEPT !.pc = pc]
                            /\ r.pc = pc /\ r.began = 0
    BY <2>2
  <2>4. run' = [run EXCEPT ![j] = r] /\ r.pc # "fetching" /\ r.began <= Len(versions)
    BY <1>1, <1>3, <2>1, <2>3
  <2>5. QED
    BY <2>4
<1>4. QED
  BY <1>2, <1>3

LEMMA PaidStep ==
    ASSUME PaidInv, [Paid!Next]_paid
    PROVE  PaidInv'
<1> USE ResearchAssumption
<1>1. /\ Paid!TypeOK /\ versions \in Seq(Evidence) /\ Len(versions) \in 0..MaxVersion
      /\ run \in [Paid!Job -> RunRow]
      /\ jobs \in [Paid!Job -> {"absent", "queued", "done"}] /\ state \in Paid!State
  <2>1. /\ Paid!TypeOK /\ versions \in Seq(Evidence) /\ Len(versions) <= MaxVersion
        /\ run \in [Paid!Job -> RunRow]
        /\ jobs \in [Paid!Job -> {"absent", "queued", "done"}] /\ state \in Paid!State
    BY DEF PaidInv, Paid!TypeOK, RunRow
  <2>2. Len(versions) \in Nat
    BY <2>1
  <2>3. QED
    BY <2>1, <2>2
<1>2. \A kinds : Paid!Enqueued(kinds) \in [Paid!Job -> {"absent", "queued", "done"}]
  BY <1>1 DEF Paid!Enqueued
<1>3. \A j \in Paid!Job : /\ Paid!Rest(j) \in {"following", "leaving"}
                          /\ Paid!Verdicts(j) \subseteq Paid!State
  BY DEF Paid!Rest, Paid!Verdicts, Paid!State
<1>4. ASSUME NEW v \in Evidence, Paid!AppendEvidence(v)
      PROVE  PaidInv'
  <2>1. /\ versions' = Append(versions, v) /\ Len(versions) < MaxVersion
        /\ UNCHANGED <<state, jobs, run>>
    <3>1. versions \o <<v>> = Append(versions, v)
      BY <1>1
    <3>2. QED
      BY <1>4, <3>1 DEF Paid!AppendEvidence
  <2>2. /\ versions' \in Seq(Evidence) /\ Len(versions') = Len(versions) + 1
        /\ \A n \in 1..Len(versions) : versions'[n] = versions[n]
    BY <1>1, <2>1
  <2>3. Paid!TypeOK'
    BY <1>1, <2>1, <2>2 DEF Paid!TypeOK
  <2>4. \A j \in Paid!Job : run'[j].began <= Len(versions')
    <3>1. SUFFICES ASSUME NEW j \in Paid!Job PROVE run[j].began <= Len(versions')
      BY <2>1
    <3>2. run[j].began \in Nat /\ run[j].began <= Len(versions)
      BY <1>1 DEF PaidInv, RunRow
    <3>3. QED
      BY <1>1, <2>2, <3>2
  <2>5. Paid!HoldBlocks'
    <3>1. SUFFICES ASSUME NEW j \in Paid!Job, run[j].pc = "fetching"
                   PROVE  /\ run[j].read = run[j].began /\ run[j].began # 0
                          /\ Paid!KindOf(j) \in versions'[run[j].began].admits
      BY <2>1 DEF Paid!HoldBlocks, Paid!Admits
    <3>2. /\ run[j].read = run[j].began /\ run[j].began # 0
          /\ Paid!KindOf(j) \in versions[run[j].began].admits
      BY <3>1 DEF PaidInv, Paid!HoldBlocks, Paid!Admits
    <3>3. run[j].began \in 1..Len(versions)
      BY <1>1, <3>2 DEF PaidInv, RunRow
    <3>4. QED
      BY <2>2, <3>2, <3>3
  <2>6. QED
    BY <2>3, <2>4, <2>5 DEF PaidInv
<1>5. CASE Paid!DailyChild
  <2>1. /\ UNCHANGED <<versions, state, run>>
        /\ jobs' \in [Paid!Job -> {"absent", "queued", "done"}]
    BY <1>2, <1>5 DEF Paid!DailyChild
  <2>2. QED
    BY <1>1, <2>1 DEF PaidInv, Paid!TypeOK, Paid!HoldBlocks, Paid!Admits
<1>6. ASSUME NEW j \in Paid!Job, Paid!Begin(j)
      PROVE  PaidInv'
  <2> DEFINE admitted == Paid!Open(Paid!KindOf(j))
                         /\ Paid!Admits(Len(versions), Paid!KindOf(j))
  <2>1. UNCHANGED <<versions, state, jobs>>
    BY <1>6 DEF Paid!Begin
  <2>2. CASE admitted
    <3> DEFINE r == [pc |-> "fetching", began |-> Len(versions), read |-> Len(versions),
                     from |-> IF Paid!KindOf(j) = "enrich" THEN state ELSE "Watch"]
    <3>1. run' = [run EXCEPT ![j] = r]
      BY <1>6, <2>2 DEF Paid!Begin, Paid!EvidenceRead, Paid!Latest
    <3>2. r \in RunRow
      BY <1>1 DEF RunRow, Paid!State
    <3>3. /\ run' \in [Paid!Job -> RunRow] /\ run'[j] = r
          /\ \A i \in Paid!Job \ {j} : run'[i] = run[i]
      BY <1>1, <3>1, <3>2
    <3>4. Paid!TypeOK'
      BY <1>1, <2>1, <3>3 DEF Paid!TypeOK, RunRow
    <3>5. \A i \in Paid!Job : run'[i].began <= Len(versions')
      BY <1>1, <2>1, <3>3 DEF PaidInv
    <3>6. Paid!HoldBlocks'
      BY <2>1, <2>2, <3>3 DEF PaidInv, Paid!HoldBlocks, Paid!Admits
    <3>7. QED
      BY <3>4, <3>5, <3>6 DEF PaidInv
  <2>3. CASE ~admitted
    <3>1. run' = [run EXCEPT ![j] = [Paid!IdleRun EXCEPT !.pc = Paid!Rest(j)]]
      BY <1>6, <2>3 DEF Paid!Begin, Paid!EvidenceRead, Paid!Latest
    <3>2. PICK pc \in {"following", "leaving"} : pc = Paid!Rest(j)
      BY <1>3
    <3>3. PICK r \in RunRow : r = [Paid!IdleRun EXCEPT !.pc = pc] /\ r.pc = pc /\ r.began = 0
      BY <3>2, IdleRunRow
    <3>4. run' = [run EXCEPT ![j] = r] /\ r.pc # "fetching" /\ r.began <= Len(versions)
      BY <1>1, <3>1, <3>2, <3>3
    <3>5. QED
      BY <1>1, <2>1, <3>4, RunKeepsPaid
  <2>4. QED
    BY <2>2, <2>3
<1>7. ASSUME NEW j \in Paid!Job, Paid!Refused(j)
      PROVE  PaidInv'
  <2>1. Paid!Resumed(j) \in [Paid!Job -> {"absent", "queued", "done"}]
    <3>1. jobs[<<Paid!KindOf(j), 0>>] \in {"absent", "queued", "done"}
      BY <1>1 DEF Paid!Job, Paid!KindOf
    <3>2. QED
      BY <1>1, <3>1 DEF Paid!Resumed
  <2>2. /\ UNCHANGED versions /\ Paid!Goto(j, Paid!Rest(j))
        /\ jobs' \in [Paid!Job -> {"absent", "queued", "done"}] /\ state' \in Paid!State
    BY <1>1, <1>7, <2>1 DEF Paid!Refused, Paid!State
  <2>3. QED
    BY <1>3, <2>2, GotoRow, RunKeepsPaid
<1>8. ASSUME NEW j \in Paid!Job, Paid!Answered(j)
      PROVE  PaidInv'
  <2>1. PICK pc \in {"following", "deciding"} : Paid!Goto(j, pc)
    BY <1>8 DEF Paid!Answered
  <2>2. UNCHANGED <<versions, state, jobs>>
    BY <1>8 DEF Paid!Answered
  <2>3. QED
    BY <1>1, <2>1, <2>2, GotoRow, RunKeepsPaid
<1>9. ASSUME NEW j \in Paid!Job, Paid!Decide(j)
      PROVE  PaidInv'
  <2>1. /\ UNCHANGED <<versions, jobs>> /\ Paid!Goto(j, Paid!Rest(j))
        /\ state' \in Paid!State
    BY <1>1, <1>3, <1>9 DEF Paid!Decide
  <2>2. QED
    BY <1>1, <1>3, <2>1, GotoRow, RunKeepsPaid
<1>10. ASSUME NEW j \in Paid!Job, Paid!EndJob(j)
       PROVE  PaidInv'
  <2>1. PICK enqueued \in [Paid!Job -> {"absent", "queued", "done"}] :
          jobs' = [enqueued EXCEPT ![j] = "done"]
    BY <1>1, <1>2, <1>10 DEF Paid!EndJob
  <2>2. /\ run' = [run EXCEPT ![j] = Paid!IdleRun] /\ UNCHANGED <<versions, state>>
        /\ jobs' \in [Paid!Job -> {"absent", "queued", "done"}]
    BY <1>10, <2>1 DEF Paid!EndJob
  <2>3. PICK r \in RunRow : r = Paid!IdleRun /\ r.pc = "idle" /\ r.began = 0
    BY IdleRunRow
  <2>4. run' = [run EXCEPT ![j] = r] /\ r.pc # "fetching" /\ r.began <= Len(versions)
    BY <1>1, <2>2, <2>3
  <2>5. QED
    BY <1>1, <2>2, <2>4, RunKeepsPaid
<1>11. ASSUME NEW j \in Paid!Job, Paid!Dies(j)
       PROVE  PaidInv'
  <2>1. /\ run' = [run EXCEPT ![j] = Paid!IdleRun] /\ UNCHANGED <<versions, jobs>>
        /\ state' \in Paid!State
    BY <1>1, <1>3, <1>11 DEF Paid!Dies
  <2>2. PICK r \in RunRow : r = Paid!IdleRun /\ r.pc = "idle" /\ r.began = 0
    BY IdleRunRow
  <2>3. run' = [run EXCEPT ![j] = r] /\ r.pc # "fetching" /\ r.began <= Len(versions)
    BY <1>1, <2>1, <2>2
  <2>4. QED
    BY <1>1, <2>1, <2>3, RunKeepsPaid
<1>12. CASE UNCHANGED paid
  BY <1>12 DEF paid, PaidInv, Paid!TypeOK, Paid!HoldBlocks, Paid!Admits
<1>13. QED
  BY <1>4, <1>5, <1>6, <1>7, <1>8, <1>9, <1>10, <1>11, <1>12 DEF Paid!Next

-----------------------------------------------------------------------------
(***************************************************************************)
(* The import                                                              *)
(***************************************************************************)
RunStatus == {"absent", "queued", "processing", "completed", "failed"}
UploadRow == [pc : {"finding", "inserting", "conflict", "storing",
                    "recording", "enqueueing", "failing", "accepted", "error"},
              run : 0..MaxRun]
JobRow == [status : {"absent", "queued", "running", "completed", "failed"},
           run : 0..MaxRun, epoch : 0..MaxAttempts, live : BOOLEAN]
WorkPc == {"none", "downloading", "asserting", "parsing", "writing",
           "completing", "reporting", "catching", "failing", "ended"}
WorkRow == [pc : WorkPc, next : 1..6]

\* Tables that an attempt has behind it.
Written(n) == {Csv!Tables[m] : m \in 1..n - 1}

\* An attempt that writes has the tables behind it written, whoever wrote more; one
\* that completes has all; and a run is completed by an attempt at the job, which
\* names the run from its first row on.
CsvInv ==
    /\ Csv!TypeOK
    /\ job.status = "absent" => \A e \in Csv!Epoch : work[e].pc = "none"
    /\ \A r \in Csv!RunId : imports[r] = "completed" =>
         job.status # "absent" /\ r = job.run /\ tables = Csv!Table
    /\ \A e \in Csv!Epoch : work[e].pc = "writing" =>
         work[e].next \in 1..5 /\ Written(work[e].next) \subseteq tables
    /\ \A e \in Csv!Epoch : work[e].pc = "completing" => tables = Csv!Table

LEMMA FiveTables ==
    /\ Len(Csv!Tables) = 5 /\ Len(Csv!Tables) + 1 = 6
    /\ \A n \in 1..5 : Csv!Tables[n] \in Csv!Table
    /\ Csv!Table = Written(6) /\ Written(1) = {}
    /\ \A n \in 1..5 : Written(n + 1) = Written(n) \cup {Csv!Tables[n]}
<1>1. Len(Csv!Tables) = 5
  BY DEF Csv!Tables
<1>2. Csv!Table = {Csv!Tables[n] : n \in 1..5}
  BY <1>1 DEF Csv!Table
<1>3. Csv!Table = Written(6)
  BY <1>2 DEF Written
<1>4. Written(1) = {}
  BY DEF Written
<1>5. ASSUME NEW n \in 1..5
      PROVE  Written(n + 1) = Written(n) \cup {Csv!Tables[n]}
  <2>1. \A m : m \in 1..(n + 1) - 1 <=> m \in 1..n - 1 \/ m = n
    OBVIOUS
  <2> DEFINE T(m) == Csv!Tables[m]
  <2>2. Written(n + 1) = {T(m) : m \in 1..(n + 1) - 1} /\ Written(n) = {T(m) : m \in 1..n - 1}
    BY DEF Written
  <2> HIDE DEF T
  <2>3. {T(m) : m \in 1..(n + 1) - 1} = {T(m) : m \in 1..n - 1} \cup {T(n)}
    BY <2>1
  <2>4. QED
    BY <2>2, <2>3 DEF T
<1>6. QED
  BY <1>1, <1>2, <1>3, <1>4, <1>5

\* The types, spelled out.
LEMMA CsvTypes ==
    Csv!TypeOK <=>
      /\ files \in {"malformed", "rejected", "accepted"}
      /\ imports \in [Csv!RunId -> RunStatus]
      /\ upload \in [Upload -> UploadRow]
      /\ job \in JobRow
      /\ work \in [Csv!Epoch -> WorkRow]
      /\ tables \subseteq Csv!Table
      /\ candidate \in {"absent", "Reject", "AI Screening", "further"}
<1>1. Len(Csv!Tables) + 1 = 6
  BY FiveTables
<1>2. QED
  BY <1>1 DEF Csv!TypeOK, RunStatus, UploadRow, JobRow, WorkRow, WorkPc, Csv!MaybeRun

LEMMA CsvTypesNext ==
    ASSUME files' \in {"malformed", "rejected", "accepted"},
           imports' \in [Csv!RunId -> RunStatus],
           upload' \in [Upload -> UploadRow],
           job' \in JobRow,
           work' \in [Csv!Epoch -> WorkRow],
           tables' \subseteq Csv!Table,
           candidate' \in {"absent", "Reject", "AI Screening", "further"}
    PROVE  Csv!TypeOK'
<1>1. Len(Csv!Tables) + 1 = 6
  BY FiveTables
<1>2. QED
  BY <1>1 DEF Csv!TypeOK, RunStatus, UploadRow, JobRow, WorkRow, WorkPc, Csv!MaybeRun

LEMMA CsvInit ==
    ASSUME Csv!Init
    PROVE  CsvInv
<1> USE ResearchAssumption
<1>1. [pc |-> "finding", run |-> 0] \in UploadRow
  BY DEF UploadRow
<1>2. [status |-> "absent", run |-> 0, epoch |-> 0, live |-> FALSE] \in JobRow
  BY DEF JobRow
<1>3. [pc |-> "none", next |-> 1] \in WorkRow
  BY DEF WorkRow, WorkPc
<1>4. Csv!TypeOK
  BY <1>1, <1>2, <1>3, CsvTypes DEF Csv!Init, RunStatus
<1>5. \A e \in Csv!Epoch : work[e].pc = "none"
  BY DEF Csv!Init
<1>6. \A r \in Csv!RunId : imports[r] # "completed"
  BY DEF Csv!Init
<1>7. QED
  BY <1>4, <1>5, <1>6 DEF CsvInv

\* A window goes on: it completes no run, and leaves the job and its attempts alone.
LEMMA UploadKeepsCsv ==
    ASSUME CsvInv, UNCHANGED <<files, job, work, tables, candidate>>,
           imports' \in [Csv!RunId -> RunStatus], upload' \in [Upload -> UploadRow],
           \A r \in Csv!RunId : imports'[r] = "completed" => imports[r] = "completed"
    PROVE  CsvInv'
<1>1. Csv!TypeOK'
  BY CsvTypes, CsvTypesNext DEF CsvInv
<1>2. QED
  BY <1>1 DEF CsvInv

\* An attempt at the job goes on.
LEMMA AttemptKeepsCsv ==
    ASSUME CsvInv, NEW e \in Csv!Epoch, NEW r \in WorkRow,
           work' = [work EXCEPT ![e] = r],
           UNCHANGED <<files, upload>>,
           candidate' \in {"absent", "Reject", "AI Screening", "further"},
           imports' \in [Csv!RunId -> RunStatus],
           job' \in JobRow, job'.run = job.run, job'.status # "absent",
           job.status # "absent",
           tables \subseteq tables', tables' \subseteq Csv!Table,
           r.pc = "writing" => r.next \in 1..5 /\ Written(r.next) \subseteq tables',
           r.pc = "completing" => tables' = Csv!Table,
           \A q \in Csv!RunId : imports'[q] = "completed" =>
             imports[q] = "completed" \/ (q = job.run /\ tables' = Csv!Table)
    PROVE  CsvInv'
<1>1. work \in [Csv!Epoch -> WorkRow] /\ upload \in [Upload -> UploadRow]
      /\ files \in {"malformed", "rejected", "accepted"}
  BY CsvTypes DEF CsvInv
<1>2. /\ work' \in [Csv!Epoch -> WorkRow] /\ work'[e] = r
      /\ \A d \in Csv!Epoch \ {e} : work'[d] = work[d]
  BY <1>1
<1>3. Csv!TypeOK'
  BY <1>1, <1>2, CsvTypesNext
<1>4. \A q \in Csv!RunId : imports'[q] = "completed" =>
        job'.status # "absent" /\ q = job'.run /\ tables' = Csv!Table
  BY DEF CsvInv
<1>5. \A d \in Csv!Epoch : work'[d].pc = "writing" =>
        work'[d].next \in 1..5 /\ Written(work'[d].next) \subseteq tables'
  <2>1. ASSUME NEW d \in Csv!Epoch \ {e}, work'[d].pc = "writing"
        PROVE  work'[d].next \in 1..5 /\ Written(work'[d].next) \subseteq tables'
    <3>1. work[d].next \in 1..5 /\ Written(work[d].next) \subseteq tables
      BY <1>2, <2>1 DEF CsvInv
    <3>2. QED
      BY <1>2, <3>1
  <2>2. QED
    BY <1>2, <2>1
<1>6. \A d \in Csv!Epoch : work'[d].pc = "completing" => tables' = Csv!Table
  BY <1>2 DEF CsvInv
<1>7. QED
  BY <1>3, <1>4, <1>5, <1>6 DEF CsvInv, Written

LEMMA ToAttemptRow ==
    ASSUME CsvInv, NEW e \in Csv!Epoch, NEW pc \in WorkPc, Csv!ToAttempt(e, pc)
    PROVE  \E r \in WorkRow : /\ work' = [work EXCEPT ![e] = r]
                              /\ r.pc = pc /\ r.next = work[e].next
<1>1. work \in [Csv!Epoch -> WorkRow] /\ work[e] \in WorkRow
  BY CsvTypes DEF CsvInv
<1>2. work' = [work EXCEPT ![e] = [work[e] EXCEPT !.pc = pc]]
  BY <1>1 DEF Csv!ToAttempt
<1>3. /\ [work[e] EXCEPT !.pc = pc] \in WorkRow
      /\ [work[e] EXCEPT !.pc = pc].pc = pc
      /\ [work[e] EXCEPT !.pc = pc].next = work[e].next
  BY <1>1 DEF WorkRow
<1>4. QED
  BY <1>2, <1>3

\* To a place where nothing is promised of what was written.
PlainPc == WorkPc \ {"writing", "completing"}

LEMMA PlainKeepsCsv ==
    ASSUME CsvInv, NEW e \in Csv!Epoch, NEW pc \in PlainPc, Csv!ToAttempt(e, pc),
           UNCHANGED <<files, upload>>,
           candidate' \in {"absent", "Reject", "AI Screening", "further"},
           imports' \in [Csv!RunId -> RunStatus],
           job' \in JobRow, job'.run = job.run, job'.status # "absent",
           job.status # "absent",
           tables \subseteq tables', tables' \subseteq Csv!Table,
           \A q \in Csv!RunId : imports'[q] = "completed" =>
             imports[q] = "completed" \/ (q = job.run /\ tables' = Csv!Table)
    PROVE  CsvInv'
<1>1. pc \in WorkPc /\ pc # "writing" /\ pc # "completing"
  BY DEF PlainPc
<1>2. PICK r \in WorkRow : work' = [work EXCEPT ![e] = r] /\ r.pc = pc
  BY <1>1, ToAttemptRow
<1>3. r.pc # "writing" /\ r.pc # "completing"
  BY <1>1, <1>2
<1>4. QED
  BY <1>2, <1>3, AttemptKeepsCsv

LEMMA UploadStep ==
    ASSUME CsvInv, NEW u \in Upload,
           \/ Csv!FindExisting(u) \/ Csv!InsertRun(u)
           \/ Csv!StoreFiles(u) \/ Csv!Enqueue(u) \/ Csv!FailUpload(u)
    PROVE  CsvInv'
<1> USE ResearchAssumption
<1>1. /\ upload \in [Upload -> UploadRow] /\ upload[u] \in UploadRow
      /\ imports \in [Csv!RunId -> RunStatus] /\ job \in JobRow
  BY CsvTypes DEF CsvInv
<1>2. \A pc \in {"finding", "inserting", "conflict", "storing", "recording",
                 "enqueueing", "failing", "accepted", "error"}, r \in 0..MaxRun :
        Csv!ToUpload(u, pc, r) => upload' \in [Upload -> UploadRow]
  <2>1. SUFFICES ASSUME NEW pc \in {"finding", "inserting", "conflict", "storing",
                                    "recording", "enqueueing", "failing", "accepted",
                                    "error"},
                        NEW r \in 0..MaxRun, Csv!ToUpload(u, pc, r)
                 PROVE  upload' \in [Upload -> UploadRow]
    OBVIOUS
  <2>2. [pc |-> pc, run |-> r] \in UploadRow
    BY DEF UploadRow
  <2>3. QED
    BY <1>1, <2>1, <2>2 DEF Csv!ToUpload
<1>3. /\ 0 \in 0..MaxRun /\ upload[u].run \in 0..MaxRun
      /\ \A r \in Csv!RunId : r \in 0..MaxRun
  BY <1>1 DEF UploadRow, Csv!RunId
<1>4. CASE Csv!FindExisting(u)
  <2>1. upload' \in [Upload -> UploadRow]
    <3>1. CASE Csv!Active # {}
      <4>1. PICK r \in Csv!Active : Csv!ToUpload(u, "accepted", r)
        BY <1>4, <3>1 DEF Csv!FindExisting
      <4>2. r \in Csv!RunId
        BY DEF Csv!Active
      <4>3. QED
        BY <1>2, <1>3, <4>1, <4>2
    <3>2. CASE Csv!Active = {}
      <4>1. Csv!ToUpload(u, "inserting", 0) \/ Csv!ToUpload(u, "error", 0)
        BY <1>4, <3>2 DEF Csv!FindExisting
      <4>2. QED
        BY <1>2, <1>3, <4>1
    <3>3. QED
      BY <3>1, <3>2
  <2>2. UNCHANGED <<files, imports, job, work, tables, candidate>>
    BY <1>4 DEF Csv!FindExisting
  <2>3. QED
    BY <1>1, <2>1, <2>2, UploadKeepsCsv
<1>5. CASE Csv!InsertRun(u)
  <2>1. UNCHANGED <<files, job, work, tables, candidate>>
    BY <1>5 DEF Csv!InsertRun
  <2>2. /\ upload' \in [Upload -> UploadRow]
        /\ imports' = imports \/ \E r \in Csv!RunId : imports' = [imports EXCEPT ![r] = "queued"]
    <3>1. CASE Csv!Active # {}
      BY <1>2, <1>3, <1>5, <3>1 DEF Csv!InsertRun
    <3>2. CASE Csv!Active = {}
      <4>1. PICK r \in Csv!RunId : /\ imports' = [imports EXCEPT ![r] = "queued"]
                                   /\ Csv!ToUpload(u, "storing", r)
        BY <1>5, <3>2 DEF Csv!InsertRun
      <4>2. QED
        BY <1>2, <1>3, <4>1
    <3>3. QED
      BY <3>1, <3>2
  <2>3. /\ imports' \in [Csv!RunId -> RunStatus]
        /\ \A r \in Csv!RunId : imports'[r] = "completed" => imports[r] = "completed"
    BY <1>1, <2>2 DEF RunStatus
  <2>4. QED
    BY <2>1, <2>2, <2>3, UploadKeepsCsv
<1>6. CASE Csv!StoreFiles(u)
  <2>1. PICK pc \in {"recording", "enqueueing", "failing"} : Csv!ToUpload(u, pc, upload[u].run)
    BY <1>6 DEF Csv!StoreFiles
  <2>2. upload' \in [Upload -> UploadRow]
    BY <1>2, <1>3, <2>1
  <2>3. UNCHANGED <<files, imports, job, work, tables, candidate>>
    BY <1>6 DEF Csv!StoreFiles
  <2>4. QED
    BY <1>1, <2>2, <2>3, UploadKeepsCsv
<1>7. CASE Csv!FailUpload(u)
  <2>1. /\ UNCHANGED <<files, job, work, tables, candidate>>
        /\ imports' = [imports EXCEPT ![upload[u].run] = "failed"] \/ imports' = imports
        /\ Csv!ToUpload(u, "error", upload[u].run)
    BY <1>7 DEF Csv!FailUpload
  <2>2. /\ imports' \in [Csv!RunId -> RunStatus]
        /\ \A r \in Csv!RunId : imports'[r] = "completed" => imports[r] = "completed"
    BY <1>1, <2>1 DEF RunStatus
  <2>3. upload' \in [Upload -> UploadRow]
    BY <1>2, <1>3, <2>1
  <2>4. QED
    BY <2>1, <2>2, <2>3, UploadKeepsCsv
<1>8. CASE Csv!Enqueue(u)
  <2>1. UNCHANGED <<files, imports, work, tables, candidate>>
    BY <1>8 DEF Csv!Enqueue
  <2>2. upload' \in [Upload -> UploadRow]
    BY <1>2, <1>3, <1>8 DEF Csv!Enqueue
  <2>3. CASE job' = job
    BY <1>1, <2>1, <2>2, <2>3, UploadKeepsCsv
  <2>4. CASE job' # job
    <3>1. /\ job.status = "absent"
          /\ job' = [job EXCEPT !.status = "queued", !.run = upload[u].run]
      BY <1>8, <2>4 DEF Csv!Enqueue
    <3>2. job' \in JobRow /\ job'.status = "queued"
      BY <1>1, <1>3, <3>1 DEF JobRow
    <3>3. Csv!TypeOK'
      BY <2>1, <2>2, <3>2, CsvTypes, CsvTypesNext DEF CsvInv
    <3>4. \A r \in Csv!RunId : imports[r] # "completed"
      BY <3>1 DEF CsvInv
    <3>5. QED
      BY <2>1, <3>2, <3>3, <3>4 DEF CsvInv
  <2>5. QED
    BY <2>3, <2>4
<1>9. QED
  BY <1>4, <1>5, <1>6, <1>7, <1>8

LEMMA QueueStep ==
    ASSUME CsvInv, Csv!Claim \/ Csv!LeaseLapses \/ Csv!Screen
    PROVE  CsvInv'
<1> USE ResearchAssumption
<1>1. /\ files \in {"malformed", "rejected", "accepted"} /\ upload \in [Upload -> UploadRow]
      /\ imports \in [Csv!RunId -> RunStatus] /\ job \in JobRow
      /\ work \in [Csv!Epoch -> WorkRow] /\ tables \subseteq Csv!Table
      /\ candidate \in {"absent", "Reject", "AI Screening", "further"}
  BY CsvTypes DEF CsvInv
<1>2. CASE Csv!Claim
  <2>1. /\ job' = [job EXCEPT !.status = "running", !.epoch = @ + 1, !.live = TRUE]
        /\ Csv!ToAttempt(job.epoch + 1, "downloading")
        /\ UNCHANGED <<files, imports, upload, tables, candidate>>
        /\ job.epoch < MaxAttempts /\ job.status # "absent"
    BY <1>2 DEF Csv!Claim
  <2>2. job.epoch \in Nat
    <3>1. job \in JobRow
      BY <1>1
    <3>2. job.epoch \in 0..MaxAttempts
      BY <3>1 DEF JobRow
    <3>3. QED
      BY <3>2
  <2>3. job.epoch + 1 \in Csv!Epoch /\ job.epoch + 1 \in 0..MaxAttempts
    BY <2>1, <2>2 DEF Csv!Epoch
  <2>4. job' \in JobRow /\ job'.run = job.run /\ job'.status # "absent"
    BY <1>1, <2>1, <2>3 DEF JobRow
  <2>5. "downloading" \in PlainPc
    BY DEF PlainPc, WorkPc
  <2>6. QED
    BY <1>1, <2>1, <2>3, <2>4, <2>5, PlainKeepsCsv
<1>3. CASE Csv!LeaseLapses
  <2>1. /\ job.status = "running" /\ UNCHANGED <<files, imports, upload, work, tables, candidate>>
        /\ \/ job' = [job EXCEPT !.status = "failed", !.live = FALSE]
           \/ job' = [job EXCEPT !.live = FALSE]
    BY <1>3 DEF Csv!LeaseLapses
  <2>2. job' \in JobRow /\ job'.run = job.run /\ job'.status # "absent"
    BY <1>1, <2>1 DEF JobRow
  <2>3. Csv!TypeOK'
    BY <1>1, <2>1, <2>2, CsvTypesNext
  <2>4. QED
    BY <2>1, <2>2, <2>3 DEF CsvInv
<1>4. CASE Csv!Screen
  <2>1. UNCHANGED <<files, imports, upload, job, work, tables>> /\ candidate' = "further"
    BY <1>4 DEF Csv!Screen
  <2>2. Csv!TypeOK'
    BY <1>1, <2>1, CsvTypesNext
  <2>3. QED
    BY <2>1, <2>2 DEF CsvInv
<1>5. QED
  BY <1>2, <1>3, <1>4

LEMMA AttemptStep ==
    ASSUME CsvInv, NEW e \in Csv!Epoch,
           \/ Csv!Dies(e) \/ Csv!Download(e) \/ Csv!AssertImportRun(e) \/ Csv!Parse(e)
           \/ Csv!Upsert(e) \/ Csv!CompleteRun(e) \/ Csv!CatchError(e) \/ Csv!Report(e)
    PROVE  CsvInv'
<1> USE ResearchAssumption
<1>1. /\ files \in {"malformed", "rejected", "accepted"} /\ upload \in [Upload -> UploadRow]
      /\ imports \in [Csv!RunId -> RunStatus] /\ job \in JobRow
      /\ work \in [Csv!Epoch -> WorkRow] /\ work[e] \in WorkRow /\ tables \subseteq Csv!Table
      /\ candidate \in {"absent", "Reject", "AI Screening", "further"}
  BY CsvTypes DEF CsvInv
<1>2. UNCHANGED <<files, upload>> /\ work[e].pc # "none"
  BY DEF Csv!Dies, Csv!Download, Csv!AssertImportRun, Csv!Parse, Csv!Upsert,
         Csv!CompleteRun, Csv!CatchError, Csv!Report
<1>3. job.status # "absent"
  BY <1>2 DEF CsvInv
<1>4. {"asserting", "parsing", "reporting", "catching", "failing", "ended"} \subseteq PlainPc
  BY DEF PlainPc, WorkPc
<1>5. ASSUME NEW pc \in {"asserting", "parsing", "reporting", "catching", "failing", "ended"},
             Csv!ToAttempt(e, pc), UNCHANGED <<tables, candidate>>,
             imports' = imports \/ \E s \in RunStatus \ {"completed"} :
                                     imports' = [imports EXCEPT ![job.run] = s],
             job' \in JobRow, job'.run = job.run, job'.status # "absent"
      PROVE  CsvInv'
  <2>1. /\ imports' \in [Csv!RunId -> RunStatus]
        /\ \A q \in Csv!RunId : imports'[q] = "completed" => imports[q] = "completed"
    BY <1>1, <1>5 DEF RunStatus
  <2>2. pc \in PlainPc
    BY <1>4
  <2>3. QED
    BY <1>1, <1>2, <1>3, <1>5, <2>1, <2>2, PlainKeepsCsv
<1>6. CASE Csv!Dies(e) \/ Csv!Download(e)
  <2>1. /\ UNCHANGED <<imports, job, tables, candidate>>
        /\ \E pc \in {"asserting", "failing", "ended"} : Csv!ToAttempt(e, pc)
    BY <1>6 DEF Csv!Dies, Csv!Download
  <2>2. QED
    BY <1>1, <1>3, <1>5, <2>1
<1>7. CASE Csv!AssertImportRun(e)
  <2>1. /\ UNCHANGED <<job, tables, candidate>>
        /\ \/ imports' = [imports EXCEPT ![job.run] = "processing"] /\ Csv!ToAttempt(e, "parsing")
           \/ imports' = imports /\ Csv!ToAttempt(e, "failing")
    BY <1>7 DEF Csv!AssertImportRun
  <2>2. "processing" \in RunStatus \ {"completed"}
    BY DEF RunStatus
  <2>3. QED
    BY <1>1, <1>3, <1>5, <2>1, <2>2
<1>8. CASE Csv!Parse(e)
  <2>1. /\ UNCHANGED <<imports, job, tables, candidate>>
        /\ \/ Csv!ToAttempt(e, "catching")
           \/ work' = [work EXCEPT ![e].pc = "writing", ![e].next = 1]
    BY <1>8 DEF Csv!Parse, Csv!Checkpointed
  <2>2. CASE Csv!ToAttempt(e, "catching")
    BY <1>1, <1>3, <1>5, <2>1, <2>2
  <2>3. CASE work' = [work EXCEPT ![e].pc = "writing", ![e].next = 1]
    <3>1. PICK r \in WorkRow : /\ r = [pc |-> "writing", next |-> 1]
                              /\ r.pc = "writing" /\ r.next = 1
      <4>1. [pc |-> "writing", next |-> 1] \in WorkRow
        BY DEF WorkRow, WorkPc
      <4>2. QED
        BY <4>1
    <3>2. work' = [work EXCEPT ![e] = r]
      <4>1. work' = [work EXCEPT ![e] = [work[e] EXCEPT !.pc = "writing", !.next = 1]]
        BY <1>1, <2>3
      <4>2. [work[e] EXCEPT !.pc = "writing", !.next = 1] = r
        BY <1>1, <3>1 DEF WorkRow
      <4>3. QED
        BY <4>1, <4>2
    <3>3. Written(1) \subseteq tables
      BY FiveTables
    <3>4. /\ r.pc = "writing" => r.next \in 1..5 /\ Written(r.next) \subseteq tables'
          /\ r.pc # "completing"
      BY <2>1, <3>1, <3>3
    <3>5. QED
      BY <1>1, <1>2, <1>3, <2>1, <3>2, <3>4, AttemptKeepsCsv
  <2>4. QED
    BY <2>1, <2>2, <2>3
<1>9. CASE Csv!Upsert(e)
  <2> DEFINE t == Csv!Tables[work[e].next]
  <2>1. /\ work[e].next \in 1..5 /\ Written(work[e].next) \subseteq tables
        /\ t \in Csv!Table /\ UNCHANGED <<imports, job>>
        /\ Written(work[e].next + 1) = Written(work[e].next) \cup {t}
    BY <1>9, FiveTables DEF Csv!Upsert, CsvInv
  <2>2. CASE Csv!ToAttempt(e, "catching") /\ UNCHANGED <<tables, candidate>>
    BY <1>1, <1>3, <1>5, <2>1, <2>2
  <2>3. CASE ~(Csv!ToAttempt(e, "catching") /\ UNCHANGED <<tables, candidate>>)
    <3>1. /\ tables' = tables \cup {t}
          /\ candidate' \in {"absent", "Reject", "AI Screening", "further"}
      BY <1>1, <1>9, <2>3 DEF Csv!Upsert
    <3>2. \/ Csv!ToAttempt(e, "catching")
          \/ work' = [work EXCEPT ![e].next = @ + 1,
                        ![e].pc = IF work[e].next = Csv!LastTable THEN "completing"
                                  ELSE "writing"]
      BY <1>9, <2>3 DEF Csv!Upsert, Csv!Checkpointed
    <3>3. tables \subseteq tables' /\ tables' \subseteq Csv!Table
      BY <1>1, <2>1, <3>1
    <3>4. CASE Csv!ToAttempt(e, "catching")
      <4>1. "catching" \in PlainPc
        BY <1>4
      <4>2. QED
        BY <1>1, <1>2, <1>3, <2>1, <3>1, <3>3, <3>4, <4>1, PlainKeepsCsv
    <3>5. CASE work' = [work EXCEPT ![e].next = @ + 1,
                          ![e].pc = IF work[e].next = Csv!LastTable THEN "completing"
                                    ELSE "writing"]
      <4>1. Csv!LastTable = 5
        BY FiveTables DEF Csv!LastTable
      <4>2. PICK pc \in WorkPc : pc = IF work[e].next = 5 THEN "completing" ELSE "writing"
        BY DEF WorkPc
      <4>3. PICK n \in 1..6 : n = work[e].next + 1
        BY <2>1
      <4>4. PICK r \in WorkRow : r = [pc |-> pc, next |-> n] /\ r.pc = pc /\ r.next = n
        <5>1. [pc |-> pc, next |-> n] \in WorkRow
          BY DEF WorkRow
        <5>2. [pc |-> pc, next |-> n].pc = pc /\ [pc |-> pc, next |-> n].next = n
          OBVIOUS
        <5>3. QED
          BY <5>1, <5>2
      <4>5. work' = [work EXCEPT ![e] = r]
        <5>1. work' = [work EXCEPT ![e].next = n, ![e].pc = pc]
          BY <3>5, <4>1, <4>2, <4>3
        <5>2. work' = [work EXCEPT ![e] = [work[e] EXCEPT !.next = n, !.pc = pc]]
          BY <1>1, <5>1 DEF WorkRow
        <5>3. [work[e] EXCEPT !.next = n, !.pc = pc] = r
          BY <1>1, <4>4 DEF WorkRow
        <5>4. QED
          BY <5>2, <5>3
      <4>6. Written(n) \subseteq tables'
        BY <2>1, <3>1, <4>3
      <4>7. pc = "writing" => n \in 1..5
        BY <2>1, <4>2, <4>3
      <4>8. pc = "completing" => tables' = Csv!Table
        <5>1. SUFFICES ASSUME pc = "completing" PROVE tables' = Csv!Table
          OBVIOUS
        <5>2. n = 6
          BY <2>1, <4>2, <4>3, <5>1
        <5>3. QED
          BY <3>3, <4>6, <5>2, FiveTables
      <4>9. QED
        BY <1>1, <1>2, <1>3, <2>1, <3>1, <3>3, <4>4, <4>5, <4>6, <4>7, <4>8,
           AttemptKeepsCsv
    <3>6. QED
      BY <3>2, <3>4, <3>5
  <2>4. QED
    BY <2>2, <2>3
<1>10. CASE Csv!CompleteRun(e)
  <2>1. UNCHANGED <<job, tables, candidate>> /\ tables = Csv!Table
    BY <1>10 DEF Csv!CompleteRun, CsvInv
  <2>2. PICK pc \in {"reporting", "catching"} : Csv!ToAttempt(e, pc)
    BY <1>10 DEF Csv!CompleteRun, Csv!Checkpointed
  <2>3. imports' = [imports EXCEPT ![job.run] = "completed"] \/ imports' = imports
    BY <1>10 DEF Csv!CompleteRun
  <2>4. /\ imports' \in [Csv!RunId -> RunStatus]
        /\ \A q \in Csv!RunId : imports'[q] = "completed" =>
             imports[q] = "completed" \/ q = job.run
    BY <1>1, <2>3 DEF RunStatus
  <2>5. pc \in PlainPc
    BY <1>4
  <2>6. QED
    BY <1>1, <1>2, <1>3, <2>1, <2>2, <2>4, <2>5, PlainKeepsCsv
<1>11. CASE Csv!CatchError(e)
  <2>1. /\ UNCHANGED <<job, tables, candidate>> /\ Csv!ToAttempt(e, "failing")
        /\ imports' = [imports EXCEPT ![job.run] = "failed"] \/ imports' = imports
    BY <1>11 DEF Csv!CatchError
  <2>2. "failed" \in RunStatus \ {"completed"}
    BY DEF RunStatus
  <2>3. QED
    BY <1>1, <1>3, <1>5, <2>1, <2>2
<1>12. CASE Csv!Report(e)
  <2>1. /\ UNCHANGED <<imports, tables, candidate>> /\ Csv!ToAttempt(e, "ended")
        /\ \/ job' = job
           \/ \E s \in {"completed", "failed", "queued"} :
                job' = [job EXCEPT !.live = FALSE, !.status = s]
    <3>1. PICK s \in {"completed", "failed", "queued"} :
            s = CASE work[e].pc = "reporting" -> "completed"
                  [] e = MaxAttempts -> "failed"
                  [] OTHER -> "queued"
      <4>1. CASE work[e].pc = "reporting"
        BY <1>12, <4>1 DEF Csv!Report
      <4>2. CASE work[e].pc # "reporting"
        BY <4>2
      <4>3. QED
        BY <4>1, <4>2
    <3>2. QED
      BY <1>12, <3>1 DEF Csv!Report
  <2>2. job' \in JobRow /\ job'.run = job.run /\ job'.status # "absent"
    BY <1>1, <1>3, <2>1 DEF JobRow
  <2>3. QED
    BY <1>1, <1>5, <2>1, <2>2
<1>13. QED
  BY <1>6, <1>7, <1>8, <1>9, <1>10, <1>11, <1>12

LEMMA CsvStep ==
    ASSUME CsvInv, [Csv!Next]_csv
    PROVE  CsvInv'
<1>1. CASE Csv!Next
  BY <1>1, UploadStep, QueueStep, AttemptStep DEF Csv!Next
<1>2. CASE UNCHANGED csv
  BY <1>2, CsvTypes, CsvTypesNext DEF csv, CsvInv
<1>3. QED
  BY <1>1, <1>2

-----------------------------------------------------------------------------
(***************************************************************************)
(* Sums                                                                    *)
(*                                                                         *)
(* The sum of a function over a finite set, as the folds of the community  *)
(* modules compute it: there is one, whatever the order of the members,    *)
(* and it is the value here less the sum over the rest.  The argument is   *)
(* by a least set of which this is not so, not by induction.               *)
(***************************************************************************)

FoldStep(f, h, s) == IF s = {} THEN 0 ELSE f[CHOOSE x \in s : TRUE] + h[s \ {CHOOSE x \in s : TRUE}]

\* A sum over all subsets of a finite domain that agrees with its definition is the
\* one that the fold computes.
LEMMA FoldIsSum ==
    ASSUME NEW D, IsFiniteSet(D), NEW f, DOMAIN f = D, NEW g,
           g = [s \in SUBSET D |-> FoldStep(f, g, s)]
    PROVE  Cases!B!FoldFunction(LAMBDA x, y : x + y, 0, f) = g[D]
<1> DEFINE h == CHOOSE k : k = [s \in SUBSET D |-> FoldStep(f, k, s)]
           Differ == {s \in SUBSET D : h[s] # g[s]}
<1>1. Cases!B!FoldFunction(LAMBDA x, y : x + y, 0, f) = h[D]
  BY DEF Cases!B!FoldFunction, Cases!B!FoldFunctionOnSet, Cases!B!MapThenFoldSet, FoldStep
<1>2. h = [s \in SUBSET D |-> FoldStep(f, h, s)]
  OBVIOUS
<1> HIDE DEF h
<1>3. ASSUME Differ # {}
      PROVE  FALSE
  <2>1. IsWellFoundedOn(StrictSubsetOrdering(D), SUBSET D)
    BY FS_StrictSubsetOrderingWellFounded, FS_FiniteSubsetsOfFinite
  <2>2. PICK s \in Differ : \A t \in Differ : ~(<<t, s>> \in StrictSubsetOrdering(D))
    BY <1>3, <2>1, WFMin
  <2>3. h[s] = FoldStep(f, h, s) /\ g[s] = FoldStep(f, g, s)
    BY <1>2
  <2>4. s # {}
    BY <2>3 DEF FoldStep
  <2> DEFINE x == CHOOSE y \in s : TRUE
             t == s \ {x}
  <2>5. x \in s
    BY <2>4
  <2>6. t \in SUBSET D /\ t \subseteq s /\ t # s
    BY <2>5
  <2>7. <<t, s>> \in StrictSubsetOrdering(D)
    BY <2>6 DEF StrictSubsetOrdering
  <2>8. h[t] = g[t]
    BY <2>2, <2>6, <2>7
  <2> QED BY <2>3, <2>4, <2>8 DEF FoldStep
<1> QED BY <1>1, <1>3

\* The sum that the fold of B computes.
SumOf(f) == Cases!B!FoldFunction(LAMBDA x, y : x + y, 0, f)

\* g is the sum of f over each part of D, whatever the order.
SumsOver(D, f, g) ==
    /\ g \in [SUBSET D -> Int] /\ g[{}] = 0
    /\ \A s \in SUBSET D : \A x \in s : g[s] = f[x] + g[s \ {x}]

LEMMA SumIs ==
    ASSUME NEW D, IsFiniteSet(D), NEW f \in [D -> Int], NEW g, SumsOver(D, f, g)
    PROVE  SumOf(f) = g[D]
<1>1. \A s \in SUBSET D : g[s] = FoldStep(f, g, s)
  BY DEF SumsOver, FoldStep
<1>2. g = [s \in SUBSET D |-> FoldStep(f, g, s)]
  BY <1>1 DEF SumsOver
<1> QED BY <1>2, FoldIsSum DEF SumOf

LEMMA SumExists ==
    ASSUME NEW D, IsFiniteSet(D), NEW f \in [D -> Int]
    PROVE  \E g : SumsOver(D, f, g)
<1> DEFINE Without == {s \in SUBSET D : ~ \E g : SumsOver(s, f, g)}
<1>1. ASSUME Without # {}
      PROVE  FALSE
  <2>1. IsWellFoundedOn(StrictSubsetOrdering(D), SUBSET D)
    BY FS_StrictSubsetOrderingWellFounded, FS_FiniteSubsetsOfFinite
  <2>2. PICK s \in Without : \A t \in Without : ~(<<t, s>> \in StrictSubsetOrdering(D))
    BY <1>1, <2>1, WFMin
  <2>3. s # {}
    <3>1. SumsOver({}, f, [t \in SUBSET {} |-> 0])
      BY DEF SumsOver
    <3> QED BY <3>1
  <2>4. PICK x \in s : TRUE
    BY <2>3
  <2>5. s \ {x} \in SUBSET D /\ <<s \ {x}, s>> \in StrictSubsetOrdering(D)
    BY DEF StrictSubsetOrdering
  <2>6. PICK h : SumsOver(s \ {x}, f, h)
    BY <2>2, <2>5
  <2> DEFINE g == [t \in SUBSET s |-> IF x \in t THEN f[x] + h[t \ {x}] ELSE h[t]]
  <2>7. /\ h \in [SUBSET (s \ {x}) -> Int] /\ h[{}] = 0
        /\ \A t \in SUBSET (s \ {x}) : \A y \in t : h[t] = f[y] + h[t \ {y}]
        /\ \A y \in s : f[y] \in Int
    BY <2>6 DEF SumsOver
  <2>8. \A t \in SUBSET s : t \ {x} \in SUBSET (s \ {x}) /\ (x \notin t => t \in SUBSET (s \ {x}))
    OBVIOUS
  <2>9. g \in [SUBSET s -> Int] /\ g[{}] = 0
    BY <2>7, <2>8
  <2>10. ASSUME NEW t \in SUBSET s, NEW y \in t
         PROVE  g[t] = f[y] + g[t \ {y}]
    <3>1. CASE y = x
      <4>1. g[t] = f[x] + h[t \ {x}] /\ g[t \ {x}] = h[t \ {x}]
        BY <3>1
      <4> QED BY <3>1, <4>1
    <3>2. CASE y # x /\ x \in t
      <4>1. t \ {x} \in SUBSET (s \ {x}) /\ y \in t \ {x}
        BY <3>2
      <4>2. h[t \ {x}] = f[y] + h[(t \ {x}) \ {y}]
        BY <2>7, <4>1
      <4>3. (t \ {x}) \ {y} = (t \ {y}) \ {x}
        OBVIOUS
      <4>4. g[t] = f[x] + h[t \ {x}] /\ g[t \ {y}] = f[x] + h[(t \ {y}) \ {x}]
        BY <3>2
      <4>5. f[x] \in Int /\ f[y] \in Int /\ h[(t \ {y}) \ {x}] \in Int
        BY <2>7
      <4>6. g[t] = f[x] + (f[y] + h[(t \ {y}) \ {x}])
        BY <4>2, <4>3, <4>4
      <4> HIDE DEF g
      <4> QED BY <4>4, <4>5, <4>6
    <3>3. CASE x \notin t
      <4>1. t \in SUBSET (s \ {x}) /\ h[t] = f[y] + h[t \ {y}]
        BY <2>7, <2>8, <3>3
      <4>2. g[t] = h[t] /\ g[t \ {y}] = h[t \ {y}]
        BY <3>3
      <4> QED BY <4>1, <4>2
    <3> QED BY <3>1, <3>2, <3>3
  <2>11. SumsOver(s, f, g)
    BY <2>9, <2>10 DEF SumsOver
  <2> QED BY <2>11
<1> QED BY <1>1

\* A sum is one of its parts and the sum of the others.
LEMMA SumRemoves ==
    ASSUME NEW D, IsFiniteSet(D), NEW f \in [D -> Int], NEW x \in D
    PROVE  SumOf(f) = f[x] + SumOf([y \in D \ {x} |-> f[y]]) /\ SumOf(f) \in Int
<1> DEFINE E == D \ {x}
           r == [y \in E |-> f[y]]
<1>1. PICK g : SumsOver(D, f, g)
  BY SumExists
<1> DEFINE h == [s \in SUBSET E |-> g[s]]
<1>2. SumsOver(E, r, h)
  <2>1. h \in [SUBSET E -> Int] /\ h[{}] = 0
    BY <1>1 DEF SumsOver
  <2>2. ASSUME NEW s \in SUBSET E, NEW y \in s
        PROVE  h[s] = r[y] + h[s \ {y}]
    <3>1. s \in SUBSET D /\ g[s] = f[y] + g[s \ {y}]
      BY <1>1 DEF SumsOver
    <3> QED BY <3>1
  <2> QED BY <2>1, <2>2 DEF SumsOver
<1>3. IsFiniteSet(E) /\ r \in [E -> Int]
  BY FS_RemoveElement
<1>4. SumOf(f) = g[D]
  BY <1>1, SumIs
<1>5. SumOf(r) = h[E]
  BY <1>2, <1>3, SumIs
<1>6. g[D] = f[x] + g[E] /\ g[D] \in Int
  BY <1>1 DEF SumsOver
<1> QED BY <1>4, <1>5, <1>6

LEMMA SumEmpty ==
    ASSUME NEW f \in [{} -> Int]
    PROVE  SumOf(f) = 0
<1>1. IsFiniteSet({})
  BY FS_EmptySet
<1>2. PICK g : SumsOver({}, f, g)
  BY <1>1, SumExists
<1>3. SumOf(f) = g[{}]
  BY <1>1, <1>2, SumIs
<1> QED BY <1>2, <1>3 DEF SumsOver

Without(f, x) == [y \in DOMAIN f \ {x} |-> f[y]]

LEMMA SumIsInt ==
    ASSUME NEW D, IsFiniteSet(D), NEW f \in [D -> Int]
    PROVE  SumOf(f) \in Int
<1>1. PICK g : SumsOver(D, f, g)
  BY SumExists
<1>2. SumOf(f) = g[D]
  BY <1>1, SumIs
<1>3. g[D] \in Int
  BY <1>1 DEF SumsOver
<1> QED BY <1>2, <1>3

LEMMA WithoutType ==
    ASSUME NEW D, IsFiniteSet(D), NEW f \in [D -> Int], NEW x \in D
    PROVE  /\ Without(f, x) \in [D \ {x} -> Int] /\ IsFiniteSet(D \ {x})
           /\ \A y \in D \ {x} : Without(f, x)[y] = f[y]
BY FS_RemoveElement DEF Without

LEMMA SumWithout ==
    ASSUME NEW D, IsFiniteSet(D), NEW f \in [D -> Int], NEW x \in D,
           NEW g, g = Without(f, x), NEW m \in Int, m = SumOf(g)
    PROVE  SumOf(f) = f[x] + m
<1> DEFINE r == [y \in D \ {x} |-> f[y]]
<1>1. g = r
  BY DEF Without
<1>2. SumOf(f) = f[x] + SumOf(r)
  BY SumRemoves
<1>3. SumOf(r) = m
  BY <1>1
<1> HIDE DEF r
<1> QED BY <1>2, <1>3

\* f has the values k, l and m, in three places.
Three(f, a, b, c, k, l, m) ==
    /\ a # b /\ a # c /\ b # c /\ f \in [{a, b, c} -> Int]
    /\ k \in Int /\ l \in Int /\ m \in Int /\ f[a] = k /\ f[b] = l /\ f[c] = m

LEMMA SumOfThree ==
    ASSUME NEW f, NEW a, NEW b, NEW c, NEW k1, NEW k2, NEW k3, Three(f, a, b, c, k1, k2, k3)
    PROVE  SumOf(f) = k1 + k2 + k3
<1> USE DEF Three
<1> DEFINE D == {a, b, c}
           E == D \ {a}
           F == E \ {b}
           G == F \ {c}
           g == Without(f, a)
           h == Without(g, b)
           k == Without(h, c)
<1>1. IsFiniteSet(D)
  <2>1. IsFiniteSet((({} \cup {a}) \cup {b}) \cup {c})
    BY FS_EmptySet, FS_AddElement
  <2>2. D = (({} \cup {a}) \cup {b}) \cup {c}
    OBVIOUS
  <2> QED BY <2>1, <2>2
<1>2. a \in D /\ b \in E /\ c \in F /\ c \in E /\ G = {}
  OBVIOUS
<1>3. f \in [D -> Int] /\ f[a] \in Int /\ f[b] \in Int /\ f[c] \in Int
  OBVIOUS
<1> HIDE DEF D, E, F, G, g, h, k
<1>4. g \in [E -> Int] /\ IsFiniteSet(E) /\ g[b] = f[b] /\ g[c] = f[c]
  BY <1>1, <1>2, <1>3, WithoutType DEF E, g
<1>5. h \in [F -> Int] /\ IsFiniteSet(F) /\ h[c] = g[c]
  <2>1. h \in [F -> Int] /\ IsFiniteSet(F) /\ \A y \in F : h[y] = g[y]
    BY <1>2, <1>4, WithoutType DEF F, h
  <2> QED BY <1>2, <2>1
<1>6. k \in [G -> Int]
  BY <1>2, <1>5, WithoutType DEF G, k
<1>7. SumOf(k) = 0
  BY <1>2, <1>6, SumEmpty
<1>8. SumOf(g) \in Int /\ SumOf(h) \in Int
  BY <1>4, <1>5, SumIsInt
<1>9. SumOf(h) = h[c] + 0
  BY <1>2, <1>5, <1>7, SumWithout DEF k
<1>10. SumOf(g) = g[b] + SumOf(h)
  BY <1>2, <1>4, <1>8, SumWithout DEF h
<1>11. SumOf(f) = f[a] + SumOf(g)
  BY <1>1, <1>2, <1>3, <1>8, SumWithout DEF g
<1> QED BY <1>3, <1>4, <1>5, <1>9, <1>10, <1>11

\* f has the values k, l, m and n, in four places.
Four(f, a, b, c, d, k, l, m, n) ==
    /\ a # b /\ a # c /\ b # c /\ d # a /\ d # b /\ d # c /\ f \in [{a, b, c, d} -> Int]
    /\ k \in Int /\ l \in Int /\ m \in Int /\ n \in Int
    /\ f[a] = k /\ f[b] = l /\ f[c] = m /\ f[d] = n

LEMMA SumOfFour ==
    ASSUME NEW f, NEW a, NEW b, NEW c, NEW d, NEW k1, NEW k2, NEW k3, NEW k4,
           Four(f, a, b, c, d, k1, k2, k3, k4)
    PROVE  SumOf(f) = k1 + k2 + k3 + k4
<1> DEFINE D == {a, b, c, d}
           E == D \ {d}
           g == Without(f, d)
<1>1. IsFiniteSet(D)
  <2>1. IsFiniteSet(((({} \cup {a}) \cup {b}) \cup {c}) \cup {d})
    BY FS_EmptySet, FS_AddElement
  <2>2. D = ((({} \cup {a}) \cup {b}) \cup {c}) \cup {d}
    OBVIOUS
  <2> QED BY <2>1, <2>2
<1>2. d \in D /\ E = {a, b, c} /\ f \in [D -> Int]
  BY DEF Four
<1> HIDE DEF D, E, g
<1>3. g \in [E -> Int] /\ \A y \in E : g[y] = f[y]
  BY <1>2 DEF E, g, Without
<1>4. Three(g, a, b, c, k1, k2, k3)
  BY <1>2, <1>3 DEF Three, Four
<1>5. SumOf(g) = k1 + k2 + k3
  BY <1>4, SumOfThree
<1>6. k1 + k2 + k3 \in Int /\ k4 \in Int /\ f[d] = k4 /\ k1 \in Int /\ k2 \in Int /\ k3 \in Int
  BY DEF Four
<1>7. SumOf(f) = f[d] + (k1 + k2 + k3)
  BY <1>1, <1>2, <1>5, <1>6, SumWithout DEF g
<1> QED BY <1>6, <1>7

-----------------------------------------------------------------------------
(***************************************************************************)
(* Business evidence                                                       *)
(*                                                                         *)
(* What a candidate's business evidence leads to, whatever the amounts     *)
(* and the settings.                                                       *)
(***************************************************************************)

Amount == Nat \cup {-1}

QuoteType == [basis : {"none", "estimate", "quote"}, quantity : Nat, minimum : Nat,
              unit : Amount, total : Amount, terms : SUBSET Cases!B!Terms,
              coverage : SUBSET Cases!B!Coverage, expires : Amount]
Purposes == {"probe"} \cup Cases!N!Endpoint
EvidenceType ==
    [disposition : Cases!B!Disposition, brand : Cases!B!Check, market : Cases!B!Check,
     sample : Cases!B!Check, safety : Cases!B!Check, price : Amount,
     fees : [referral : Amount, fulfillment : Amount, other : Amount],
     launch : [upfront : Amount, advertising : Amount, reserve : Amount],
     ad : Amount, return : Amount, purposes : SUBSET Purposes, quote : QuoteType]
SettingsType == [budget : Nat, preAd : Nat, postAd : Nat, roi : Nat]

FeesKnown(e) == e.fees.referral # -1 /\ e.fees.fulfillment # -1 /\ e.fees.other # -1
FeesTotal(e) == e.fees.referral + e.fees.fulfillment + e.fees.other

LaunchKnown(e) == /\ e.quote.unit # -1 /\ e.launch.upfront # -1
                  /\ e.launch.advertising # -1 /\ e.launch.reserve # -1
LaunchTotal(e) == e.quote.quantity * e.quote.unit + e.launch.upfront
                  + e.launch.advertising + e.launch.reserve

VariableKnown(e) == FeesKnown(e) /\ e.quote.unit # -1 /\ e.ad # -1 /\ e.return # -1
VariableTotal(e) == FeesTotal(e) + e.quote.unit + e.ad + e.return

LEMMA EvidenceShape ==
    ASSUME NEW e \in EvidenceType
    PROVE  /\ e.fees.referral \in Amount /\ e.fees.fulfillment \in Amount
           /\ e.fees.other \in Amount /\ e.launch.upfront \in Amount
           /\ e.launch.advertising \in Amount /\ e.launch.reserve \in Amount
           /\ e.ad \in Amount /\ e.return \in Amount /\ e.price \in Amount
           /\ e.quote \in QuoteType
           /\ e.quote.unit \in Amount /\ e.quote.quantity \in Nat
           /\ e.quote.total \in Amount /\ e.quote.expires \in Amount
           /\ e.quote.terms \subseteq Cases!B!Terms /\ e.quote.coverage \subseteq Cases!B!Coverage
           /\ e.disposition \in Cases!B!Disposition
           /\ e.brand \in Cases!B!Check /\ e.market \in Cases!B!Check
           /\ e.sample \in Cases!B!Check /\ e.safety \in Cases!B!Check
BY DEF EvidenceType, QuoteType

LEMMA FeesSum ==
    ASSUME NEW e \in EvidenceType
    PROVE  Cases!B!SumKnown(Cases!B!Fees(e)) = IF FeesKnown(e) THEN FeesTotal(e) ELSE -1
<1> DEFINE f == Cases!B!Fees(e)
<1>1. /\ DOMAIN f = {"referral", "fulfillment", "other"}
      /\ f["referral"] = e.fees.referral /\ f["fulfillment"] = e.fees.fulfillment
      /\ f["other"] = e.fees.other
      /\ f = [c \in {"referral", "fulfillment", "other"} |-> f[c]]
  BY DEF Cases!B!Fees
<1> HIDE DEF f
<1>2. CASE FeesKnown(e)
  <2>1. e.fees.referral \in Int /\ e.fees.fulfillment \in Int /\ e.fees.other \in Int
    BY <1>2, EvidenceShape DEF Amount, FeesKnown
  <2>2. f \in [{"referral", "fulfillment", "other"} -> Int]
    BY <1>1, <2>1
  <2>6. Three(f, "referral", "fulfillment", "other", e.fees.referral, e.fees.fulfillment,
              e.fees.other)
    BY <1>1, <2>1, <2>2 DEF Three
  <2>3. SumOf(f) = FeesTotal(e)
    BY <2>6, SumOfThree DEF FeesTotal
  <2>4. \A c \in DOMAIN f : f[c] # -1
    BY <1>1, <1>2 DEF FeesKnown
  <2>5. Cases!B!SumKnown(f) = SumOf(f)
    BY <2>4 DEF Cases!B!SumKnown, Cases!B!Unknown, SumOf
  <2> QED BY <1>2, <2>3, <2>5 DEF f
<1>3. CASE ~FeesKnown(e)
  <2>1. \E c \in DOMAIN f : f[c] = -1
    BY <1>1, <1>3 DEF FeesKnown
  <2>2. Cases!B!SumKnown(f) = -1
    BY <2>1 DEF Cases!B!SumKnown, Cases!B!Unknown
  <2> QED BY <1>3, <2>2 DEF f
<1> QED BY <1>2, <1>3


LEMMA LaunchSum ==
    ASSUME NEW e \in EvidenceType
    PROVE  Cases!B!Cash(e) = IF LaunchKnown(e) THEN LaunchTotal(e) ELSE -1
<1> DEFINE f == Cases!B!LaunchCosts(e)
           o == IF e.quote.unit = -1 THEN -1 ELSE e.quote.quantity * e.quote.unit
<1>1. /\ DOMAIN f = {"order", "upfront", "advertising", "reserve"}
      /\ f["order"] = o /\ f["upfront"] = e.launch.upfront
      /\ f["advertising"] = e.launch.advertising /\ f["reserve"] = e.launch.reserve
      /\ f = [c \in {"order", "upfront", "advertising", "reserve"} |-> f[c]]
  BY DEF Cases!B!LaunchCosts, Cases!B!Unknown
<1>2. Cases!B!Cash(e) = Cases!B!SumKnown(f)
  BY DEF Cases!B!Cash
<1>3. e.quote.unit # -1 => o \in Nat /\ o # -1 /\ o = e.quote.quantity * e.quote.unit
  BY EvidenceShape DEF Amount
<1>4. e.quote.unit = -1 => o = -1
  OBVIOUS
<1> HIDE DEF f, o
<1>5. CASE LaunchKnown(e)
  <2>1. /\ o \in Int /\ e.launch.upfront \in Int
        /\ e.launch.advertising \in Int /\ e.launch.reserve \in Int
    BY <1>3, <1>5, EvidenceShape DEF Amount, LaunchKnown
  <2>2. f \in [{"order", "upfront", "advertising", "reserve"} -> Int]
    BY <1>1, <2>1
  <2>3. Four(f, "order", "upfront", "advertising", "reserve", o, e.launch.upfront,
             e.launch.advertising, e.launch.reserve)
    BY <1>1, <2>1, <2>2 DEF Four
  <2>4. SumOf(f) = o + e.launch.upfront + e.launch.advertising + e.launch.reserve
    BY <2>3, SumOfFour
  <2>5. \A c \in DOMAIN f : f[c] # -1
    BY <1>1, <1>3, <1>5 DEF LaunchKnown
  <2>6. Cases!B!SumKnown(f) = SumOf(f)
    BY <2>5 DEF Cases!B!SumKnown, Cases!B!Unknown, SumOf
  <2>7. o = e.quote.quantity * e.quote.unit
    BY <1>3, <1>5 DEF LaunchKnown
  <2> QED BY <1>2, <1>5, <2>4, <2>6, <2>7 DEF LaunchTotal
<1>6. CASE ~LaunchKnown(e)
  <2>1. \E c \in DOMAIN f : f[c] = -1
    BY <1>1, <1>4, <1>6 DEF LaunchKnown
  <2>2. Cases!B!SumKnown(f) = -1
    BY <2>1 DEF Cases!B!SumKnown, Cases!B!Unknown
  <2> QED BY <1>2, <1>6, <2>2
<1> QED BY <1>5, <1>6

LEMMA VariableSum ==
    ASSUME NEW e \in EvidenceType
    PROVE  Cases!B!SumKnown(Cases!B!VariableCosts(e)) =
             IF VariableKnown(e) THEN VariableTotal(e) ELSE -1
<1> DEFINE f == Cases!B!VariableCosts(e)
           Six == {"referral", "fulfillment", "other", "unit", "ad", "return"}
           Five == Six \ {"return"}
           g == Without(f, "return")
           h == Without(g, "ad")
<1>1. /\ DOMAIN f = Six
      /\ f["referral"] = e.fees.referral /\ f["fulfillment"] = e.fees.fulfillment
      /\ f["other"] = e.fees.other /\ f["unit"] = e.quote.unit
      /\ f["ad"] = e.ad /\ f["return"] = e.return
      /\ f = [c \in Six |-> f[c]]
  BY DEF Cases!B!VariableCosts
<1> HIDE DEF f
<1>2. CASE VariableKnown(e)
  <2>1. /\ e.fees.referral \in Int /\ e.fees.fulfillment \in Int /\ e.fees.other \in Int
        /\ e.quote.unit \in Int /\ e.ad \in Int /\ e.return \in Int
    BY <1>2, EvidenceShape DEF Amount, VariableKnown, FeesKnown
  <2>2. f \in [Six -> Int]
    BY <1>1, <2>1
  <2>3. g \in [Five -> Int] /\ \A c \in Five : g[c] = f[c]
    BY <2>2 DEF Without
  <2> HIDE DEF g
  <2>4. h \in [Five \ {"ad"} -> Int] /\ \A c \in Five \ {"ad"} : h[c] = g[c]
    BY <2>3 DEF Without
  <2> HIDE DEF h
  <2>5. Five \ {"ad"} = {"referral", "fulfillment", "other", "unit"}
    OBVIOUS
  <2>6. Four(h, "referral", "fulfillment", "other", "unit", e.fees.referral,
             e.fees.fulfillment, e.fees.other, e.quote.unit)
    BY <1>1, <2>1, <2>3, <2>4, <2>5 DEF Four
  <2>7. SumOf(h) = FeesTotal(e) + e.quote.unit
    BY <2>6, SumOfFour DEF FeesTotal
  <2>8. IsFiniteSet(Six) /\ IsFiniteSet(Five)
    <3>1. IsFiniteSet((((({} \cup {"referral"}) \cup {"fulfillment"}) \cup {"other"})
                          \cup {"unit"}) \cup {"ad"})
      BY FS_EmptySet, FS_AddElement
    <3>2. Five = (((({} \cup {"referral"}) \cup {"fulfillment"}) \cup {"other"})
                          \cup {"unit"}) \cup {"ad"}
      OBVIOUS
    <3>3. Six = Five \cup {"return"}
      OBVIOUS
    <3> HIDE DEF Five, Six
    <3> QED BY <3>1, <3>2, <3>3, FS_AddElement
  <2>9. FeesTotal(e) + e.quote.unit \in Int
    BY <2>1 DEF FeesTotal
  <2>10. "ad" \in Five /\ "return" \in Six
    OBVIOUS
  <2> HIDE DEF Five, Six
  <2>11. SumOf(g) = g["ad"] + (FeesTotal(e) + e.quote.unit)
    BY <2>3, <2>7, <2>8, <2>9, <2>10, SumWithout DEF h
  <2>12. g["ad"] = e.ad
    BY <1>1, <2>3, <2>10
  <2>13. SumOf(g) = FeesTotal(e) + e.quote.unit + e.ad /\ SumOf(g) \in Int
    BY <2>1, <2>9, <2>11, <2>12
  <2>14. SumOf(f) = f["return"] + SumOf(g)
    BY <2>2, <2>8, <2>10, <2>13, SumWithout DEF g
  <2>15. SumOf(f) = VariableTotal(e)
    BY <1>1, <2>1, <2>9, <2>13, <2>14 DEF VariableTotal
  <2>16. \A c \in DOMAIN f : f[c] # -1
    BY <1>1, <1>2 DEF VariableKnown, FeesKnown, Six
  <2>17. Cases!B!SumKnown(f) = SumOf(f)
    BY <2>16 DEF Cases!B!SumKnown, Cases!B!Unknown, SumOf
  <2> QED BY <1>2, <2>15, <2>17 DEF f
<1>3. CASE ~VariableKnown(e)
  <2>1. \E c \in DOMAIN f : f[c] = -1
    BY <1>1, <1>3 DEF VariableKnown, FeesKnown
  <2>2. Cases!B!SumKnown(f) = -1
    BY <2>1 DEF Cases!B!SumKnown, Cases!B!Unknown
  <2> QED BY <1>3, <2>2 DEF f
<1> QED BY <1>2, <1>3

Margin(e) == e.price - VariableTotal(e)
CostsKnown(e) == e.price # -1 /\ VariableKnown(e)
\* The margins before and after advertising and the return, as the settings ask.
MeetsTargets(e, s) ==
    /\ e.price > 0 /\ e.quote.unit > 0
    /\ 100 * (Margin(e) + e.ad) >= s.preAd * e.price
    /\ 100 * Margin(e) >= s.postAd * e.price
    /\ 100 * Margin(e) >= s.roi * e.quote.unit

LEMMA Totals ==
    ASSUME NEW e \in EvidenceType
    PROVE  /\ VariableKnown(e) => VariableTotal(e) \in Nat
           /\ LaunchKnown(e) => LaunchTotal(e) \in Nat
<1>1. ASSUME VariableKnown(e)
      PROVE  VariableTotal(e) \in Nat
  <2>1. /\ e.fees.referral \in Nat /\ e.fees.fulfillment \in Nat /\ e.fees.other \in Nat
        /\ e.quote.unit \in Nat /\ e.ad \in Nat /\ e.return \in Nat
    BY <1>1, EvidenceShape DEF Amount, VariableKnown, FeesKnown
  <2> QED BY <2>1 DEF VariableTotal, FeesTotal
<1>2. ASSUME LaunchKnown(e)
      PROVE  LaunchTotal(e) \in Nat
  <2>1. /\ e.quote.quantity \in Nat /\ e.quote.unit \in Nat /\ e.launch.upfront \in Nat
        /\ e.launch.advertising \in Nat /\ e.launch.reserve \in Nat
    BY <1>2, EvidenceShape DEF Amount, LaunchKnown
  <2>2. e.quote.quantity * e.quote.unit \in Nat
    BY <2>1
  <2> QED BY <2>1, <2>2 DEF LaunchTotal
<1> QED BY <1>1, <1>2

LEMMA ContributionIs ==
    ASSUME NEW e \in EvidenceType
    PROVE  /\ Cases!B!ContributionKnown(e) <=> CostsKnown(e)
           /\ CostsKnown(e) => Cases!B!Contribution(e) = Margin(e)
<1>1. VariableKnown(e) => VariableTotal(e) # -1
  BY Totals
<1> QED BY <1>1, VariableSum
        DEF Cases!B!ContributionKnown, Cases!B!Contribution, CostsKnown, Margin, Cases!B!Unknown

LEMMA TargetsAre ==
    ASSUME NEW e \in EvidenceType, NEW s \in SettingsType
    PROVE  Cases!B!TargetsPass(e, s) <=> CostsKnown(e) /\ MeetsTargets(e, s)
BY ContributionIs DEF Cases!B!TargetsPass, MeetsTargets

LEMMA BudgetIs ==
    ASSUME NEW e \in EvidenceType, NEW s \in SettingsType
    PROVE  /\ Cases!B!Cash(e) = -1 <=> ~LaunchKnown(e)
           /\ LaunchKnown(e) => Cases!B!Cash(e) = LaunchTotal(e)
           /\ Cases!B!OverBudget(e, s) <=> LaunchKnown(e) /\ LaunchTotal(e) > s.budget
<1>1. LaunchKnown(e) => LaunchTotal(e) # -1
  BY Totals
<1> QED BY <1>1, LaunchSum DEF Cases!B!OverBudget, Cases!B!Unknown

LEMMA AffordableIs ==
    ASSUME NEW e \in EvidenceType, NEW s \in SettingsType
    PROVE  Cases!B!Affordable(e, s) <=>
             /\ e.quote # Cases!B!NoQuote /\ LaunchKnown(e) /\ LaunchTotal(e) <= s.budget
             /\ CostsKnown(e) /\ MeetsTargets(e, s)
BY BudgetIs, TargetsAre DEF Cases!B!Affordable, Cases!B!Unknown, LaunchKnown

\* A purchase is looked at only with nothing missing, whatever the evidence and the
\* settings: it is still researched, all checks passed, every cost known, margins and
\* return meet the targets with them, the cash that a launch takes is within the
\* budget, and a supplier's quote stands (assessResearchBusiness).
THEOREM ReviewMissesNothing ==
    ASSUME NEW e \in EvidenceType, NEW s \in SettingsType, NEW now \in Nat,
           Cases!B!QuoteAccepted(e.quote), Cases!B!Stage(e, s, now) = "purchase_review"
    PROVE  /\ Cases!B!Gaps(e, s, now) = {}
           /\ e.disposition = "research"
           /\ {e.brand, e.market, e.sample, e.safety} = {"pass"}
           /\ CostsKnown(e) /\ MeetsTargets(e, s)
           /\ LaunchKnown(e) /\ LaunchTotal(e) <= s.budget
           /\ e.quote.basis = "quote" /\ e.quote.expires > now
<1>1. /\ e.disposition # "rejected" /\ e.brand = "pass" /\ e.price # -1
      /\ e.market = "pass" /\ Cases!B!Affordable(e, s)
      /\ e.disposition # "awaiting_quote" /\ e.quote.basis # "estimate"
      /\ Cases!B!Firm(e, now) /\ e.sample = "pass" /\ e.disposition # "awaiting_sample"
  BY DEF Cases!B!Stage, Cases!B!Unknown
<1>2. /\ e.quote # Cases!B!NoQuote /\ LaunchKnown(e) /\ LaunchTotal(e) <= s.budget
      /\ CostsKnown(e) /\ MeetsTargets(e, s)
  BY <1>1, AffordableIs
<1>3. e.disposition = "research"
  BY <1>1, EvidenceShape DEF Cases!B!Disposition
<1>4. e.quote.basis = "quote"
  BY <1>1, <1>2 DEF Cases!B!QuoteAccepted
<1>5. /\ e.quote.terms = Cases!B!Terms /\ e.quote.total # -1
      /\ e.quote.coverage = {"included"} /\ e.quote.expires # -1
      /\ ~Cases!B!Expired(e, now) /\ e.safety = "pass"
  BY <1>1 DEF Cases!B!Firm, Cases!B!Unknown
<1>6. e.quote.expires > now
  BY <1>5, EvidenceShape DEF Cases!B!Expired, Cases!B!Unknown, Amount
<1>7. Cases!B!QuoteGaps(e, now) = {}
  BY <1>1, <1>5 DEF Cases!B!QuoteGaps, Cases!B!Unknown
<1>8. Cases!B!SumKnown(Cases!B!Fees(e)) # -1
  <2>1. FeesKnown(e)
    BY <1>2 DEF CostsKnown, VariableKnown
  <2>2. FeesTotal(e) # -1
    <3>1. e.fees.referral \in Nat /\ e.fees.fulfillment \in Nat /\ e.fees.other \in Nat
      BY <2>1, EvidenceShape DEF FeesKnown, Amount
    <3> QED BY <3>1 DEF FeesTotal
  <2> QED BY <2>1, <2>2, FeesSum
<1>9. /\ e.quote.unit # -1 /\ Cases!B!Cash(e) # -1 /\ ~Cases!B!OverBudget(e, s)
      /\ Cases!B!ContributionKnown(e) /\ Cases!B!TargetsPass(e, s)
  <2>1. LaunchTotal(e) \in Nat /\ s.budget \in Nat
    BY <1>2, Totals DEF SettingsType
  <2> QED BY <1>2, <2>1, BudgetIs, ContributionIs, TargetsAre DEF LaunchKnown
<1>10. Cases!B!BasicGaps(e, s) = {}
  BY <1>1, <1>2, <1>8, <1>9 DEF Cases!B!BasicGaps, Cases!B!Unknown
<1>11. Cases!B!Gaps(e, s, now) = {}
  BY <1>7, <1>10 DEF Cases!B!Gaps
<1> QED BY <1>1, <1>2, <1>3, <1>4, <1>5, <1>6, <1>11

\* And the other way round: a candidate that is researched, has a supplier's quote and
\* misses nothing is looked at for purchase, so nothing is held back without a reason
\* that is shown (assessResearchBusiness).
THEOREM NothingMissingIsReviewed ==
    ASSUME NEW e \in EvidenceType, NEW s \in SettingsType, NEW now \in Nat,
           e.disposition = "research", e.quote.basis = "quote",
           Cases!B!Gaps(e, s, now) = {}
    PROVE  Cases!B!Stage(e, s, now) = "purchase_review"
<1>1. /\ Cases!B!BasicGaps(e, s) = {}
      /\ Cases!B!QuoteIsLookedAt(e, s) => Cases!B!QuoteGaps(e, now) = {}
  BY DEF Cases!B!Gaps
<1>2. /\ e.brand = "pass" /\ e.price # -1 /\ e.market = "pass"
      /\ e.quote # Cases!B!NoQuote /\ e.quote.unit # -1 /\ Cases!B!Cash(e) # -1
      /\ ~Cases!B!OverBudget(e, s) /\ Cases!B!TargetsPass(e, s)
  <2> DEFINE G == {"brand_fit", "sale_price", "amazon_unit_costs", "market_check",
                   "selected_quote", "landed_unit_cost", "launch_cash",
                   "launch_cash_exceeds_budget", "unit_contribution",
                   "profitability_targets_not_met"}
             P(g) == CASE g = "brand_fit" -> e.brand # "pass"
                       [] g = "sale_price" -> e.price = Cases!B!Unknown
                       [] g = "amazon_unit_costs" -> Cases!B!SumKnown(Cases!B!Fees(e)) = Cases!B!Unknown
                       [] g = "market_check" -> e.market # "pass"
                       [] g = "selected_quote" -> e.quote = Cases!B!NoQuote
                       [] g = "landed_unit_cost" -> e.quote.unit = Cases!B!Unknown
                       [] g = "launch_cash" -> Cases!B!Cash(e) = Cases!B!Unknown
                       [] g = "launch_cash_exceeds_budget" -> Cases!B!OverBudget(e, s)
                       [] g = "unit_contribution" -> ~Cases!B!ContributionKnown(e)
                       [] g = "profitability_targets_not_met" -> ~Cases!B!TargetsPass(e, s)
  <2>1. \A g \in G : ~P(g)
    BY <1>1 DEF Cases!B!BasicGaps
  <2>2. ~P("brand_fit") /\ ~P("sale_price") /\ ~P("market_check") /\ ~P("selected_quote")
        /\ ~P("landed_unit_cost") /\ ~P("launch_cash") /\ ~P("launch_cash_exceeds_budget")
        /\ ~P("profitability_targets_not_met")
    BY <2>1
  <2> QED BY <2>2 DEF Cases!B!Unknown
<1>3. Cases!B!Affordable(e, s)
  <2>1. LaunchKnown(e) /\ ~(LaunchTotal(e) > s.budget) /\ Cases!B!Cash(e) = LaunchTotal(e)
    BY <1>2, BudgetIs
  <2>2. LaunchTotal(e) \in Nat /\ s.budget \in Nat
    BY <2>1, Totals DEF SettingsType
  <2> QED BY <1>2, <2>1, <2>2 DEF Cases!B!Affordable, Cases!B!Unknown
<1>4. Cases!B!QuoteGaps(e, now) = {}
  BY <1>1, <1>2, <1>3 DEF Cases!B!QuoteIsLookedAt, Cases!B!Unknown
<1>5. Cases!B!Firm(e, now) /\ e.sample = "pass"
  <2>1. /\ Cases!B!Terms \ e.quote.terms = {} /\ e.quote.total # -1
        /\ e.quote.coverage = {"included"} /\ e.quote.expires # -1
        /\ ~Cases!B!Expired(e, now) /\ e.sample = "pass" /\ e.safety = "pass"
    BY <1>4 DEF Cases!B!QuoteGaps, Cases!B!Unknown
  <2>2. e.quote.terms = Cases!B!Terms
    BY <2>1, EvidenceShape
  <2> QED BY <2>1, <2>2 DEF Cases!B!Firm, Cases!B!Unknown
<1> QED BY <1>2, <1>3, <1>5 DEF Cases!B!Stage, Cases!B!Unknown

\* What is paid for may help: an admitted request is one that the evidence asks for, of
\* a candidate that is still researched, misses something, is not known to cost more
\* than the budget to launch, and is not known to miss the targets
\* (assessResearchApiAdmission).
THEOREM PaidForWhatMayHelp ==
    ASSUME NEW e \in EvidenceType, NEW s \in SettingsType, NEW now \in Nat, NEW endpoint,
           Cases!B!Admitted(e, s, now, endpoint)
    PROVE  /\ endpoint \in e.purposes /\ e.disposition = "research"
           /\ Cases!B!Gaps(e, s, now) # {}
           /\ LaunchKnown(e) => LaunchTotal(e) <= s.budget
           /\ (CostsKnown(e) /\ e.quote # Cases!B!NoQuote) => MeetsTargets(e, s)
<1>1. /\ endpoint \in e.purposes /\ e.disposition = "research"
      /\ Cases!B!Stage(e, s, now) \in {"basic_check", "market_validation"}
      /\ ~Cases!B!OverBudget(e, s) /\ ~Cases!B!KnownFailure(e, s)
  BY DEF Cases!B!Admitted, Cases!B!Actionable
<1>2. e.brand # "pass" \/ e.price = -1 \/ e.market # "pass"
  BY <1>1 DEF Cases!B!Stage, Cases!B!Unknown
<1>3. Cases!B!BasicGaps(e, s) # {}
  <2>1. CASE e.brand # "pass"
    <3>1. "brand_fit" \in Cases!B!BasicGaps(e, s)
      BY <2>1 DEF Cases!B!BasicGaps
    <3> QED BY <3>1
  <2>2. CASE e.price = -1
    <3>1. "sale_price" \in Cases!B!BasicGaps(e, s)
      BY <2>2 DEF Cases!B!BasicGaps, Cases!B!Unknown
    <3> QED BY <3>1
  <2>3. CASE e.market # "pass"
    <3>1. "market_check" \in Cases!B!BasicGaps(e, s)
      BY <2>3 DEF Cases!B!BasicGaps
    <3> QED BY <3>1
  <2> QED BY <1>2, <2>1, <2>2, <2>3
<1>4. Cases!B!Gaps(e, s, now) # {}
  BY <1>1, <1>3 DEF Cases!B!Gaps
<1>5. LaunchKnown(e) => LaunchTotal(e) <= s.budget
  <2>1. LaunchKnown(e) => LaunchTotal(e) \in Nat /\ s.budget \in Nat
    BY Totals DEF SettingsType
  <2> QED BY <1>1, <2>1, BudgetIs
<1>6. (CostsKnown(e) /\ e.quote # Cases!B!NoQuote) => MeetsTargets(e, s)
  BY <1>1, ContributionIs, TargetsAre DEF Cases!B!KnownFailure
<1> QED BY <1>1, <1>4, <1>5, <1>6

-----------------------------------------------------------------------------
(***************************************************************************)
(* Questions and answers                                                   *)
(*                                                                         *)
(* What is asked about is one of the questions, and the answer is to it.   *)
(***************************************************************************)

\* A question is one of its kind, and the answer is to it.
CasesInv ==
    /\ question \in Cases!Questions \cup {Cases!Unanswered}
    /\ Cases!Asked("row") =>
         question \in Cases!ScoreQuestions /\ answer = Cases!RowAnswer(question)
    /\ Cases!Asked("business") =>
         question \in Cases!BusinessQuestions /\ answer = Cases!BusinessAnswer(question)
    /\ Cases!Asked("needs") =>
         question \in Cases!NeedQuestions /\ answer = Cases!NeedAnswer(question)
    /\ Cases!Asked("route") =>
         question \in Cases!RouteQuestions /\ answer = Cases!RouteAnswer(question)

LEMMA CasesInit ==
    ASSUME Asking
    PROVE  CasesInv
BY DEF Asking, Cases!Init, CasesInv, Cases!Asked, Cases!Unanswered

\* The kind of a question says in which set of questions it is.
LEMMA KindOfQuestion ==
    ASSUME NEW q \in Cases!Questions
    PROVE  /\ q.kind = "row" => q \in Cases!ScoreQuestions
           /\ q.kind = "business" => q \in Cases!BusinessQuestions
           /\ q.kind = "needs" => q \in Cases!NeedQuestions
           /\ q.kind = "route" => q \in Cases!RouteQuestions
<1>1. \A p \in Cases!FileQuestions : p.kind = "files"
  BY DEF Cases!FileQuestions
<1>2. \A p \in Cases!ScoreQuestions : p.kind = "row"
  BY DEF Cases!ScoreQuestions
<1>3. \A p \in Cases!PlanQuestions : p.kind = "plan"
  BY DEF Cases!PlanQuestions
<1>4. \A p \in Cases!NeedQuestions : p.kind = "needs"
  BY DEF Cases!NeedQuestions
<1>5. \A p \in Cases!RouteQuestions : p.kind = "route"
  BY DEF Cases!RouteQuestions
<1>6. \A p \in Cases!MarketQuestions : p.kind = "market"
  BY DEF Cases!MarketQuestions
<1>7. \A p \in Cases!SeriesQuestions : p.kind = "series"
  BY DEF Cases!SeriesQuestions
<1>8. \A p \in Cases!BusinessQuestions : p.kind = "business"
  BY DEF Cases!BusinessQuestions
<1> QED BY <1>1, <1>2, <1>3, <1>4, <1>5, <1>6, <1>7, <1>8 DEF Cases!Questions

LEMMA CasesStep ==
    ASSUME CasesInv, [Cases!Next]_cases
    PROVE  CasesInv'
<1>1. CASE UNCHANGED cases
  BY <1>1 DEF cases, CasesInv, Cases!Asked
<1>2. ASSUME NEW new, Cases!Answer(new), new.kind \notin {"row", "business", "needs", "route"}
      PROVE  CasesInv'
  BY <1>2 DEF Cases!Answer, CasesInv, Cases!Asked
<1>3. CASE question.kind = "files" /\ Cases!Answer(Cases!RowsAnswer(question))
  <2>1. Cases!RowsAnswer(question).kind = "files"
    BY DEF Cases!RowsAnswer
  <2> QED BY <1>2, <1>3, <2>1
<1>5. CASE question.kind = "plan"
           /\ \E new \in Cases!PlanAnswers(question) : Cases!Answer(new)
  <2>1. \A new \in Cases!PlanAnswers(question) : new.kind = "plan"
    BY DEF Cases!PlanAnswers
  <2> QED BY <1>2, <1>5, <2>1
<1>6. CASE question.kind = "market" /\ Cases!Answer(Cases!MarketAnswer(question))
  <2>1. Cases!MarketAnswer(question).kind = "market"
    BY DEF Cases!MarketAnswer
  <2> QED BY <1>2, <1>6, <2>1
<1>7. CASE question.kind = "series" /\ Cases!Answer(Cases!SeriesAnswer(question))
  <2>1. Cases!SeriesAnswer(question).kind = "series"
    BY DEF Cases!SeriesAnswer
  <2> QED BY <1>2, <1>7, <2>1
<1>8. question.kind # "none" => question \in Cases!Questions
  BY DEF CasesInv, Cases!Unanswered
<1>4. CASE question.kind = "row" /\ Cases!Answer(Cases!RowAnswer(question))
  <2>1. Cases!RowAnswer(question).kind = "row" /\ question \in Cases!ScoreQuestions
    BY <1>4, <1>8, KindOfQuestion DEF Cases!RowAnswer
  <2> QED BY <1>4, <2>1 DEF Cases!Answer, CasesInv, Cases!Asked
<1>9. CASE question.kind = "needs" /\ Cases!Answer(Cases!NeedAnswer(question))
  <2>1. Cases!NeedAnswer(question).kind = "needs" /\ question \in Cases!NeedQuestions
    BY <1>8, <1>9, KindOfQuestion DEF Cases!NeedAnswer
  <2> QED BY <1>9, <2>1 DEF Cases!Answer, CasesInv, Cases!Asked
<1>10. CASE question.kind = "route" /\ Cases!Answer(Cases!RouteAnswer(question))
  <2>1. Cases!RouteAnswer(question).kind = "route" /\ question \in Cases!RouteQuestions
    BY <1>8, <1>10, KindOfQuestion DEF Cases!RouteAnswer
  <2> QED BY <1>10, <2>1 DEF Cases!Answer, CasesInv, Cases!Asked
<1>11. CASE question.kind = "business" /\ Cases!Answer(Cases!BusinessAnswer(question))
  <2>1. Cases!BusinessAnswer(question).kind = "business" /\ question \in Cases!BusinessQuestions
    BY <1>8, <1>11, KindOfQuestion DEF Cases!BusinessAnswer
  <2> QED BY <1>11, <2>1 DEF Cases!Answer, CasesInv, Cases!Asked
<1> QED BY <1>1, <1>3, <1>4, <1>5, <1>6, <1>7, <1>9, <1>10, <1>11 DEF Cases!Next

LEMMA LatestIsSecond ==
    ASSUME NEW e1, NEW e2, NEW a \in BOOLEAN
    PROVE  Cases!B!Latest({[at |-> 1, id |-> 1, payload |-> e1, accepted |-> TRUE],
                           [at |-> 2, id |-> 2, payload |-> e2, accepted |-> a]})
             = IF a THEN e2 ELSE Cases!B!NoEvidence
<1> DEFINE one == [at |-> 1, id |-> 1, payload |-> e1, accepted |-> TRUE]
           two == [at |-> 2, id |-> 2, payload |-> e2, accepted |-> a]
           Last(r) == \A s \in {one, two} : r.at > s.at \/ (r.at = s.at /\ r.id >= s.id)
           row == CHOOSE r \in {one, two} : Last(r)
<1>1. /\ one.at = 1 /\ one.id = 1 /\ two.at = 2 /\ two.id = 2
      /\ two.payload = e2 /\ two.accepted = a
  OBVIOUS
<1> HIDE DEF one, two
<1>2. Last(two) /\ ~Last(one)
  BY <1>1
<1> HIDE DEF Last
<1>3. row = two
  BY <1>2
<1>4. Cases!B!Latest({one, two}) = IF row.accepted THEN row.payload ELSE Cases!B!NoEvidence
  BY DEF Cases!B!Latest, Last
<1> QED BY <1>1, <1>3, <1>4 DEF one, two

-----------------------------------------------------------------------------
(***************************************************************************)
(* The business evidence that is asked about                               *)
(***************************************************************************)

LEMMA QuotesTyped == Cases!Quotes \subseteq QuoteType
<1>1. ASSUME NEW basis \in {"estimate", "quote"}, NEW unit \in Amount, NEW quantity \in Nat,
             NEW expires \in Amount, NEW terms \in SUBSET Cases!B!Terms
      PROVE  Cases!Quote(basis, unit, quantity, expires, terms) \in QuoteType
  <2>1. (IF unit = Cases!B!Unknown THEN Cases!B!Unknown ELSE 200 * unit) \in Amount
    BY DEF Amount, Cases!B!Unknown
  <2>2. {"included"} \subseteq Cases!B!Coverage
    BY DEF Cases!B!Coverage
  <2> QED BY <2>1, <2>2 DEF Cases!Quote, QuoteType
<1>2. Cases!B!NoQuote \in QuoteType
  BY DEF Cases!B!NoQuote, QuoteType, Amount, Cases!B!Unknown
<1>3. /\ 10 \in Amount /\ 14 \in Amount /\ 5 \in Amount /\ 1 \in Amount
      /\ Cases!B!Unknown \in Amount
      /\ {} \in SUBSET Cases!B!Terms /\ Cases!B!Terms \in SUBSET Cases!B!Terms
  BY DEF Amount, Cases!B!Unknown
<1>4. /\ Cases!Quote("quote", 10, 200, 5, Cases!B!Terms) \in QuoteType
      /\ Cases!Quote("quote", 10, 5, 5, Cases!B!Terms) \in QuoteType
      /\ Cases!Quote("quote", 10, 100, 5, Cases!B!Terms) \in QuoteType
      /\ Cases!Quote("quote", 10, 200, 1, Cases!B!Terms) \in QuoteType
      /\ Cases!Quote("quote", 10, 200, 5, {}) \in QuoteType
      /\ Cases!Quote("estimate", 10, 200, Cases!B!Unknown, {}) \in QuoteType
      /\ Cases!Quote("quote", Cases!B!Unknown, 200, 5, Cases!B!Terms) \in QuoteType
      /\ Cases!Quote("quote", 14, 200, 5, Cases!B!Terms) \in QuoteType
  BY <1>1, <1>3
<1> QED BY <1>2, <1>4 DEF Cases!Quotes

LEMMA AmountsTyped ==
    ASSUME NEW n \in Nat
    PROVE  Cases!Amounts(n) \subseteq {-1, n}
BY DEF Cases!Amounts, Cases!B!Unknown

LEMMA ChecksTyped == Cases!Checks \subseteq Cases!B!Check
<1> DEFINE Accepted == {x \in [status : Cases!B!Check, sourced : {TRUE}] :
                          Cases!B!CheckAccepted(x)}
<1>1. Cases!Checks = {c.status : c \in Accepted}
  BY DEF Cases!Checks
<1>2. \A c \in Accepted : c.status \in Cases!B!Check
  OBVIOUS
<1> HIDE DEF Accepted
<1> QED BY <1>1, <1>2

\* What is asked about business evidence, and what it is made of.
LEMMA BusinessQuestion ==
    ASSUME NEW q \in Cases!BusinessQuestions
    PROVE  LET e == q.latest IN
           /\ e \in EvidenceType /\ q.budget \in {2600, 2400}
           /\ e.fees.referral = 5 /\ e.fees.fulfillment = 5 /\ e.return = 2
           /\ e.fees.other \in {-1, 2} /\ e.ad \in Amount /\ e.price \in Amount
           /\ e.launch.advertising = 200 /\ e.launch.reserve = 200
           /\ e.safety = "pass"
<1>1. PICK d \in Cases!B!Disposition, brand \in Cases!Checks, market \in Cases!Checks,
           sample \in Cases!Checks, price \in Cases!Amounts(60) \cup {40},
           fee \in Cases!Amounts(2), upfront \in Cases!Amounts(100), ad \in Cases!Amounts(5),
           quote \in Cases!Quotes, s \in {2600, 2400} :
        q = [kind |-> "business", budget |-> s,
             latest |-> Cases!Evidence(d, brand, market, sample, price, fee, upfront, ad, quote)]
  BY DEF Cases!BusinessQuestions
<1>2. Cases!Checks \subseteq Cases!B!Check
  BY ChecksTyped
<1>3. /\ price \in Amount /\ fee \in {-1, 2} /\ fee \in Amount /\ upfront \in Amount
      /\ ad \in Amount /\ 5 \in Amount /\ 2 \in Amount /\ 200 \in Amount
  BY AmountsTyped DEF Amount
<1>4. quote \in QuoteType
  BY QuotesTyped
<1> DEFINE e == Cases!Evidence(d, brand, market, sample, price, fee, upfront, ad, quote)
<1>5. /\ e.fees = [referral |-> 5, fulfillment |-> 5, other |-> fee]
      /\ e.launch = [upfront |-> upfront, advertising |-> 200, reserve |-> 200]
      /\ e.return = 2 /\ e.ad = ad /\ e.price = price /\ e.safety = "pass"
  BY DEF Cases!Evidence
<1>6. e \in EvidenceType
  <2>1. "pass" \in Cases!B!Check
    BY DEF Cases!B!Check
  <2>2. {"probe"} \subseteq Purposes
    BY DEF Purposes
  <2>3. [referral |-> 5, fulfillment |-> 5, other |-> fee]
          \in [referral : Amount, fulfillment : Amount, other : Amount]
    BY <1>3
  <2>4. [upfront |-> upfront, advertising |-> 200, reserve |-> 200]
          \in [upfront : Amount, advertising : Amount, reserve : Amount]
    BY <1>3
  <2> QED BY <1>2, <1>3, <1>4, <2>1, <2>2, <2>3, <2>4 DEF Cases!Evidence, EvidenceType
<1>7. q.latest = e /\ q.budget = s
  BY <1>1
<1> HIDE DEF e
<1> QED BY <1>3, <1>5, <1>6, <1>7

\* The answer, of the evidence that the form accepts and of none.
LEMMA BusinessAnswered ==
    ASSUME NEW q \in Cases!BusinessQuestions
    PROVE  \E s \in SettingsType :
             LET a == Cases!BusinessAnswer(q)
                 e == q.latest IN
             /\ s.budget = q.budget /\ s.preAd = 35 /\ s.postAd = 35 /\ s.roi = 150
             /\ \/ /\ ~a.usable /\ ~a.admitted /\ a.assessment.stage = "basic_check"
                \/ /\ a.usable /\ Cases!B!QuoteAccepted(e.quote)
                   /\ a.assessment = [stage |-> Cases!B!Stage(e, s, 2),
                                      gaps |-> Cases!B!Gaps(e, s, 2)]
                   /\ (a.admitted => Cases!B!Admitted(e, s, 2, "probe"))
<1> DEFINE s == [Cases!B!DefaultSettings EXCEPT !.budget = q.budget]
           e == q.latest
           a == Cases!BusinessAnswer(q)
           l == Cases!B!Latest({[at |-> 1, id |-> 1, payload |-> Cases!Complete, accepted |-> TRUE],
                                [at |-> 2, id |-> 2, payload |-> e,
                                 accepted |-> Cases!Accepted(e)]})
<1>1. /\ s \in SettingsType /\ s.budget = q.budget
      /\ s.preAd = 35 /\ s.postAd = 35 /\ s.roi = 150
  BY BusinessQuestion DEF Cases!B!DefaultSettings, SettingsType
<1>2. a = [kind |-> "business", usable |-> l # Cases!B!NoEvidence,
           assessment |-> Cases!B!Assessment(l, s, 2),
           admitted |-> Cases!B!Admitted(l, s, 2, "probe"),
           named |-> Cases!B!AdmissionSuffix(2, s)]
  BY DEF Cases!BusinessAnswer
<1>3. Cases!Accepted(e) \in BOOLEAN
  BY DEF Cases!Accepted
<1>4. l = IF Cases!Accepted(e) THEN e ELSE Cases!B!NoEvidence
  BY <1>3, LatestIsSecond
<1>5. e # Cases!B!NoEvidence
  BY BusinessQuestion, EvidenceShape DEF Cases!B!NoEvidence, Cases!B!Disposition
<1> HIDE DEF s, e, a, l
<1>6. CASE Cases!Accepted(e)
  <2>1. Cases!B!QuoteAccepted(e.quote)
    BY <1>6 DEF Cases!Accepted
  <2>2. a.usable /\ (a.admitted => Cases!B!Admitted(e, s, 2, "probe"))
    BY <1>2, <1>4, <1>5, <1>6
  <2>3. a.assessment = [stage |-> Cases!B!Stage(e, s, 2), gaps |-> Cases!B!Gaps(e, s, 2)]
    BY <1>2, <1>4, <1>5, <1>6 DEF Cases!B!Assessment
  <2> QED BY <1>1, <2>1, <2>2, <2>3 DEF e, a
<1>7. CASE ~Cases!Accepted(e)
  <2>1. ~a.usable /\ ~a.admitted
    BY <1>2, <1>4, <1>7 DEF Cases!B!Admitted
  <2>2. a.assessment.stage = "basic_check"
    BY <1>2, <1>4, <1>7 DEF Cases!B!Assessment
  <2> QED BY <1>1, <2>1, <2>2 DEF a
<1> QED BY <1>6, <1>7

\* Of every question about business evidence: purchase review means that nothing is
\* missing, and nothing is paid for when nothing is missing or known costs are too
\* high (assessResearchBusiness, assessResearchApiAdmission).
LEMMA BusinessHolds ==
    ASSUME CasesInv
    PROVE  BusinessSound
<1> SUFFICES ASSUME Cases!Asked("business")
             PROVE  BusinessSound
  BY DEF BusinessSound, Cases!BusinessSound
<1> DEFINE e == question.latest
           q == e.quote
           a == answer
           known == /\ e.fees.other # -1 /\ e.ad # -1 /\ q.unit # -1
                    /\ e.launch.upfront # -1 /\ e.price # -1
           margin == e.price - 14 - e.ad - q.unit
           cash == q.quantity * q.unit + 400 + e.launch.upfront
           meets == 100 * margin >= 35 * e.price /\ 100 * margin >= 150 * q.unit
<1>1. question \in Cases!BusinessQuestions /\ answer = Cases!BusinessAnswer(question)
  BY DEF CasesInv
<1>2. PICK s \in SettingsType :
             /\ s.budget = question.budget /\ s.preAd = 35 /\ s.postAd = 35 /\ s.roi = 150
             /\ \/ /\ ~a.usable /\ ~a.admitted /\ a.assessment.stage = "basic_check"
                \/ /\ a.usable /\ Cases!B!QuoteAccepted(e.quote)
                   /\ a.assessment = [stage |-> Cases!B!Stage(e, s, 2),
                                      gaps |-> Cases!B!Gaps(e, s, 2)]
                   /\ (a.admitted => Cases!B!Admitted(e, s, 2, "probe"))
  BY <1>1, BusinessAnswered
<1>3. e \in EvidenceType /\ question.budget \in Nat
  BY <1>1, BusinessQuestion
<1>4. /\ e.fees.referral = 5 /\ e.fees.fulfillment = 5 /\ e.return = 2
      /\ e.fees.other \in {-1, 2} /\ e.launch.advertising = 200 /\ e.launch.reserve = 200
  BY <1>1, BusinessQuestion
<1>5. /\ e.ad \in Amount /\ q.unit \in Amount /\ e.price \in Amount /\ e.launch.upfront \in Amount
      /\ q.quantity \in Nat
  BY <1>3, EvidenceShape
<1> HIDE DEF e, q, a
<1>6. known <=> CostsKnown(e) /\ LaunchKnown(e)
  BY <1>4 DEF CostsKnown, VariableKnown, FeesKnown, LaunchKnown, q
<1>7. known => /\ LaunchTotal(e) = cash
               /\ MeetsTargets(e, s) => meets
  <2> SUFFICES ASSUME known PROVE LaunchTotal(e) = cash /\ (MeetsTargets(e, s) => meets)
    OBVIOUS
  <2>1. /\ e.fees.other = 2 /\ e.ad \in Nat /\ q.unit \in Nat /\ e.price \in Nat
        /\ e.launch.upfront \in Nat
    BY <1>4, <1>5 DEF Amount
  <2>2. q.quantity * q.unit \in Nat
    BY <1>5, <2>1
  <2>3. LaunchTotal(e) = cash
    <3>1. LaunchTotal(e) = q.quantity * q.unit + e.launch.upfront + 200 + 200
      BY <1>4 DEF LaunchTotal, q
    <3> QED BY <2>1, <2>2, <3>1
  <2>4. Margin(e) = margin
    <3>1. VariableTotal(e) = 5 + 5 + 2 + q.unit + e.ad + 2
      BY <1>4, <2>1 DEF VariableTotal, FeesTotal, q
    <3> QED BY <2>1, <3>1 DEF Margin
  <2>5. MeetsTargets(e, s) => meets
    BY <1>2, <2>4 DEF MeetsTargets, q
  <2> QED BY <2>3, <2>5
<1>8. a.assessment.stage = "purchase_review" =>
        /\ a.usable /\ a.assessment.gaps = {} /\ known /\ meets
        /\ {e.brand, e.market, e.sample} = {"pass"} /\ cash <= question.budget
        /\ q.basis = "quote" /\ q.expires > 2
  <2> SUFFICES ASSUME a.assessment.stage = "purchase_review"
               PROVE  /\ a.usable /\ a.assessment.gaps = {} /\ known /\ meets
                      /\ {e.brand, e.market, e.sample} = {"pass"} /\ cash <= question.budget
                      /\ q.basis = "quote" /\ q.expires > 2
    OBVIOUS
  <2>1. /\ a.usable /\ Cases!B!QuoteAccepted(e.quote)
        /\ Cases!B!Stage(e, s, 2) = "purchase_review"
        /\ a.assessment.gaps = Cases!B!Gaps(e, s, 2)
    BY <1>2
  <2>2. /\ Cases!B!Gaps(e, s, 2) = {} /\ {e.brand, e.market, e.sample, e.safety} = {"pass"}
        /\ CostsKnown(e) /\ MeetsTargets(e, s)
        /\ LaunchKnown(e) /\ LaunchTotal(e) <= s.budget
        /\ e.quote.basis = "quote" /\ e.quote.expires > 2
    BY <1>3, <2>1, ReviewMissesNothing
  <2> HIDE DEF known, meets, cash
  <2>3. known /\ meets /\ cash <= question.budget
    BY <1>2, <1>6, <1>7, <2>2
  <2>4. {e.brand, e.market, e.sample} = {"pass"}
    BY <2>2
  <2> QED BY <2>1, <2>2, <2>3, <2>4 DEF q
<1>9. (/\ a.usable /\ e.disposition = "research" /\ q.basis = "quote"
       /\ a.assessment.gaps = {}) => a.assessment.stage = "purchase_review"
  <2> SUFFICES ASSUME a.usable, e.disposition = "research", q.basis = "quote",
                      a.assessment.gaps = {}
               PROVE  a.assessment.stage = "purchase_review"
    OBVIOUS
  <2>1. a.assessment = [stage |-> Cases!B!Stage(e, s, 2), gaps |-> Cases!B!Gaps(e, s, 2)]
    BY <1>2
  <2>2. Cases!B!Gaps(e, s, 2) = {} /\ e.quote.basis = "quote"
    BY <2>1 DEF q
  <2>3. Cases!B!Stage(e, s, 2) = "purchase_review"
    BY <1>3, <2>2, NothingMissingIsReviewed
  <2> QED BY <2>1, <2>3
<1>10. a.admitted =>
         /\ a.usable /\ a.assessment.gaps # {} /\ e.disposition = "research"
         /\ (known /\ q # Cases!B!NoQuote) => meets /\ cash <= question.budget
  <2> SUFFICES ASSUME a.admitted
               PROVE  /\ a.usable /\ a.assessment.gaps # {} /\ e.disposition = "research"
                      /\ (known /\ q # Cases!B!NoQuote) => meets /\ cash <= question.budget
    OBVIOUS
  <2>1. /\ a.usable /\ a.assessment.gaps = Cases!B!Gaps(e, s, 2)
        /\ Cases!B!Admitted(e, s, 2, "probe")
    BY <1>2
  <2>2. /\ e.disposition = "research" /\ Cases!B!Gaps(e, s, 2) # {}
        /\ LaunchKnown(e) => LaunchTotal(e) <= s.budget
        /\ (CostsKnown(e) /\ e.quote # Cases!B!NoQuote) => MeetsTargets(e, s)
    BY <1>3, <2>1, PaidForWhatMayHelp
  <2> HIDE DEF known, meets, cash
  <2>3. (known /\ q # Cases!B!NoQuote) => meets /\ cash <= question.budget
    BY <1>2, <1>6, <1>7, <2>2 DEF q
  <2> QED BY <2>1, <2>2, <2>3
<1>11. (\A n \in 1..5 : <<e.fees.other, e.ad, q.unit, e.launch.upfront, e.price>>[n]
                          # Cases!B!Unknown) <=> known
  <2> DEFINE costs == <<e.fees.other, e.ad, q.unit, e.launch.upfront, e.price>>
  <2>1. /\ costs[1] = e.fees.other /\ costs[2] = e.ad /\ costs[3] = q.unit
        /\ costs[4] = e.launch.upfront /\ costs[5] = e.price
    OBVIOUS
  <2> HIDE DEF costs
  <2>2. (\A n \in 1..5 : costs[n] # -1) <=>
          costs[1] # -1 /\ costs[2] # -1 /\ costs[3] # -1 /\ costs[4] # -1 /\ costs[5] # -1
    <3>1. 1..5 = {1, 2, 3, 4, 5}
      OBVIOUS
    <3> QED BY <3>1
  <2> QED BY <2>1, <2>2 DEF costs, Cases!B!Unknown
<1> QED BY <1>8, <1>9, <1>10, <1>11 DEF BusinessSound, Cases!BusinessSound, e, q, a

-----------------------------------------------------------------------------
(***************************************************************************)
(* Scores                                                                  *)
(*                                                                         *)
(* The preliminary score of an imported row and the rules that decide      *)
(* whether it is screened, whatever the row, and of the rows that are      *)
(* asked about.                                                            *)
(***************************************************************************)

\* f has the values k1 to k6, in six places.
Six(f, a, b, c, d, x, y, k1, k2, k3, k4, k5, k6) ==
    /\ f \in [{a, b, c, d, x, y} -> Int]
    /\ \A u \in {a, b, c, d} : u # x /\ u # y
    /\ x # y /\ k5 \in Int /\ k6 \in Int /\ f[x] = k5 /\ f[y] = k6
    /\ Four([u \in {a, b, c, d} |-> f[u]], a, b, c, d, k1, k2, k3, k4)

LEMMA SumOfSix ==
    ASSUME NEW f, NEW a, NEW b, NEW c, NEW d, NEW x, NEW y,
           NEW k1, NEW k2, NEW k3, NEW k4, NEW k5, NEW k6,
           Six(f, a, b, c, d, x, y, k1, k2, k3, k4, k5, k6)
    PROVE  SumOf(f) = k1 + k2 + k3 + k4 + k5 + k6
<1> DEFINE D == {a, b, c, d, x, y}
           E == D \ {y}
           F == E \ {x}
           g == Without(f, y)
           h == Without(g, x)
           r == [u \in {a, b, c, d} |-> f[u]]
<1>1. IsFiniteSet(D)
  <2>1. IsFiniteSet(((((({} \cup {a}) \cup {b}) \cup {c}) \cup {d}) \cup {x}) \cup {y})
    BY FS_EmptySet, FS_AddElement
  <2>2. D = ((((({} \cup {a}) \cup {b}) \cup {c}) \cup {d}) \cup {x}) \cup {y}
    OBVIOUS
  <2> QED BY <2>1, <2>2
<1>2. y \in D /\ x \in E /\ F = {a, b, c, d} /\ f \in [D -> Int]
  BY DEF Six
<1> HIDE DEF D, E, F, g, h, r
<1>3. g \in [E -> Int] /\ IsFiniteSet(E) /\ \A u \in E : g[u] = f[u]
  <2>1. g \in [E -> Int] /\ \A u \in E : g[u] = f[u]
    BY <1>2 DEF E, g, Without
  <2>2. IsFiniteSet(E)
    BY <1>1, FS_RemoveElement DEF E
  <2> QED BY <2>1, <2>2
<1>4. h \in [F -> Int] /\ IsFiniteSet(F) /\ \A u \in F : h[u] = g[u]
  <2>1. h \in [F -> Int] /\ \A u \in F : h[u] = g[u]
    BY <1>2, <1>3 DEF F, h, Without
  <2>2. IsFiniteSet(F)
    BY <1>3, FS_RemoveElement DEF F
  <2> QED BY <2>1, <2>2
<1>5. \A u \in F : h[u] = f[u]
  BY <1>3, <1>4 DEF F
<1>6. h = r
  <2>1. r \in [F -> Int] /\ \A u \in F : r[u] = f[u]
    BY <1>2 DEF r, D
  <2> QED BY <1>4, <1>5, <2>1
<1>7. Four(r, a, b, c, d, k1, k2, k3, k4)
  BY DEF Six, r
<1>8. SumOf(h) = k1 + k2 + k3 + k4
  BY <1>6, <1>7, SumOfFour
<1>9. /\ k1 \in Int /\ k2 \in Int /\ k3 \in Int /\ k4 \in Int
      /\ k5 \in Int /\ k6 \in Int /\ f[x] = k5 /\ f[y] = k6
  BY <1>7 DEF Four, Six
<1>10. SumOf(h) \in Int
  BY <1>4, SumIsInt
<1>11. g[x] = k5
  BY <1>2, <1>3, <1>9
<1>12. SumOf(g) = g[x] + SumOf(h)
  BY <1>2, <1>3, <1>10, SumWithout DEF h
<1>13. SumOf(g) \in Int
  BY <1>3, SumIsInt
<1>14. SumOf(f) = f[y] + SumOf(g)
  BY <1>1, <1>2, <1>13, SumWithout DEF g
<1> QED BY <1>8, <1>9, <1>11, <1>12, <1>14

-----------------------------------------------------------------------------
\* What the schema of an imported row admits, as far as the score looks at it.
RowOf(row) ==
    /\ row.price \in Int /\ row.units \in Nat /\ row.volume \in Nat
    /\ row.isUpperBound \in BOOLEAN /\ row.trend30 \in Int /\ row.trend90 \in Int
    /\ row.nicheScore \in 0..10
    /\ row.competition \in {Cases!O!Rank[n] : n \in 1..5}
    /\ row.seasonality \in {Cases!O!Rank[n] : n \in 1..5}

\* Up to a hundred points.
Points(x) == x \in Nat /\ x <= 10000

LEMMA GradesTyped ==
    ASSUME NEW l \in {Cases!O!Rank[n] : n \in 1..5}
    PROVE  Points(Cases!O!CompetitionScore(l)) /\ Points(Cases!O!SeasonalityScore(l))
<1> DEFINE k == CHOOSE n \in 1..5 : Cases!O!Rank[n] = l
<1>1. k = 1 \/ k = 2 \/ k = 3 \/ k = 4 \/ k = 5
  <2>1. k \in 1..5
    OBVIOUS
  <2> QED BY <2>1
<1>2. /\ Cases!O!CompetitionScore(l) = <<10000, 8000, 5500, 2500, 0>>[k]
      /\ Cases!O!SeasonalityScore(l) = <<10000, 8000, 5500, 2000, 0>>[k]
  BY DEF Cases!O!CompetitionScore, Cases!O!SeasonalityScore
<1> HIDE DEF k
<1> QED BY <1>1, <1>2, SMT DEF Points

LEMMA FitIs ==
    ASSUME NEW p \in Int
    PROVE  /\ Points(Cases!O!PriceFitScore(p))
           /\ Cases!O!PriceFitScore(p) >= 6000 <=> p >= 15 /\ p <= 80
           /\ Cases!O!PriceFitScore(p) > 0 <=> p >= 15 /\ p <= 80
<1> DEFINE fit == Cases!O!PriceFitScore(p)
<1>1. CASE ~(p >= 15 /\ p <= 80)
  BY <1>1, SMT DEF Cases!O!PriceFitScore, Cases!O!FitsPrice, Points
<1>2. CASE p >= 15 /\ p < 25
  <2>1. fit = 6000 + (p - 15) * 400
    BY <1>2, SMT DEF Cases!O!PriceFitScore, Cases!O!FitsPrice
  <2> HIDE DEF fit
  <2>2. Points(fit) /\ fit >= 6000
    BY <1>2, <2>1, SMT DEF Points
  <2> QED BY <1>2, <2>2, SMT DEF fit, Points
<1>3. CASE p >= 25 /\ p <= 50
  <2>1. fit = 10000
    BY <1>3, SMT DEF Cases!O!PriceFitScore, Cases!O!FitsPrice
  <2> HIDE DEF fit
  <2> QED BY <1>3, <2>1, SMT DEF fit, Points
<1>4. CASE p > 50 /\ p <= 80
  <2>1. fit = 10000 - (2 * ((p - 50) * 4000) + 30) \div 60
    BY <1>4, SMT DEF Cases!O!PriceFitScore, Cases!O!FitsPrice, Cases!O!RoundDiv
  <2> HIDE DEF fit
  <2>2. Points(fit) /\ fit >= 6000
    BY <1>4, <2>1, SMT DEF Points
  <2> QED BY <1>4, <2>2, SMT DEF fit, Points
<1> QED BY <1>1, <1>2, <1>3, <1>4, SMT

LEMMA LeastTyped ==
    ASSUME NEW a \in Nat
    PROVE  Cases!O!Least(120000, a) \in Nat /\ Cases!O!Least(120000, a) <= 120000
BY SMT DEF Cases!O!Least

LEMMA DemandTyped ==
    ASSUME NEW row, RowOf(row)
    PROVE  Points(Cases!O!DemandScore(row))
<1> DEFINE u == Cases!O!Least(120000, row.units * 40)
           s == Cases!O!Least(120000, row.volume * (IF row.isUpperBound THEN 18 ELSE 24))
<1>1. /\ row.units * 40 \in Nat
      /\ row.volume * (IF row.isUpperBound THEN 18 ELSE 24) \in Nat
  BY SMT DEF RowOf
<1>2. u \in Nat /\ s \in Nat /\ u <= 120000 /\ s <= 120000
  <2> DEFINE a == row.units * 40
             b == row.volume * (IF row.isUpperBound THEN 18 ELSE 24)
  <2>1. u = Cases!O!Least(120000, a) /\ s = Cases!O!Least(120000, b)
    BY SMT
  <2> HIDE DEF a, b, u, s
  <2>2. a \in Nat /\ b \in Nat
    BY <1>1, SMT DEF a, b
  <2>3. u \in Nat /\ u <= 120000
    BY <2>1, <2>2, LeastTyped, SMT
  <2>4. s \in Nat /\ s <= 120000
    BY <2>1, <2>2, LeastTyped, SMT
  <2> QED BY <2>3, <2>4, SMT
<1>3. Cases!O!DemandScore(row) = Cases!O!RoundDiv(u + s, 24)
  BY SMT DEF Cases!O!DemandScore
<1> HIDE DEF u, s
<1>4. Points((2 * (u + s) + 24) \div 48)
  BY <1>2, SMT DEF Points
<1>5. Cases!O!RoundDiv(u + s, 24) = (2 * (u + s) + 24) \div 48
  BY <1>2, SMT DEF Cases!O!RoundDiv
<1> QED BY <1>3, <1>4, <1>5, SMT

LEMMA TrendTyped ==
    ASSUME NEW row, RowOf(row)
    PROVE  Points(Cases!O!TrendScore(row))
<1> DEFINE t == 5000 + (row.trend30 + row.trend90) * 50
<1>1. t \in Int
  BY SMT DEF RowOf
<1>2. Cases!O!TrendScore(row) = Cases!O!Clamp(t, 0, 10000)
  BY SMT DEF Cases!O!TrendScore
<1> HIDE DEF t
<1> QED BY <1>1, <1>2, SMT DEF Cases!O!Clamp, Points

\* The sum of the score is the one that is studied here.
LEMMA ScoreIsSum ==
    ASSUME NEW row
    PROVE  Cases!O!PreliminaryScore(row) = SumOf(Cases!O!WeightedScore(row))
<1> DEFINE f == Cases!O!WeightedScore(row)
<1>1. Cases!O!PreliminaryScore(row) = Cases!O!FoldFunction(LAMBDA x, y : x + y, 0, f)
  BY DEF Cases!O!PreliminaryScore
<1> HIDE DEF f
<1>2. Cases!O!FoldFunction(LAMBDA x, y : x + y, 0, f) = SumOf(f)
  BY DEF SumOf, Cases!O!FoldFunction, Cases!O!FoldFunctionOnSet, Cases!O!MapThenFoldSet,
         Cases!B!FoldFunction, Cases!B!FoldFunctionOnSet, Cases!B!MapThenFoldSet
<1> QED BY <1>1, <1>2 DEF f

\* A component, rounded, is not beyond its weight.
LEMMA WeightedTyped ==
    ASSUME NEW raw, Points(raw)
    PROVE  /\ Cases!O!RoundDiv(raw * 25, 100) \in Nat /\ Cases!O!RoundDiv(raw * 25, 100) <= 2500
           /\ Cases!O!RoundDiv(raw * 20, 100) \in Nat /\ Cases!O!RoundDiv(raw * 20, 100) <= 2000
           /\ Cases!O!RoundDiv(raw * 10, 100) \in Nat /\ Cases!O!RoundDiv(raw * 10, 100) <= 1000
<1>1. /\ Cases!O!RoundDiv(raw * 25, 100) = (2 * (raw * 25) + 100) \div 200
      /\ Cases!O!RoundDiv(raw * 20, 100) = (2 * (raw * 20) + 100) \div 200
      /\ Cases!O!RoundDiv(raw * 10, 100) = (2 * (raw * 10) + 100) \div 200
  BY SMT DEF Cases!O!RoundDiv, Points
<1>2. /\ (2 * (raw * 25) + 100) \div 200 \in Nat /\ (2 * (raw * 25) + 100) \div 200 <= 2500
      /\ (2 * (raw * 20) + 100) \div 200 \in Nat /\ (2 * (raw * 20) + 100) \div 200 <= 2000
      /\ (2 * (raw * 10) + 100) \div 200 \in Nat /\ (2 * (raw * 10) + 100) \div 200 <= 1000
  BY SMT DEF Points
<1> QED BY <1>1, <1>2, SMT

Components == {"jsNicheScore", "competition", "trend", "priceFit", "demand", "seasonality"}

LEMMA ComponentsAre ==
    ASSUME NEW row, RowOf(row), NEW f, f = Cases!O!WeightedScore(row)
    PROVE  /\ f \in [Components -> Int]
           /\ f["jsNicheScore"] \in Nat /\ f["jsNicheScore"] <= 2500
           /\ f["competition"] \in Nat /\ f["competition"] <= 2500
           /\ f["demand"] \in Nat /\ f["demand"] <= 2000
           /\ f["trend"] \in Nat /\ f["trend"] <= 1000
           /\ f["priceFit"] \in Nat /\ f["priceFit"] <= 1000
           /\ f["seasonality"] \in Nat /\ f["seasonality"] <= 1000
<1> DEFINE raw == Cases!O!RawScore(row)
<1>1. /\ Points(raw["jsNicheScore"]) /\ Points(raw["competition"]) /\ Points(raw["demand"])
      /\ Points(raw["trend"]) /\ Points(raw["priceFit"]) /\ Points(raw["seasonality"])
  <2>1. /\ raw["jsNicheScore"] = row.nicheScore * 1000
        /\ raw["competition"] = Cases!O!CompetitionScore(row.competition)
        /\ raw["demand"] = Cases!O!DemandScore(row) /\ raw["trend"] = Cases!O!TrendScore(row)
        /\ raw["priceFit"] = Cases!O!PriceFitScore(row.price)
        /\ raw["seasonality"] = Cases!O!SeasonalityScore(row.seasonality)
    BY SMT DEF Cases!O!RawScore
  <2>2. Points(row.nicheScore * 1000)
    BY SMT DEF RowOf, Points
  <2> DEFINE c == row.competition
             s == row.seasonality
             p == row.price
  <2>3. /\ c \in {Cases!O!Rank[n] : n \in 1..5} /\ s \in {Cases!O!Rank[n] : n \in 1..5}
        /\ p \in Int
    BY SMT DEF RowOf
  <2> HIDE DEF c, s, p, raw
  <2>4. Points(Cases!O!CompetitionScore(c))
    BY <2>3, GradesTyped, SMT
  <2>5. Points(Cases!O!SeasonalityScore(s))
    BY <2>3, GradesTyped, SMT
  <2>6. Points(Cases!O!PriceFitScore(p))
    BY <2>3, FitIs, SMT
  <2>7. Points(Cases!O!DemandScore(row)) /\ Points(Cases!O!TrendScore(row))
    BY DemandTyped, TrendTyped, SMT
  <2> QED BY <2>1, <2>2, <2>4, <2>5, <2>6, <2>7, SMT DEF c, s, p
<1>2. /\ DOMAIN Cases!O!Weights = Components
      /\ Cases!O!Weights["jsNicheScore"] = 25 /\ Cases!O!Weights["competition"] = 25
      /\ Cases!O!Weights["demand"] = 20 /\ Cases!O!Weights["trend"] = 10
      /\ Cases!O!Weights["priceFit"] = 10 /\ Cases!O!Weights["seasonality"] = 10
  BY SMT DEF Cases!O!Weights, Components
<1>3. f = [c \in Components |-> Cases!O!RoundDiv(raw[c] * Cases!O!Weights[c], 100)]
  BY <1>2, SMT DEF Cases!O!WeightedScore
<1> HIDE DEF raw
<1>4. /\ f["jsNicheScore"] = Cases!O!RoundDiv(raw["jsNicheScore"] * 25, 100)
      /\ f["competition"] = Cases!O!RoundDiv(raw["competition"] * 25, 100)
      /\ f["demand"] = Cases!O!RoundDiv(raw["demand"] * 20, 100)
      /\ f["trend"] = Cases!O!RoundDiv(raw["trend"] * 10, 100)
      /\ f["priceFit"] = Cases!O!RoundDiv(raw["priceFit"] * 10, 100)
      /\ f["seasonality"] = Cases!O!RoundDiv(raw["seasonality"] * 10, 100)
  BY <1>2, <1>3, SMT DEF Components
<1>5. /\ f["jsNicheScore"] \in Nat /\ f["jsNicheScore"] <= 2500
      /\ f["competition"] \in Nat /\ f["competition"] <= 2500
      /\ f["demand"] \in Nat /\ f["demand"] <= 2000
      /\ f["trend"] \in Nat /\ f["trend"] <= 1000
      /\ f["priceFit"] \in Nat /\ f["priceFit"] <= 1000
      /\ f["seasonality"] \in Nat /\ f["seasonality"] <= 1000
  BY <1>1, <1>4, WeightedTyped, SMT
<1>6. \A c \in Components : f[c] \in Int
  BY <1>5, SMT DEF Components
<1> QED BY <1>3, <1>5, <1>6, SMT

\* A row's score is a percentage, in hundredths, whatever the row: no component is
\* beyond its weight, rounded, and the weights are a hundred
\* (scorePreliminaryOpportunity).
THEOREM ScoreIsPercentage ==
    ASSUME NEW row, RowOf(row)
    PROVE  Points(Cases!O!PreliminaryScore(row))
<1> DEFINE f == Cases!O!WeightedScore(row)
           a == f["jsNicheScore"]
           b == f["competition"]
           c == f["trend"]
           d == f["priceFit"]
           x == f["demand"]
           y == f["seasonality"]
<1>1. /\ f \in [Components -> Int]
      /\ a \in Nat /\ a <= 2500 /\ b \in Nat /\ b <= 2500 /\ x \in Nat /\ x <= 2000
      /\ c \in Nat /\ c <= 1000 /\ d \in Nat /\ d <= 1000 /\ y \in Nat /\ y <= 1000
  BY ComponentsAre
<1> HIDE DEF f
<1>2. Six(f, "jsNicheScore", "competition", "trend", "priceFit", "demand", "seasonality",
          a, b, c, d, x, y)
  BY <1>1, SMT DEF Six, Four, Components
<1> HIDE DEF a, b, c, d, x, y
<1>3. SumOf(f) = a + b + c + d + x + y
  BY <1>2, SumOfSix
<1>4. Points(SumOf(f))
  BY <1>1, <1>3, SMT DEF Points
<1> QED BY <1>4, ScoreIsSum DEF f

\* A term of one word matches where the keyword has the word.
LEMMA WordMatches ==
    ASSUME NEW S, NEW k \in Seq(S), NEW w
    PROVE  <<w>> \in Cases!O!SubSeqs(k) <=> \E n \in 1..Len(k) : k[n] = w
<1>1. ASSUME NEW i \in 0..Len(k), NEW j \in 0..Len(k), <<w>> = SubSeq(k, i + 1, j)
      PROVE  \E n \in 1..Len(k) : k[n] = w
  <2>1. Len(SubSeq(k, i + 1, j)) = 1 /\ SubSeq(k, i + 1, j)[1] = w
    BY <1>1
  <2>2. j = i + 1
    BY <2>1
  <2>3. k[i + 1] = w
    BY <2>1, <2>2
  <2> QED BY <2>2, <2>3
<1>2. ASSUME NEW n \in 1..Len(k), k[n] = w
      PROVE  \E i, j \in 0..Len(k) : <<w>> = SubSeq(k, i + 1, j)
  <2>1. n - 1 \in 0..Len(k) /\ n \in 0..Len(k) /\ (n - 1) + 1 = n
    OBVIOUS
  <2>2. <<w>> = SubSeq(k, n, n)
    BY <1>2
  <2> QED BY <2>1, <2>2
<1> QED BY <1>1, <1>2 DEF Cases!O!SubSeqs

\* A term of two words matches where the keyword has the one next to the other.
LEMMA PairMatches ==
    ASSUME NEW S, NEW k \in Seq(S), NEW w, NEW x
    PROVE  <<w, x>> \in Cases!O!SubSeqs(k)
             <=> \E n \in 1..Len(k) : n + 1 <= Len(k) /\ k[n] = w /\ k[n + 1] = x
<1>1. ASSUME NEW i \in 0..Len(k), NEW j \in 0..Len(k), <<w, x>> = SubSeq(k, i + 1, j)
      PROVE  \E n \in 1..Len(k) : n + 1 <= Len(k) /\ k[n] = w /\ k[n + 1] = x
  <2>1. /\ Len(SubSeq(k, i + 1, j)) = 2
        /\ SubSeq(k, i + 1, j)[1] = w /\ SubSeq(k, i + 1, j)[2] = x
    BY <1>1
  <2>2. j = i + 2
    BY <2>1
  <2>3. k[i + 1] = w /\ k[i + 2] = x
    BY <2>1, <2>2
  <2> QED BY <2>2, <2>3
<1>2. ASSUME NEW n \in 1..Len(k), n + 1 <= Len(k), k[n] = w, k[n + 1] = x
      PROVE  \E i, j \in 0..Len(k) : <<w, x>> = SubSeq(k, i + 1, j)
  <2>1. n - 1 \in 0..Len(k) /\ n + 1 \in 0..Len(k) /\ (n - 1) + 1 = n
    BY <1>2
  <2>2. <<w, x>> = SubSeq(k, n, n + 1)
    BY <1>2
  <2> QED BY <2>1, <2>2
<1>3. <<w, x>> \in Cases!O!SubSeqs(k)
        <=> \E i, j \in 0..Len(k) : <<w, x>> = SubSeq(k, i + 1, j)
  BY DEF Cases!O!SubSeqs
<1> QED BY <1>1, <1>2, <1>3

\* A keyword has none of the terms.
Clean(k) == \A c \in DOMAIN Cases!O!Lexicon : \A t \in Cases!O!Lexicon[c] :
              t \notin Cases!O!SubSeqs(k)

\* What the rules have against a row, by the rules as they are without settings.
LEMMA ReasonsAre ==
    ASSUME NEW row, NEW reasons, reasons = Cases!O!RuleReasons(row, Cases!O!DefaultRules)
    PROVE  /\ "PRICE_OUT_OF_RANGE" \in reasons <=> ~(row.price >= 15 /\ row.price <= 80)
           /\ reasons = {} <=> /\ row.price >= 15 /\ row.price <= 80
                               /\ row.seasonality \notin Cases!O!HighSeasonality
                               /\ Clean(row.keyword)
<1> DEFINE matched(c) == Cases!O!MatchedTerms(row.keyword, Cases!O!Lexicon[c])
           A == {c \in DOMAIN Cases!O!Lexicon : matched(c) # {}}
           B == IF row.seasonality \in Cases!O!HighSeasonality THEN {"SEASONALITY_HIGH"} ELSE {}
           C == IF row.price >= 15 /\ row.price <= 80 THEN {} ELSE {"PRICE_OUT_OF_RANGE"}
<1>1. /\ Cases!O!DefaultRules.allowHighSeasonality = FALSE
      /\ Cases!O!DefaultRules.minimumPrice = 15 /\ Cases!O!DefaultRules.maximumPrice = 80
  BY DEF Cases!O!DefaultRules
<1>2. reasons = (A \cup B) \cup C
  BY <1>1 DEF Cases!O!RuleReasons, Cases!O!InRange
<1>3. "PRICE_OUT_OF_RANGE" \notin DOMAIN Cases!O!Lexicon
  BY DEF Cases!O!Lexicon
<1>4. \A c \in DOMAIN Cases!O!Lexicon :
        matched(c) = {} <=> \A t \in Cases!O!Lexicon[c] : t \notin Cases!O!SubSeqs(row.keyword)
  BY DEF Cases!O!MatchedTerms
<1>5. A = {} <=> Clean(row.keyword)
  BY <1>4 DEF Clean
<1>6. "PRICE_OUT_OF_RANGE" \notin A /\ "PRICE_OUT_OF_RANGE" \notin B
  BY <1>3
<1>7. B = {} <=> row.seasonality \notin Cases!O!HighSeasonality
  OBVIOUS
<1>8. /\ C = {} <=> row.price >= 15 /\ row.price <= 80
      /\ "PRICE_OUT_OF_RANGE" \in C <=> ~(row.price >= 15 /\ row.price <= 80)
  OBVIOUS
<1> HIDE DEF A, B, C
<1> QED BY <1>2, <1>5, <1>6, <1>7, <1>8

\* The score and the rules draw one line: a price fits to some degree exactly if the
\* rules have nothing against it (priceFitScore, evaluateOpportunityRules).
THEOREM FitMeetsRules ==
    ASSUME NEW row, row.price \in Int
    PROVE  Cases!O!PriceFitScore(row.price) >= 6000
             <=> "PRICE_OUT_OF_RANGE" \notin Cases!O!RuleReasons(row, Cases!O!DefaultRules)
<1> DEFINE p == row.price
           reasons == Cases!O!RuleReasons(row, Cases!O!DefaultRules)
<1>1. "PRICE_OUT_OF_RANGE" \in reasons <=> ~(p >= 15 /\ p <= 80)
  BY ReasonsAre
<1>2. p \in Int
  OBVIOUS
<1> HIDE DEF p, reasons
<1>3. Cases!O!PriceFitScore(p) >= 6000 <=> p >= 15 /\ p <= 80
  BY <1>2, FitIs
<1> QED BY <1>1, <1>3 DEF p, reasons

Screened(row) == Cases!O!CandidateState(row) = "AI Screening"

LEMMA ScreenedIs ==
    ASSUME NEW row
    PROVE  Screened(row) <=> Cases!O!RuleReasons(row, Cases!O!DefaultRules) = {}
<1>1. Cases!O!RuleEvaluation(row, Cases!O!DefaultRules).passed
        = (Cases!O!RuleReasons(row, Cases!O!DefaultRules) = {})
  BY DEF Cases!O!RuleEvaluation
<1>2. "AI Screening" # "Reject"
  BY Zenon
<1> QED BY <1>1, <1>2, Zenon DEF Screened, Cases!O!CandidateState

LEMMA TermsAre ==
    ASSUME NEW k
    PROVE  Clean(k) <=>
             \A t \in {<<"cordless">>, <<"usb", "powered">>, <<"halloween">>, <<"7th", "birthday">>,
                       <<"disney">>, <<"star", "wars">>, <<"best", "sellers">>, <<"glass">>,
                       <<"for", "dogs">>} : t \notin Cases!O!SubSeqs(k)
BY DEF Clean, Cases!O!Lexicon

LEMMA ShortSequences ==
    ASSUME NEW S, NEW a \in S, NEW b \in S, NEW c \in S
    PROVE  <<a, b>> \in Seq(S) /\ <<a, b, c>> \in Seq(S)
OBVIOUS

\* Of the keywords that are asked about, two have none of the terms.
LEMMA KeywordsClean ==
    ASSUME NEW k \in Cases!Keywords
    PROVE  Clean(k) <=> k \notin {<<"glass", "lamp">>, <<"usb", "powered", "lamp">>}
<1>1. \/ k = <<"glass", "lamp">> \/ k = <<"usb", "lamp", "powered">>
      \/ k = <<"usb", "powered", "lamp">> \/ k = <<"oak", "utensil">>
  BY DEF Cases!Keywords
<1> DEFINE W == {"glass", "lamp", "usb", "powered", "oak", "utensil"}
<1>2. k \in Seq(W)
  <2>1. /\ "glass" \in W /\ "lamp" \in W /\ "usb" \in W /\ "powered" \in W
        /\ "oak" \in W /\ "utensil" \in W
    OBVIOUS
  <2> HIDE DEF W
  <2> QED BY <1>1, <2>1, ShortSequences
<1> HIDE DEF W
<1>3. /\ \A w : <<w>> \in Cases!O!SubSeqs(k) <=> \E n \in 1..Len(k) : k[n] = w
      /\ \A w, x : <<w, x>> \in Cases!O!SubSeqs(k)
                     <=> \E n \in 1..Len(k) : n + 1 <= Len(k) /\ k[n] = w /\ k[n + 1] = x
  BY <1>2, WordMatches, PairMatches
<1>4. Clean(k) \in BOOLEAN
  BY DEF Clean
<1>5. CASE k = <<"glass", "lamp">>
  <2>1. <<"glass">> \in Cases!O!SubSeqs(k)
    <3>1. 1 \in 1..Len(k) /\ k[1] = "glass"
      BY <1>5
    <3> QED BY <1>3, <3>1
  <2>2. ~Clean(k)
    BY <1>4, <2>1, TermsAre
  <2> QED BY <1>5, <2>2
<1>6. CASE k = <<"usb", "powered", "lamp">>
  <2>1. <<"usb", "powered">> \in Cases!O!SubSeqs(k)
    <3>1. 1 \in 1..Len(k) /\ 1 + 1 <= Len(k) /\ k[1] = "usb" /\ k[1 + 1] = "powered"
      BY <1>6
    <3> QED BY <1>3, <3>1
  <2>2. ~Clean(k)
    BY <1>4, <2>1, TermsAre
  <2> QED BY <1>6, <2>2
<1>7. ASSUME \A n \in 1..Len(k) : k[n] \notin {"cordless", "halloween", "disney", "glass",
                                             "7th", "star", "best", "for"},
             \A n \in 1..Len(k) : n + 1 <= Len(k) => ~(k[n] = "usb" /\ k[n + 1] = "powered")
      PROVE  Clean(k)
  <2>1. /\ <<"cordless">> \notin Cases!O!SubSeqs(k) /\ <<"halloween">> \notin Cases!O!SubSeqs(k)
        /\ <<"disney">> \notin Cases!O!SubSeqs(k) /\ <<"glass">> \notin Cases!O!SubSeqs(k)
    BY <1>3, <1>7
  <2>2. /\ <<"usb", "powered">> \notin Cases!O!SubSeqs(k)
        /\ <<"7th", "birthday">> \notin Cases!O!SubSeqs(k)
        /\ <<"star", "wars">> \notin Cases!O!SubSeqs(k)
        /\ <<"best", "sellers">> \notin Cases!O!SubSeqs(k)
        /\ <<"for", "dogs">> \notin Cases!O!SubSeqs(k)
    BY <1>3, <1>7
  <2> QED BY <1>4, <2>1, <2>2, TermsAre
<1>8. CASE k = <<"usb", "lamp", "powered">>
  <2>1. Len(k) = 3 /\ k[1] = "usb" /\ k[2] = "lamp" /\ k[3] = "powered"
    BY <1>8
  <2>2. Clean(k)
    BY <1>7, <2>1
  <2>3. k # <<"glass", "lamp">> /\ k # <<"usb", "powered", "lamp">>
    BY <2>1
  <2> QED BY <2>2, <2>3
<1>9. CASE k = <<"oak", "utensil">>
  <2>1. Len(k) = 2 /\ k[1] = "oak" /\ k[2] = "utensil"
    BY <1>9
  <2>2. Clean(k)
    BY <1>7, <2>1
  <2>3. k # <<"glass", "lamp">> /\ k # <<"usb", "powered", "lamp">>
    BY <2>1
  <2> QED BY <2>2, <2>3
<1> QED BY <1>1, <1>5, <1>6, <1>8, <1>9

LEMMA FiveInPlace ==
    ASSUME NEW a, NEW b, NEW c, NEW d, NEW e
    PROVE  <<a, b, c, d, e>>[1] = a /\ <<a, b, c, d, e>>[4] = d
OBVIOUS

LEMMA LevelsRanked ==
    ASSUME NEW l \in Cases!Levels
    PROVE  /\ l \in {Cases!O!Rank[n] : n \in 1..5}
           /\ l \in Cases!O!HighSeasonality <=> l = "High"
<1>1. Cases!O!Rank[1] = "Very Low" /\ Cases!O!Rank[4] = "High"
  BY FiveInPlace, Zenon DEF Cases!O!Rank
<1>2. 1 \in 1..5 /\ 4 \in 1..5
  BY SMT
<1>3. l = "Very Low" \/ l = "High"
  BY Zenon DEF Cases!Levels
<1>4. l = Cases!O!Rank[1] \/ l = Cases!O!Rank[4]
  BY <1>1, <1>3, Zenon
<1>5. l \in {Cases!O!Rank[n] : n \in 1..5}
  BY <1>2, <1>4, SMT
<1>6. l \in Cases!O!HighSeasonality <=> l = "High"
  BY <1>3, Zenon DEF Cases!O!HighSeasonality
<1> QED BY <1>5, <1>6, Zenon

LEMMA RowQuestion ==
    ASSUME NEW q \in Cases!ScoreQuestions
    PROVE  RowOf(q) /\ q.keyword \in Cases!Keywords /\ q.seasonality \in Cases!Levels
<1>1. PICK k \in Cases!Keywords, p \in {14, 15, 24, 25, 50, 51, 80, 81}, u \in {0, 3600},
           b \in BOOLEAN, t \in {-100, 20}, c \in Cases!Levels, s \in Cases!Levels :
        q = [kind |-> "row", keyword |-> k, price |-> p, units |-> u, volume |-> 4000,
             isUpperBound |-> b, trend30 |-> t, trend90 |-> t, nicheScore |-> 9,
             competition |-> c, seasonality |-> s]
  BY DEF Cases!ScoreQuestions
<1>2. c \in {Cases!O!Rank[n] : n \in 1..5} /\ s \in {Cases!O!Rank[n] : n \in 1..5}
  BY LevelsRanked
<1>3. /\ q.price = p /\ q.units = u /\ q.volume = 4000 /\ q.isUpperBound = b
      /\ q.trend30 = t /\ q.trend90 = t /\ q.nicheScore = 9
      /\ q.competition = c /\ q.seasonality = s /\ q.keyword = k
  BY <1>1, SMT
<1> QED BY <1>2, <1>3, SMT DEF RowOf

\* A candidate begins as one to be screened exactly if its row's price is in range,
\* its niche not too seasonal, and no term of a lexicon is in its keyword, as whole
\* words next to each other (evaluateOpportunityRules, runImportJob).
THEOREM ScreenedIfClean ==
    ASSUME NEW row
    PROVE  Screened(row) <=> /\ row.price >= 15 /\ row.price <= 80
                             /\ row.seasonality \notin Cases!O!HighSeasonality
                             /\ Clean(row.keyword)
<1> DEFINE reasons == Cases!O!RuleReasons(row, Cases!O!DefaultRules)
<1>1. Screened(row) <=> reasons = {}
  BY ScreenedIs
<1> HIDE DEF reasons
<1>2. reasons = {} <=> /\ row.price >= 15 /\ row.price <= 80
                       /\ row.seasonality \notin Cases!O!HighSeasonality
                       /\ Clean(row.keyword)
  BY ReasonsAre DEF reasons
<1> QED BY <1>1, <1>2

LEMMA PointsAre ==
    ASSUME NEW x, Points(x)
    PROVE  x \in Cases!Percentage
BY SMT DEF Points, Cases!Percentage

\* Of every row that is asked about: its score is a percentage, its price fits as far
\* as the rules allow, and it is screened exactly if they object to nothing.
LEMMA RowsHold ==
    ASSUME Cases!Asked("row") => /\ question \in Cases!ScoreQuestions
                                 /\ answer = Cases!RowAnswer(question)
    PROVE  Cases!RowScored
<1> SUFFICES ASSUME Cases!Asked("row")
             PROVE  /\ answer.score \in Cases!Percentage
                    /\ answer.fit >= 6000 <=> "PRICE_OUT_OF_RANGE" \notin answer.reasons
                    /\ answer.state = Cases!Screening <=>
                         /\ answer.fit > 0 /\ question.seasonality # "High"
                         /\ question.keyword \notin {<<"glass", "lamp">>,
                                                     <<"usb", "powered", "lamp">>}
  BY SMT DEF Cases!RowScored
<1> DEFINE q == question
           k == q.keyword
           p == q.price
           s == q.seasonality
<1>1. q \in Cases!ScoreQuestions
  BY Zenon
<1>2. /\ answer.score = Cases!O!PreliminaryScore(q)
      /\ answer.fit = Cases!O!PriceFitScore(p)
      /\ answer.reasons = Cases!O!RuleEvaluation(q, Cases!O!DefaultRules).reasons
      /\ answer.state = Cases!O!CandidateState(q)
  BY SMT DEF Cases!RowAnswer
<1> HIDE DEF q
<1>3. RowOf(q) /\ k \in Cases!Keywords /\ s \in Cases!Levels
  BY <1>1, RowQuestion, SMT
<1>4. answer.score \in Cases!Percentage
  <2>1. Points(Cases!O!PreliminaryScore(q))
    BY <1>3, ScoreIsPercentage, SMT
  <2> QED BY <1>2, <2>1, PointsAre
<1>5. p \in Int
  BY <1>3, SMT DEF RowOf
<1>6. answer.fit >= 6000 <=> "PRICE_OUT_OF_RANGE" \notin answer.reasons
  <2>1. answer.reasons = Cases!O!RuleReasons(q, Cases!O!DefaultRules)
    BY <1>2, SMT DEF Cases!O!RuleEvaluation
  <2> QED BY <1>2, <1>5, <2>1, FitMeetsRules, SMT
<1>7. Screened(q) <=> p >= 15 /\ p <= 80 /\ s \notin Cases!O!HighSeasonality /\ Clean(k)
  BY ScreenedIfClean, SMT
<1> HIDE DEF k, p, s
<1>8. answer.fit > 0 <=> p >= 15 /\ p <= 80
  BY <1>2, <1>5, FitIs, SMT
<1>9. s \in Cases!O!HighSeasonality <=> s = "High"
  BY <1>3, LevelsRanked, SMT
<1>10. Clean(k) <=> k \notin {<<"glass", "lamp">>, <<"usb", "powered", "lamp">>}
  BY <1>3, KeywordsClean, SMT
<1>11. Screened(q) <=> /\ answer.fit > 0 /\ s # "High"
                       /\ k \notin {<<"glass", "lamp">>, <<"usb", "powered", "lamp">>}
  BY <1>7, <1>8, <1>9, <1>10, SMT
<1>12. answer.state = Cases!Screening <=> Screened(q)
  BY <1>2, Zenon DEF Screened, Cases!Screening
<1> QED BY <1>4, <1>6, <1>11, <1>12, SMT DEF q, k, s

-----------------------------------------------------------------------------
(***************************************************************************)
(* What a candidate needs                                                  *)
(*                                                                         *)
(* What the rows tell of a candidate, whatever they are, and the jobs it   *)
(* gets.                                                                   *)
(***************************************************************************)

\* R compares any two members of S, and does so consistently.
Orders(R, S) ==
    /\ \A x, y \in S : <<x, y>> \in R \/ <<y, x>> \in R
    /\ \A x, y, z \in S : <<x, y>> \in R /\ <<y, z>> \in R => <<x, z>> \in R

\* A finite set has a member that comes before all.
LEMMA FirstExists ==
    ASSUME NEW S, IsFiniteSet(S), S # {}, NEW R, Orders(R, S)
    PROVE  \E x \in S : \A y \in S : <<x, y>> \in R
<1> DEFINE First(t) == \E x \in t : \A y \in t : <<x, y>> \in R
           Unordered == {t \in SUBSET S : t # {} /\ ~First(t)}
<1>1. ASSUME Unordered # {}
      PROVE  FALSE
  <2>1. IsWellFoundedOn(StrictSubsetOrdering(S), SUBSET S)
    BY FS_StrictSubsetOrderingWellFounded, FS_FiniteSubsetsOfFinite
  <2>2. PICK t \in Unordered : \A u \in Unordered : ~(<<u, t>> \in StrictSubsetOrdering(S))
    BY <1>1, <2>1, WFMin
  <2>3. PICK x \in t : TRUE
    OBVIOUS
  <2> DEFINE u == t \ {x}
  <2>4. u \in SUBSET S /\ <<u, t>> \in StrictSubsetOrdering(S)
    BY DEF StrictSubsetOrdering
  <2>5. u = {} \/ First(u)
    BY <2>2, <2>4
  <2>6. <<x, x>> \in R
    BY DEF Orders
  <2>7. CASE u = {}
    <3>1. t = {x}
      BY <2>7
    <3> QED BY <2>6, <3>1
  <2>8. CASE First(u)
    <3>1. PICK y \in u : \A z \in u : <<y, z>> \in R
      BY <2>8
    <3>2. CASE <<y, x>> \in R
      <4>1. \A z \in t : <<y, z>> \in R
        BY <3>1, <3>2
      <4> QED BY <4>1
    <3>3. CASE <<x, y>> \in R
      <4>1. \A z \in t : <<x, z>> \in R
        BY <2>6, <3>1, <3>3 DEF Orders
      <4> QED BY <4>1
    <3> QED BY <3>2, <3>3 DEF Orders
  <2> QED BY <2>5, <2>7, <2>8
<1>2. First(S)
  BY <1>1
<1> QED BY <1>2

\* Rows as the tables have them: each has an identifier of its own.
RowsOf(found) ==
    /\ IsFiniteSet(found)
    /\ \A r \in found : r.id \in Int /\ r.at \in Int /\ r.observed \in Int
    /\ \A r, s \in found : r.id = s.id => r = s

After(r, s) == r.at > s.at \/ (r.at = s.at /\ r.id >= s.id)

LEMMA LastRow ==
    ASSUME NEW found, RowsOf(found), found # {}
    PROVE  /\ Cases!N!LatestRow(found) \in found
           /\ \A s \in found : After(Cases!N!LatestRow(found), s)
<1> DEFINE R == {p \in found \X found : After(p[1], p[2])}
<1>1. \A r, s \in found : <<r, s>> \in R <=> After(r, s)
  OBVIOUS
<1>2. \A r, s \in found : After(r, s) \/ After(s, r)
  BY DEF RowsOf, After
<1>3. \A r, s, t \in found : After(r, s) /\ After(s, t) => After(r, t)
  BY DEF RowsOf, After
<1> HIDE DEF R
<1>4. Orders(R, found)
  BY <1>1, <1>2, <1>3 DEF Orders
<1>5. \E r \in found : \A s \in found : <<r, s>> \in R
  BY <1>4, FirstExists DEF RowsOf
<1>6. \E r \in found : \A s \in found : After(r, s)
  BY <1>1, <1>5
<1>7. Cases!N!LatestRow(found) = CHOOSE r \in found : \A s \in found : After(r, s)
  BY DEF Cases!N!LatestRow, After
<1> QED BY <1>6, <1>7

\* The last of the rows tells what is asked, and has done so for less than life days.
Known(found, life, now) ==
    \E r \in found : /\ r.observed # -1 /\ r.observed <= now /\ now - r.observed < life
                    /\ \A s \in found : After(r, s)

LEMMA FreshIsKnown ==
    ASSUME NEW found, RowsOf(found), NEW life \in Int, NEW now \in Int
    PROVE  Cases!N!Fresh(Cases!N!ObservationAt(Cases!N!LatestRow(found), now), life, now)
             <=> Known(found, life, now)
<1> DEFINE l == Cases!N!LatestRow(found)
           o == Cases!N!ObservationAt(l, now)
<1>1. CASE found = {}
  <2>1. l.observed = -1
    BY <1>1 DEF Cases!N!LatestRow, Cases!N!None
  <2>2. o = -1
    BY <2>1 DEF Cases!N!ObservationAt, Cases!N!None
  <2> QED BY <1>1, <2>2 DEF Cases!N!Fresh, Cases!N!None, Known
<1>2. CASE found # {}
  <2>1. l \in found /\ \A s \in found : After(l, s)
    BY <1>2, LastRow
  <2>2. \A r \in found : (\A s \in found : After(r, s)) => r = l
    <3>1. ASSUME NEW r \in found, \A s \in found : After(r, s)
          PROVE  r = l
      <4>1. After(r, l) /\ After(l, r)
        BY <2>1, <3>1
      <4>2. r.id = l.id
        BY <2>1, <4>1 DEF After, RowsOf
      <4> QED BY <2>1, <4>2 DEF RowsOf
    <3> QED BY <3>1
  <2>3. l.observed \in Int
    BY <2>1 DEF RowsOf
  <2> HIDE DEF l
  <2>4. o = IF l.observed <= now THEN l.observed ELSE -1
    BY DEF Cases!N!ObservationAt, Cases!N!None
  <2>5. Cases!N!Fresh(o, life, now) <=>
          l.observed # -1 /\ l.observed <= now /\ now - l.observed < life
    BY <2>3, <2>4 DEF Cases!N!Fresh, Cases!N!None
  <2>6. Known(found, life, now) <=>
          l.observed # -1 /\ l.observed <= now /\ now - l.observed < life
    BY <2>1, <2>2 DEF Known
  <2> QED BY <2>5, <2>6 DEF l
<1> QED BY <1>1, <1>2

\* The rows that tell what an endpoint answered, and the days they do.
RowsFor(e, results, snapshots) ==
    IF e = "product_database" THEN snapshots ELSE {r \in results : r.endpoint = e}
LifeOf(e, days) == IF e = "product_database" THEN days ELSE Cases!N!CacheTtl[e]

LEMMA RowsForTyped ==
    ASSUME NEW results, NEW snapshots, RowsOf(results), RowsOf(snapshots), NEW e
    PROVE  RowsOf(RowsFor(e, results, snapshots))
<1>1. CASE e = "product_database"
  BY <1>1 DEF RowsFor
<1>2. CASE e # "product_database"
  <2> DEFINE S == {r \in results : r.endpoint = e}
  <2>1. IsFiniteSet(S)
    BY FS_Subset DEF RowsOf
  <2>2. RowsOf(S)
    BY <2>1 DEF RowsOf
  <2> QED BY <1>2, <2>2 DEF RowsFor
<1> QED BY <1>1, <1>2

LEMMA LifeOfTyped ==
    ASSUME NEW e \in Cases!N!Endpoint, NEW days \in Int
    PROVE  LifeOf(e, days) \in Int
BY DEF LifeOf, Cases!N!Endpoint, Cases!N!CacheTtl

\* What is missing of a candidate is what it may be asked and the last row does not
\* tell any more.
LEMMA MissingIs ==
    ASSUME NEW admitted \in SUBSET Cases!N!Endpoint, NEW results, NEW snapshots,
           RowsOf(results), RowsOf(snapshots), NEW days \in Int, NEW now \in Int
    PROVE  Cases!N!Missing(admitted, results, snapshots, days, now)
             = {e \in admitted : ~Known(RowsFor(e, results, snapshots), LifeOf(e, days), now)}
<1>1. ASSUME NEW e \in admitted
      PROVE  e \in Cases!N!Missing(admitted, results, snapshots, days, now)
               <=> ~Known(RowsFor(e, results, snapshots), LifeOf(e, days), now)
  <2> DEFINE found == RowsFor(e, results, snapshots)
             life == LifeOf(e, days)
  <2>1. RowsOf(found) /\ life \in Int
    BY RowsForTyped, LifeOfTyped
  <2>2. Cases!N!Fresh(Cases!N!ObservationAt(Cases!N!LatestRow(found), now), life, now)
          <=> Known(found, life, now)
    BY <2>1, FreshIsKnown
  <2>3. e \in Cases!N!Missing(admitted, results, snapshots, days, now)
          <=> ~Cases!N!Fresh(Cases!N!ObservationAt(Cases!N!LatestRow(found), now), life, now)
    <3>1. CASE e = "product_database"
      BY <3>1 DEF Cases!N!Missing, RowsFor, LifeOf
    <3>2. CASE e # "product_database"
      BY <3>2 DEF Cases!N!Missing, RowsFor, LifeOf
    <3> QED BY <3>1, <3>2
  <2> QED BY <2>2, <2>3
<1>2. Cases!N!Missing(admitted, results, snapshots, days, now) \subseteq admitted
  BY DEF Cases!N!Missing
<1> QED BY <1>1, <1>2

\* What is missing stays missing until it is asked: time alone makes nothing known,
\* unless a row was observed later than now (missingAdmittedEndpoints).
LEMMA MissingStays ==
    ASSUME NEW admitted \in SUBSET Cases!N!Endpoint, NEW results, NEW snapshots,
           RowsOf(results), RowsOf(snapshots), NEW days \in Int,
           NEW now \in Int, NEW later \in Int, now <= later,
           \A r \in results \cup snapshots : r.observed <= now
    PROVE  Cases!N!Missing(admitted, results, snapshots, days, now)
             \subseteq Cases!N!Missing(admitted, results, snapshots, days, later)
<1>1. ASSUME NEW e \in admitted, Known(RowsFor(e, results, snapshots), LifeOf(e, days), later)
      PROVE  Known(RowsFor(e, results, snapshots), LifeOf(e, days), now)
  <2>1. PICK r \in RowsFor(e, results, snapshots) :
          /\ r.observed # -1 /\ r.observed <= later /\ later - r.observed < LifeOf(e, days)
          /\ \A s \in RowsFor(e, results, snapshots) : After(r, s)
    BY <1>1 DEF Known
  <2>2. r \in results \cup snapshots
    BY DEF RowsFor
  <2>3. r.observed \in Int /\ LifeOf(e, days) \in Int /\ r.observed <= now
    BY <2>2, LifeOfTyped DEF RowsOf
  <2>4. now - r.observed < LifeOf(e, days)
    BY <2>1, <2>3
  <2> QED BY <2>1, <2>3, <2>4 DEF Known
<1> QED BY <1>1, MissingIs

\* The three jobs that there may be for a candidate, and when there are.
LEMMA ChildrenAre ==
    ASSUME NEW item, NEW id, NEW mode, NEW admitted \in SUBSET Cases!N!Endpoint,
           NEW missing \in SUBSET admitted, NEW suffix
    PROVE  \E probe, deep, enrich :
             /\ probe.type = "MARKET_PROBE" /\ deep.type = "DEEP_VALIDATION"
             /\ enrich.type = "ENRICH_STRONG_POTENTIAL"
             /\ probe.purpose = "strong_revalidation" =>
                  item.bucket = "strong" \/ mode = "override-reserve"
             /\ deep.purpose = "any" /\ enrich.purpose = "any" /\ deep.key # enrich.key
             /\ Cases!N!Children(item, id, mode, admitted, missing, suffix) =
                  IF "product_database" \in missing THEN {probe}
                  ELSE (IF "keywords_by_keyword" \in missing THEN {deep} ELSE {})
                       \cup (IF missing \cap Cases!N!Enrichment # {} THEN {enrich} ELSE {})
<1> DEFINE new == Cases!N!Children(item, id, mode, admitted, missing, suffix)
           Key(of) == [run |-> id, bucket |-> item.bucket, id |-> item.id, part |-> of,
                       suffix |-> IF of = "probe" THEN <<>> ELSE suffix]
           probe == [type |-> "MARKET_PROBE", key |-> Key("probe"),
                     purpose |-> Cases!N!Purpose(item, mode)]
           deep == [type |-> "DEEP_VALIDATION", key |-> Key("deep"), purpose |-> "any"]
           enrich == [type |-> "ENRICH_STRONG_POTENTIAL", key |-> Key("enrich"), purpose |-> "any"]
           probes == "product_database" \in missing
           deeper == "keywords_by_keyword" \in missing
           enriched == missing \cap Cases!N!Enrichment # {}
<1>1. new = IF probes THEN {probe}
            ELSE (IF deeper THEN {deep} ELSE {}) \cup (IF enriched THEN {enrich} ELSE {})
  <2>1. CASE probes
    BY <2>1 DEF Cases!N!Children, Cases!N!ProbeFirst
  <2>2. CASE ~probes
    <3>1. {deep : e \in missing \cap {"keywords_by_keyword"}} = IF deeper THEN {deep} ELSE {}
      OBVIOUS
    <3>2. {enrich : e \in missing \cap Cases!N!Enrichment} = IF enriched THEN {enrich} ELSE {}
      OBVIOUS
    <3>3. new = {deep : e \in missing \cap {"keywords_by_keyword"}}
                \cup {enrich : e \in missing \cap Cases!N!Enrichment}
      BY <2>2 DEF Cases!N!Children, Cases!N!ProbeFirst
    <3> QED BY <2>2, <3>1, <3>2, <3>3
  <2> QED BY <2>1, <2>2
<1>2. deep.key # enrich.key
  <2>1. deep.key.part = "deep" /\ enrich.key.part = "enrich"
    OBVIOUS
  <2> QED BY <2>1
<1>3. probe.purpose = "strong_revalidation" => item.bucket = "strong" \/ mode = "override-reserve"
  BY DEF Cases!N!Purpose
<1>4. /\ probe.type = "MARKET_PROBE" /\ deep.type = "DEEP_VALIDATION"
      /\ enrich.type = "ENRICH_STRONG_POTENTIAL"
      /\ deep.purpose = "any" /\ enrich.purpose = "any"
  OBVIOUS
<1> HIDE DEF new, probe, deep, enrich
<1> QED BY <1>1, <1>2, <1>3, <1>4 DEF new

LEMMA JobsIfMissing ==
    ASSUME NEW item, NEW id, NEW mode, NEW admitted \in SUBSET Cases!N!Endpoint,
           NEW missing \in SUBSET admitted, NEW suffix
    PROVE  Cases!N!Children(item, id, mode, admitted, missing, suffix) = {} <=> missing = {}
<1>1. missing = {} <=>
        ~("product_database" \in missing) /\ ~("keywords_by_keyword" \in missing)
        /\ ~(missing \cap Cases!N!Enrichment # {})
  BY DEF Cases!N!Endpoint, Cases!N!CacheTtl, Cases!N!Enrichment
<1> DEFINE probes == "product_database" \in missing
           deeper == "keywords_by_keyword" \in missing
           enriched == missing \cap Cases!N!Enrichment # {}
<1> HIDE DEF probes, deeper, enriched
<1>2. PICK probe, deep, enrich :
        /\ probe.type = "MARKET_PROBE" /\ deep.type = "DEEP_VALIDATION"
        /\ enrich.type = "ENRICH_STRONG_POTENTIAL"
        /\ probe.purpose = "strong_revalidation" =>
             item.bucket = "strong" \/ mode = "override-reserve"
        /\ deep.purpose = "any" /\ enrich.purpose = "any" /\ deep.key # enrich.key
        /\ Cases!N!Children(item, id, mode, admitted, missing, suffix) =
             IF probes THEN {probe}
             ELSE (IF deeper THEN {deep} ELSE {}) \cup (IF enriched THEN {enrich} ELSE {})
  BY ChildrenAre DEF probes, deeper, enriched
<1> QED BY <1>1, <1>2 DEF probes, deeper, enriched

\* The jobs for a candidate: some exactly if something is missing, the product database
\* first and alone, the others for what is missing only and under keys of their own,
\* the reserve for strong candidates and overrides (enqueueDecisionAwareChild).
THEOREM JobsAskWhatIsMissing ==
    ASSUME NEW item, NEW id, NEW mode, NEW admitted \in SUBSET Cases!N!Endpoint,
           NEW missing \in SUBSET admitted, NEW suffix,
           NEW new, new = Cases!N!Children(item, id, mode, admitted, missing, suffix)
    PROVE  /\ new = {} <=> missing = {}
           /\ \A i, j \in new : i.key = j.key => i = j
           /\ \A j \in new :
                /\ j.type = "MARKET_PROBE" => "product_database" \in missing /\ new = {j}
                /\ j.type = "DEEP_VALIDATION" =>
                     "keywords_by_keyword" \in missing /\ "product_database" \notin missing
                /\ j.type = "ENRICH_STRONG_POTENTIAL" =>
                     missing \cap Cases!N!Enrichment # {} /\ "product_database" \notin missing
                /\ j.purpose = "strong_revalidation" =>
                     item.bucket = "strong" \/ mode = "override-reserve"
<1>1. new = {} <=> missing = {}
  BY JobsIfMissing
<1> DEFINE probes == "product_database" \in missing
           deeper == "keywords_by_keyword" \in missing
           enriched == missing \cap Cases!N!Enrichment # {}
<1> HIDE DEF probes, deeper, enriched
<1>2. PICK probe, deep, enrich :
        /\ probe.type = "MARKET_PROBE" /\ deep.type = "DEEP_VALIDATION"
        /\ enrich.type = "ENRICH_STRONG_POTENTIAL"
        /\ probe.purpose = "strong_revalidation" =>
             item.bucket = "strong" \/ mode = "override-reserve"
        /\ deep.purpose = "any" /\ enrich.purpose = "any" /\ deep.key # enrich.key
        /\ new = IF probes THEN {probe}
                 ELSE (IF deeper THEN {deep} ELSE {}) \cup (IF enriched THEN {enrich} ELSE {})
  BY ChildrenAre DEF probes, deeper, enriched
<1>3. \A i, j \in new : i.key = j.key => i = j
  BY <1>2
<1>4. ASSUME NEW j \in new
      PROVE  /\ j.type = "MARKET_PROBE" => probes /\ new = {j}
             /\ j.type = "DEEP_VALIDATION" => deeper /\ ~probes
             /\ j.type = "ENRICH_STRONG_POTENTIAL" => enriched /\ ~probes
             /\ j.purpose = "strong_revalidation" =>
                  item.bucket = "strong" \/ mode = "override-reserve"
  BY <1>2
<1> QED BY <1>1, <1>3, <1>4 DEF probes, deeper, enriched

\* No slot of a plan is wasted: a candidate that is planned gets jobs whenever its turn
\* comes, and one that is not planned would get none (selectResearchPlan,
\* enqueueDecisionAwareChild).
THEOREM PlannedGetsJobs ==
    ASSUME NEW c, NEW admitted \in SUBSET Cases!N!Endpoint, NEW results, NEW snapshots,
           RowsOf(results), RowsOf(snapshots),
           NEW freshness \in [{"strong", "watch", "new"} -> Int],
           NEW now \in Int, NEW later \in Int, now <= later,
           \A r \in results \cup snapshots : r.observed <= now, NEW id, NEW mode, NEW suffix
    PROVE  LET item == Cases!N!DailyCandidate(c, admitted, results, snapshots, freshness, now)
               Jobs(at) == Cases!N!Children(item, id, mode, admitted,
                             Cases!N!Missing(admitted, results, snapshots,
                                             freshness[item.bucket], at), suffix) IN
           /\ ~item.isFresh => Jobs(later) # {}
           /\ item.isFresh => Jobs(now) = {}
<1> DEFINE item == Cases!N!DailyCandidate(c, admitted, results, snapshots, freshness, now)
           Missing(at) == Cases!N!Missing(admitted, results, snapshots,
                                          freshness[item.bucket], at)
           Jobs(at) == Cases!N!Children(item, id, mode, admitted, Missing(at), suffix)
<1>1. item.bucket = Cases!N!BucketOf(c.state, c.strong)
  BY DEF Cases!N!DailyCandidate
<1>2. item.isFresh <=> Missing(now) = {}
  BY <1>1 DEF Cases!N!DailyCandidate, Cases!N!UpToDate
<1>3. freshness[item.bucket] \in Int
  BY <1>1 DEF Cases!N!BucketOf
<1> HIDE DEF item
<1>4. Missing(now) \subseteq Missing(later)
  BY <1>3, MissingStays
<1>5. Missing(now) \in SUBSET admitted /\ Missing(later) \in SUBSET admitted
  BY DEF Cases!N!Missing
<1> HIDE DEF Missing
<1>6. Jobs(now) = {} <=> Missing(now) = {}
  BY <1>5, JobsIfMissing
<1>7. Jobs(later) = {} <=> Missing(later) = {}
  BY <1>5, JobsIfMissing
<1>8. (~item.isFresh => Jobs(later) # {}) /\ (item.isFresh => Jobs(now) = {})
  BY <1>2, <1>4, <1>6, <1>7
<1> QED BY <1>8 DEF item, Missing

-----------------------------------------------------------------------------
(***************************************************************************)
(* The needs that are asked about                                          *)
(***************************************************************************)

LEMMA ResultsTyped ==
    ASSUME NEW e, NEW found \in Cases!Results(e)
    PROVE  /\ RowsOf(found)
           /\ \A r \in found : r.endpoint = e /\ r.at = 10 /\ r.id \in {1, 2}
<1>1. ASSUME NEW id, NEW o
      PROVE  LET r == Cases!Result(e, id, o) IN
             r.endpoint = e /\ r.at = 10 /\ r.id = id /\ r.observed = o
  BY DEF Cases!Result
<1>2. CASE found = {}
  BY <1>2, FS_EmptySet DEF RowsOf
<1>3. ASSUME NEW o \in {-1, 13, 14, 19, 21}, found = {Cases!Result(e, 1, o)}
      PROVE  /\ RowsOf(found)
             /\ \A r \in found : r.endpoint = e /\ r.at = 10 /\ r.id \in {1, 2}
  <2>1. IsFiniteSet(found)
    BY <1>3, FS_Singleton
  <2> QED BY <1>1, <1>3, <2>1 DEF RowsOf
<1>4. ASSUME NEW o \in {-1, 13, 14, 19, 21}, NEW p \in {-1, 13, 14, 19, 21},
             found = {Cases!Result(e, 1, o), Cases!Result(e, 2, p)}
      PROVE  /\ RowsOf(found)
             /\ \A r \in found : r.endpoint = e /\ r.at = 10 /\ r.id \in {1, 2}
  <2> DEFINE one == Cases!Result(e, 1, o)
             two == Cases!Result(e, 2, p)
  <2>1. found = {one} \cup {two}
    BY <1>4
  <2>2. IsFiniteSet(found)
    <3> HIDE DEF one, two
    <3> QED BY <2>1, FS_Singleton, FS_AddElement
  <2>3. /\ one.endpoint = e /\ one.at = 10 /\ one.id = 1 /\ one.observed = o
        /\ two.endpoint = e /\ two.at = 10 /\ two.id = 2 /\ two.observed = p
    BY <1>1
  <2> HIDE DEF one, two
  <2>4. \A r \in found : r.id \in Int /\ r.at \in Int /\ r.observed \in Int
    BY <2>1, <2>3
  <2>5. \A r, s \in found : r.id = s.id => r = s
    BY <2>1, <2>3
  <2>6. \A r \in found : r.endpoint = e /\ r.at = 10 /\ r.id \in {1, 2}
    BY <2>1, <2>3
  <2> QED BY <2>2, <2>4, <2>5, <2>6 DEF RowsOf
<1>5. \/ found = {}
      \/ \E o \in {-1, 13, 14, 19, 21} : found = {Cases!Result(e, 1, o)}
      \/ found = {Cases!Result(e, 1, 19), Cases!Result(e, 2, -1)}
      \/ found = {Cases!Result(e, 1, 13), Cases!Result(e, 2, 19)}
      \/ found = {Cases!Result(e, 1, 19), Cases!Result(e, 2, 13)}
  BY DEF Cases!Results, Cases!N!None
<1>6. CASE found = {Cases!Result(e, 1, 19), Cases!Result(e, 2, -1)}
  BY <1>4, <1>6
<1>7. CASE found = {Cases!Result(e, 1, 13), Cases!Result(e, 2, 19)}
  BY <1>4, <1>7
<1>8. CASE found = {Cases!Result(e, 1, 19), Cases!Result(e, 2, 13)}
  BY <1>4, <1>8
<1> QED BY <1>2, <1>3, <1>5, <1>6, <1>7, <1>8

\* What is asked about a candidate's needs, and what it is made of.
LEMMA NeedQuestion ==
    ASSUME NEW q \in Cases!NeedQuestions
    PROVE  /\ q.admitted \subseteq {"product_database", "keywords_by_keyword", "sales_estimates"}
           /\ q.admitted \in SUBSET Cases!N!Endpoint
           /\ q.later \in {20, 21}
           /\ RowsOf(q.snapshots) /\ RowsOf(q.results)
           /\ \A r \in q.snapshots : r.endpoint = "product_database" /\ r.at = 10
           /\ \A r \in q.results : r.endpoint # "product_database" /\ r.at = 10
<1>1. PICK a \in SUBSET {"product_database", "keywords_by_keyword", "sales_estimates"} \ {{}},
           snapshots \in Cases!Results("product_database"),
           deep \in Cases!Results("keywords_by_keyword"),
           sales \in {{Cases!Result("sales_estimates", 3, 19)}, {Cases!Result("sales_estimates", 3, 20)}},
           strong \in BOOLEAN, mode \in {"respect-budget", "override-reserve"}, later \in {20, 21} :
        q = [kind |-> "needs", admitted |-> a, snapshots |-> snapshots, results |-> deep \cup sales,
             strong |-> strong, mode |-> mode, later |-> later]
  BY DEF Cases!NeedQuestions
<1>2. /\ q.admitted = a /\ q.snapshots = snapshots /\ q.results = deep \cup sales
      /\ q.later = later
  BY <1>1
<1>3. /\ RowsOf(snapshots) /\ RowsOf(deep)
      /\ \A r \in snapshots : r.endpoint = "product_database" /\ r.at = 10
      /\ \A r \in deep : r.endpoint = "keywords_by_keyword" /\ r.at = 10 /\ r.id \in {1, 2}
  BY ResultsTyped
<1>4. PICK o \in {19, 20} : sales = {Cases!Result("sales_estimates", 3, o)}
  OBVIOUS
<1> DEFINE r3 == Cases!Result("sales_estimates", 3, o)
<1>5. r3.endpoint = "sales_estimates" /\ r3.at = 10 /\ r3.id = 3 /\ r3.observed = o
  BY DEF Cases!Result
<1>6. deep \cup sales = deep \cup {r3}
  BY <1>4
<1> HIDE DEF r3
<1>7. RowsOf(deep \cup {r3})
  <2>1. IsFiniteSet(deep \cup {r3})
    BY <1>3, FS_AddElement DEF RowsOf
  <2>2. \A r \in deep \cup {r3} : r.id \in Int /\ r.at \in Int /\ r.observed \in Int
    BY <1>3, <1>5 DEF RowsOf
  <2>3. \A r, s \in deep \cup {r3} : r.id = s.id => r = s
    BY <1>3, <1>5 DEF RowsOf
  <2> QED BY <2>1, <2>2, <2>3 DEF RowsOf
<1>8. \A r \in deep \cup {r3} : r.endpoint # "product_database" /\ r.at = 10
  BY <1>3, <1>5
<1>9. a \in SUBSET Cases!N!Endpoint
  BY DEF Cases!N!Endpoint, Cases!N!CacheTtl
<1> QED BY <1>2, <1>3, <1>6, <1>7, <1>8, <1>9

\* What the question says is good is what its rows tell.
LEMMA GoodIsKnown ==
    ASSUME NEW q \in Cases!NeedQuestions, NEW e \in q.admitted,
           NEW bucket \in {"strong", "watch"}, NEW now \in {20, 21}
    PROVE  Cases!Good(q, e, bucket, now)
             <=> Known(RowsFor(e, q.results, q.snapshots), LifeOf(e, Cases!Freshness[bucket]), now)
<1> DEFINE found == RowsFor(e, q.results, q.snapshots)
           life == LifeOf(e, Cases!Freshness[bucket])
<1>1. life = Cases!Lifetime(e, bucket)
  BY DEF LifeOf, Cases!Lifetime
<1>2. life \in 1..14
  BY NeedQuestion DEF LifeOf, Cases!Freshness, Cases!N!CacheTtl
<1>3. \A r : r \in found <=> r \in q.snapshots \cup q.results /\ r.endpoint = e
  <2>1. CASE e = "product_database"
    BY <2>1, NeedQuestion DEF RowsFor
  <2>2. CASE e # "product_database"
    BY <2>2, NeedQuestion DEF RowsFor
  <2> QED BY <2>1, <2>2
<1>4. \A r \in found : r.observed \in Int /\ r.id \in Int /\ r.at = 10
  BY <1>3, NeedQuestion DEF RowsOf
<1>5. \A r, s \in found : After(r, s) <=> s.id <= r.id
  BY <1>4 DEF After
<1>6. Cases!Good(q, e, bucket, now) <=>
        \E r \in found : r.observed \in now - life + 1 .. now /\ \A s \in found : s.id <= r.id
  BY <1>1, <1>3 DEF Cases!Good
<1> HIDE DEF life, found
<1>7. \A r \in found : r.observed \in now - life + 1 .. now
                        <=> r.observed # -1 /\ r.observed <= now /\ now - r.observed < life
  BY <1>2, <1>4
<1>8. Known(found, life, now) <=>
        \E r \in found : r.observed \in now - life + 1 .. now /\ \A s \in found : s.id <= r.id
  BY <1>5, <1>7 DEF Known
<1> QED BY <1>6, <1>8 DEF life, found

\* The answer about a candidate's needs, in the terms of the lemmas about them.
LEMMA NeedAnswered ==
    ASSUME NEW q \in Cases!NeedQuestions, NEW a, a = Cases!NeedAnswer(q)
    PROVE  LET item == a.item
               Due(now) == {e \in q.admitted : ~Cases!Good(q, e, item.bucket, now)} IN
           /\ item.bucket \in {"strong", "watch"}
           /\ item.isFresh <=> Due(20) = {}
           /\ (\A r \in q.results \cup q.snapshots : r.observed <= 20) => Due(20) \subseteq Due(q.later)
           /\ a.jobs = Cases!N!Children(item, "run", q.mode, q.admitted, Due(q.later), <<1>>)
<1> DEFINE c == [id |-> 1, state |-> "Watch", strong |-> q.strong, score |-> 70]
           item == Cases!N!DailyCandidate(c, q.admitted, q.results, q.snapshots,
                                          Cases!Freshness, 20)
           Missing(now) == Cases!N!Missing(q.admitted, q.results, q.snapshots,
                                           Cases!Freshness[item.bucket], now)
           Due(now) == {e \in q.admitted : ~Cases!Good(q, e, item.bucket, now)}
<1>1. /\ a.item = item
      /\ a.jobs = Cases!N!Children(item, "run", q.mode, q.admitted, Missing(q.later), <<1>>)
  BY DEF Cases!NeedAnswer
<1>2. item.bucket = Cases!N!BucketOf(c.state, c.strong)
  BY DEF Cases!N!DailyCandidate
<1>3. item.bucket \in {"strong", "watch"}
  BY <1>2 DEF Cases!N!BucketOf
<1>4. item.isFresh <=> Missing(20) = {}
  BY <1>2 DEF Cases!N!DailyCandidate, Cases!N!UpToDate
<1> HIDE DEF item
<1>5. Cases!Freshness[item.bucket] \in Int
  BY <1>3 DEF Cases!Freshness
<1>6. /\ q.admitted \in SUBSET Cases!N!Endpoint /\ q.later \in {20, 21}
      /\ RowsOf(q.results) /\ RowsOf(q.snapshots)
  BY NeedQuestion
<1>7. ASSUME NEW now \in {20, 21}
      PROVE  Missing(now) = Due(now)
  <2>1. Missing(now) = {e \in q.admitted : ~Known(RowsFor(e, q.results, q.snapshots),
                                                 LifeOf(e, Cases!Freshness[item.bucket]), now)}
    BY <1>5, <1>6, MissingIs
  <2>2. \A e \in q.admitted : Cases!Good(q, e, item.bucket, now)
          <=> Known(RowsFor(e, q.results, q.snapshots),
                    LifeOf(e, Cases!Freshness[item.bucket]), now)
    BY <1>3, GoodIsKnown
  <2> HIDE DEF Missing
  <2> QED BY <2>1, <2>2
<1>8. ASSUME \A r \in q.results \cup q.snapshots : r.observed <= 20
      PROVE  Missing(20) \subseteq Missing(q.later)
  <2>1. 20 <= q.later /\ q.later \in Int /\ 20 \in Int
    BY <1>6
  <2> QED BY <1>5, <1>6, <1>8, <2>1, MissingStays
<1> HIDE DEF Missing
<1>9. Missing(20) = Due(20) /\ Missing(q.later) = Due(q.later)
  BY <1>6, <1>7
<1> HIDE DEF Due
<1>10. /\ item.isFresh <=> Due(20) = {}
       /\ (\A r \in q.results \cup q.snapshots : r.observed <= 20) => Due(20) \subseteq Due(q.later)
       /\ a.jobs = Cases!N!Children(item, "run", q.mode, q.admitted, Due(q.later), <<1>>)
  BY <1>1, <1>4, <1>8, <1>9
<1> QED BY <1>1, <1>3, <1>10 DEF Due

LEMMA NeedsHold ==
    ASSUME CasesInv
    PROVE  Cases!NeedsSound
<1> SUFFICES ASSUME Cases!Asked("needs") PROVE Cases!NeedsSound
  BY DEF Cases!NeedsSound
<1>1. question \in Cases!NeedQuestions /\ answer = Cases!NeedAnswer(question)
  BY DEF CasesInv
<1> DEFINE item == answer.item
           new == answer.jobs
           types == {j.type : j \in new}
           Due(now) == {e \in question.admitted : ~Cases!Good(question, e, item.bucket, now)}
           missing == Due(question.later)
           foreseen == \E r \in question.snapshots \cup question.results : r.observed > 20
           probed == Cardinality(new) = 1
<1>2. /\ item.isFresh <=> Due(20) = {}
      /\ (\A r \in question.results \cup question.snapshots : r.observed <= 20)
           => Due(20) \subseteq missing
      /\ new = Cases!N!Children(item, "run", question.mode, question.admitted, missing, <<1>>)
  BY <1>1, NeedAnswered
<1>3. /\ question.admitted \subseteq {"product_database", "keywords_by_keyword", "sales_estimates"}
      /\ question.admitted \in SUBSET Cases!N!Endpoint /\ missing \in SUBSET question.admitted
      /\ question.later \in {20, 21}
  BY <1>1, NeedQuestion
<1>4. ~foreseen => \A r \in question.results \cup question.snapshots : r.observed <= 20
  BY <1>1, NeedQuestion DEF RowsOf
<1>5. question.later = 20 => missing = Due(20)
  OBVIOUS
<1> HIDE DEF item, new, Due, foreseen
<1>6. /\ new = {} <=> missing = {}
      /\ \A i, j \in new : i.key = j.key => i = j
      /\ \A j \in new :
           /\ j.type = "MARKET_PROBE" => "product_database" \in missing /\ new = {j}
           /\ j.type = "DEEP_VALIDATION" =>
                "keywords_by_keyword" \in missing /\ "product_database" \notin missing
           /\ j.type = "ENRICH_STRONG_POTENTIAL" =>
                missing \cap Cases!N!Enrichment # {} /\ "product_database" \notin missing
           /\ j.purpose = "strong_revalidation" =>
                item.bucket = "strong" \/ question.mode = "override-reserve"
  BY <1>2, <1>3, JobsAskWhatIsMissing
<1>7. missing \cap Cases!N!Enrichment \subseteq missing \cap {"sales_estimates"}
  BY <1>3 DEF Cases!N!Enrichment
<1>8. \A j \in new : Cardinality({j}) = 1
  BY FS_Singleton
<1> HIDE DEF missing
<1>9. ~item.isFresh /\ ~foreseen => new # {}
  BY <1>2, <1>4, <1>6
<1>10. item.isFresh /\ question.later = 20 => new = {}
  BY <1>2, <1>5, <1>6
<1>11. "MARKET_PROBE" \in types => Cardinality(new) = 1 /\ "product_database" \in missing
  BY <1>6, <1>8
<1>12. "DEEP_VALIDATION" \in types => "keywords_by_keyword" \in missing
  BY <1>6
<1>13. "ENRICH_STRONG_POTENTIAL" \in types => missing \cap {"sales_estimates"} # {}
  BY <1>6, <1>7
<1>14. types \cap {"DEEP_VALIDATION", "ENRICH_STRONG_POTENTIAL"} # {}
         => "product_database" \notin missing
  BY <1>6
<1>15. Cases!Cardinality(new) = Cardinality(new)
  BY DEF Cases!Cardinality, Cardinality
<1> HIDE DEF types
<1>16. /\ item.isFresh <=> Due(20) = {}
       /\ ~item.isFresh /\ ~foreseen => new # {}
       /\ item.isFresh /\ question.later = 20 => new = {}
       /\ "MARKET_PROBE" \in types => Cases!Cardinality(new) = 1 /\ "product_database" \in missing
       /\ "DEEP_VALIDATION" \in types => "keywords_by_keyword" \in missing
       /\ "ENRICH_STRONG_POTENTIAL" \in types => missing \cap {"sales_estimates"} # {}
       /\ types \cap {"DEEP_VALIDATION", "ENRICH_STRONG_POTENTIAL"} # {}
            => "product_database" \notin missing
       /\ \A i, j \in new : i.key = j.key => i = j
       /\ \A j \in new : j.purpose = "strong_revalidation" =>
            item.bucket = "strong" \/ question.mode = "override-reserve"
  BY <1>2, <1>6, <1>9, <1>10, <1>11, <1>12, <1>13, <1>14, <1>15
<1> QED BY <1>16 DEF item, new, types, Due, missing, foreseen, Cases!NeedsSound

-----------------------------------------------------------------------------
(***************************************************************************)
(* Routes                                                                  *)
(*                                                                         *)
(* Where a request for an AI answer is routed to, whatever the catalog.    *)
(***************************************************************************)

\* Candidates of a route, as the catalog has them: finitely many.
Routes(candidates) ==
    /\ IsFiniteSet(candidates)
    /\ \A c \in candidates :
         /\ c = [provider |-> c.provider, model |-> c.model, quality |-> c.quality,
                 rolePriority |-> c.rolePriority, billing |-> c.billing]
         /\ c.provider \in Int /\ c.model \in Int /\ c.quality \in Int
         /\ c.rolePriority \in Int /\ c.billing \in Int

\* Five numbers that are compared one after the other.
Lexicographic(x, y) ==
    \/ x[1] < y[1]
    \/ x[1] = y[1] /\ x[2] < y[2]
    \/ x[1] = y[1] /\ x[2] = y[2] /\ x[3] < y[3]
    \/ x[1] = y[1] /\ x[2] = y[2] /\ x[3] = y[3] /\ x[4] < y[4]
    \/ x[1] = y[1] /\ x[2] = y[2] /\ x[3] = y[3] /\ x[4] = y[4] /\ x[5] < y[5]

LEMMA BeforeIs ==
    ASSUME NEW mode, NEW c, NEW d
    PROVE  Cases!R!Before(mode, c, d)
             <=> Lexicographic(Cases!R!Rank(mode, c), Cases!R!Rank(mode, d))
<1> DEFINE x == Cases!R!Rank(mode, c)
           y == Cases!R!Rank(mode, d)
           Less(k) == x[k] < y[k] /\ \A j \in 1..k - 1 : x[j] = y[j]
<1>1. Cases!R!Before(mode, c, d) <=> \E k \in 1..5 : Less(k)
  BY DEF Cases!R!Before
<1> HIDE DEF x, y
<1>2. /\ 1..1 - 1 = {} /\ 1..2 - 1 = {1} /\ 1..3 - 1 = {1, 2} /\ 1..4 - 1 = {1, 2, 3}
      /\ 1..5 - 1 = {1, 2, 3, 4} /\ 1..5 = {1, 2, 3, 4, 5}
  OBVIOUS
<1>3. (\E k \in 1..5 : Less(k)) <=> Less(1) \/ Less(2) \/ Less(3) \/ Less(4) \/ Less(5)
  <2> HIDE DEF Less
  <2> QED BY <1>2
<1>4. Lexicographic(x, y) <=> Less(1) \/ Less(2) \/ Less(3) \/ Less(4) \/ Less(5)
  BY <1>2 DEF Lexicographic
<1> QED BY <1>1, <1>3, <1>4 DEF x, y

\* The three numbers that the modes put in different orders.
Number(c, n) == IF n = 1 THEN c.billing ELSE IF n = 2 THEN c.rolePriority ELSE c.quality

\* A rank is the five fields of a candidate, three of them in the order of the mode.
Ordered(mode, i, j, k) ==
    \A c : Cases!R!Rank(mode, c)
             = <<Number(c, i), Number(c, j), Number(c, k)>> \o <<c.provider, c.model>>

LEMMA RankIs ==
    ASSUME NEW mode
    PROVE  /\ Ordered(mode, 1, 2, 3) \/ Ordered(mode, 3, 2, 1) \/ Ordered(mode, 2, 1, 3)
           /\ mode = "Saver" => Ordered(mode, 1, 2, 3)
<1> DEFINE thrifty == mode = "Saver"
           best == mode = "Highest Quality"
           Of(c) == (CASE thrifty -> <<c.billing, c.rolePriority, c.quality>>
                       [] best -> <<c.quality, c.rolePriority, c.billing>>
                       [] OTHER -> <<c.rolePriority, c.billing, c.quality>>)
                    \o <<c.provider, c.model>>
           As(i, j, k) == \A c : Of(c) = <<Number(c, i), Number(c, j), Number(c, k)>>
                                         \o <<c.provider, c.model>>
<1>1. \A c : Cases!R!Rank(mode, c) = Of(c)
  BY Zenon DEF Cases!R!Rank
<1>2. ~(thrifty /\ best)
  BY Zenon
<1> HIDE DEF thrifty, best
<1>3. \A c : Number(c, 1) = c.billing /\ Number(c, 2) = c.rolePriority /\ Number(c, 3) = c.quality
  BY DEF Number
<1>4. /\ As(1, 2, 3) \/ As(3, 2, 1) \/ As(2, 1, 3)
      /\ thrifty => As(1, 2, 3)
  <2>1. CASE thrifty
    BY <1>2, <1>3, <2>1
  <2>2. CASE best
    BY <1>2, <1>3, <2>2
  <2>3. CASE ~thrifty /\ ~best
    BY <1>3, <2>3
  <2> QED BY <2>1, <2>2, <2>3
<1> HIDE DEF Of
<1>5. ASSUME NEW i, NEW j, NEW k, As(i, j, k)
      PROVE  Ordered(mode, i, j, k)
  BY <1>1, <1>5 DEF Ordered
<1> HIDE DEF As
<1> QED BY <1>4, <1>5 DEF thrifty

Five(x) == \A k \in 1..5 : x[k] \in Int
Same(x, y) == \A k \in 1..5 : x[k] = y[k]

Joined(x, a, b, c, d, e) ==
    /\ a \in Int /\ b \in Int /\ c \in Int /\ d \in Int /\ e \in Int
    /\ x = <<a, b, c>> \o <<d, e>>

LEMMA FiveAre ==
    ASSUME NEW x, NEW a, NEW b, NEW c, NEW d, NEW e, Joined(x, a, b, c, d, e)
    PROVE  x[1] = a /\ x[2] = b /\ x[3] = c /\ x[4] = d /\ x[5] = e /\ Five(x)
<1> DEFINE s == <<a, b, c>>
           t == <<d, e>>
<1>1. s \in Seq(Int) /\ t \in Seq(Int) /\ Len(s) = 3 /\ Len(t) = 2
  BY DEF Joined
<1>2. s[1] = a /\ s[2] = b /\ s[3] = c /\ t[1] = d /\ t[2] = e
  OBVIOUS
<1> HIDE DEF s, t
<1>3. \A k \in 1..5 : x[k] = IF k <= 3 THEN s[k] ELSE t[k - 3]
  BY <1>1 DEF s, t, Joined
<1>4. x[1] = a /\ x[2] = b /\ x[3] = c /\ x[4] = d /\ x[5] = e
  BY <1>2, <1>3
<1>5. 1..5 = {1, 2, 3, 4, 5}
  OBVIOUS
<1> QED BY <1>4, <1>5 DEF Five, Joined

\* Ranks are numbers, and no two candidates have the same.
LEMMA RanksDiffer ==
    ASSUME NEW candidates, Routes(candidates), NEW mode
    PROVE  \A c \in candidates :
             /\ Five(Cases!R!Rank(mode, c))
             /\ \A d \in candidates :
                  Same(Cases!R!Rank(mode, c), Cases!R!Rank(mode, d)) => c = d
<1>1. PICK i, j, k \in 1..3 : i # j /\ j # k /\ i # k /\ Ordered(mode, i, j, k)
  BY RankIs
<1>2. ASSUME NEW c \in candidates
      PROVE  /\ Number(c, i) \in Int /\ Number(c, j) \in Int /\ Number(c, k) \in Int
             /\ c.provider \in Int /\ c.model \in Int
  BY DEF Routes, Number
<1>3. ASSUME NEW c \in candidates, NEW x, x = Cases!R!Rank(mode, c)
      PROVE  /\ x[1] = Number(c, i) /\ x[2] = Number(c, j) /\ x[3] = Number(c, k)
             /\ x[4] = c.provider /\ x[5] = c.model /\ Five(x)
  <2> DEFINE f == Number(c, i)
             g == Number(c, j)
             h == Number(c, k)
             p == c.provider
             m == c.model
  <2>1. x = <<f, g, h>> \o <<p, m>>
    BY <1>1, <1>3 DEF Ordered
  <2>2. f \in Int /\ g \in Int /\ h \in Int /\ p \in Int /\ m \in Int
    BY <1>2
  <2> HIDE DEF f, g, h, p, m
  <2>3. x[1] = f /\ x[2] = g /\ x[3] = h /\ x[4] = p /\ x[5] = m /\ Five(x)
    <3>1. Joined(x, f, g, h, p, m)
      BY <2>1, <2>2 DEF Joined
    <3> QED BY <3>1, FiveAre
  <2> QED BY <2>3 DEF f, g, h, p, m
<1>4. ASSUME NEW c \in candidates, NEW d \in candidates,
             Same(Cases!R!Rank(mode, c), Cases!R!Rank(mode, d))
      PROVE  c = d
  <2> DEFINE x == Cases!R!Rank(mode, c)
             y == Cases!R!Rank(mode, d)
  <2>1. x[1] = y[1] /\ x[2] = y[2] /\ x[3] = y[3] /\ x[4] = y[4] /\ x[5] = y[5]
    <3>1. 1 \in 1..5 /\ 2 \in 1..5 /\ 3 \in 1..5 /\ 4 \in 1..5 /\ 5 \in 1..5
      OBVIOUS
    <3> QED BY <1>4, <3>1 DEF Same
  <2>2. /\ x[1] = Number(c, i) /\ x[2] = Number(c, j) /\ x[3] = Number(c, k)
        /\ x[4] = c.provider /\ x[5] = c.model
    BY <1>3
  <2>3. /\ y[1] = Number(d, i) /\ y[2] = Number(d, j) /\ y[3] = Number(d, k)
        /\ y[4] = d.provider /\ y[5] = d.model
    BY <1>3
  <2> HIDE DEF x, y
  <2>4. /\ Number(c, i) = Number(d, i) /\ Number(c, j) = Number(d, j)
        /\ Number(c, k) = Number(d, k) /\ c.provider = d.provider /\ c.model = d.model
    BY <2>1, <2>2, <2>3
  <2>5. Number(c, 1) = Number(d, 1) /\ Number(c, 2) = Number(d, 2) /\ Number(c, 3) = Number(d, 3)
    BY <1>1, <2>4
  <2> QED BY <2>4, <2>5 DEF Number, Routes
<1> QED BY <1>3, <1>4

LEMMA ComparesAll ==
    ASSUME NEW x, NEW y, Five(x), Five(y)
    PROVE  Lexicographic(x, y) \/ Lexicographic(y, x) \/ Same(x, y)
<1>1. 1..5 = {1, 2, 3, 4, 5}
  OBVIOUS
<1>2. /\ x[1] \in Int /\ x[2] \in Int /\ x[3] \in Int /\ x[4] \in Int /\ x[5] \in Int
      /\ y[1] \in Int /\ y[2] \in Int /\ y[3] \in Int /\ y[4] \in Int /\ y[5] \in Int
  BY <1>1 DEF Five
<1>3. Same(x, y) <=>
        x[1] = y[1] /\ x[2] = y[2] /\ x[3] = y[3] /\ x[4] = y[4] /\ x[5] = y[5]
  BY <1>1 DEF Same
<1> QED BY <1>2, <1>3 DEF Lexicographic

LEMMA ComparesOn ==
    ASSUME NEW x, NEW y, NEW z, Five(x), Five(y), Five(z),
           Lexicographic(x, y), Lexicographic(y, z)
    PROVE  Lexicographic(x, z)
<1>1. 1..5 = {1, 2, 3, 4, 5}
  OBVIOUS
<1>2. /\ x[1] \in Int /\ x[2] \in Int /\ x[3] \in Int /\ x[4] \in Int /\ x[5] \in Int
      /\ y[1] \in Int /\ y[2] \in Int /\ y[3] \in Int /\ y[4] \in Int /\ y[5] \in Int
      /\ z[1] \in Int /\ z[2] \in Int /\ z[3] \in Int /\ z[4] \in Int /\ z[5] \in Int
  BY <1>1 DEF Five
<1> QED BY <1>2 DEF Lexicographic

\* One of the candidates of a route ranks before all others.
LEMMA FirstRoute ==
    ASSUME NEW candidates, Routes(candidates), candidates # {}, NEW mode
    PROVE  \E c \in candidates : \A d \in candidates \ {c} : Cases!R!Before(mode, c, d)
<1> DEFINE Ranks(c) == Cases!R!Rank(mode, c)
           R == {p \in candidates \X candidates :
                   p[1] = p[2] \/ Lexicographic(Ranks(p[1]), Ranks(p[2]))}
<1>1. \A c, d \in candidates : <<c, d>> \in R <=> c = d \/ Lexicographic(Ranks(c), Ranks(d))
  OBVIOUS
<1>2. \A c \in candidates : Five(Ranks(c)) /\ \A d \in candidates : Same(Ranks(c), Ranks(d)) => c = d
  BY RanksDiffer
<1>3. \A c, d \in candidates : Cases!R!Before(mode, c, d) <=> Lexicographic(Ranks(c), Ranks(d))
  BY BeforeIs
<1> HIDE DEF R, Ranks
<1>4. ASSUME NEW c \in candidates, NEW d \in candidates
      PROVE  <<c, d>> \in R \/ <<d, c>> \in R
  <2>1. Lexicographic(Ranks(c), Ranks(d)) \/ Lexicographic(Ranks(d), Ranks(c))
        \/ Same(Ranks(c), Ranks(d))
    BY <1>2, ComparesAll
  <2> QED BY <1>1, <1>2, <2>1
<1>5. ASSUME NEW c \in candidates, NEW d \in candidates, NEW e \in candidates,
             <<c, d>> \in R, <<d, e>> \in R
      PROVE  <<c, e>> \in R
  <2>1. CASE c = d \/ d = e
    BY <1>5, <2>1
  <2>2. CASE c # d /\ d # e
    <3>1. Lexicographic(Ranks(c), Ranks(d)) /\ Lexicographic(Ranks(d), Ranks(e))
      BY <1>1, <1>5, <2>2
    <3>2. Lexicographic(Ranks(c), Ranks(e))
      BY <1>2, <3>1, ComparesOn
    <3> QED BY <1>1, <3>2
  <2> QED BY <2>1, <2>2
<1>6. Orders(R, candidates)
  BY <1>4, <1>5 DEF Orders
<1>7. PICK c \in candidates : \A d \in candidates : <<c, d>> \in R
  BY <1>6, FirstExists DEF Routes
<1>8. \A d \in candidates \ {c} : Cases!R!Before(mode, c, d)
  BY <1>1, <1>3, <1>7
<1> QED BY <1>8

\* Of two candidates at most one ranks before the other.
LEMMA BeforeOnce ==
    ASSUME NEW candidates, Routes(candidates), NEW mode, NEW c \in candidates,
           NEW d \in candidates, Cases!R!Before(mode, c, d), Cases!R!Before(mode, d, c)
    PROVE  FALSE
<1> DEFINE x == Cases!R!Rank(mode, c)
           y == Cases!R!Rank(mode, d)
<1>1. Five(x) /\ Five(y)
  BY RanksDiffer
<1>2. Lexicographic(x, y) /\ Lexicographic(y, x)
  BY BeforeIs
<1> HIDE DEF x, y
<1>3. /\ Lexicographic(x, x)
      /\ x[1] \in Int /\ x[2] \in Int /\ x[3] \in Int /\ x[4] \in Int /\ x[5] \in Int
  BY <1>1, <1>2, ComparesOn DEF Five
<1> QED BY <1>3 DEF Lexicographic

\* A Saver looks at what is paid for first of all.
LEMMA SaverPaysLast ==
    ASSUME NEW candidates, Routes(candidates), NEW mode, mode = "Saver",
           NEW c \in candidates, NEW d \in candidates
    PROVE  /\ Cases!R!Before(mode, c, d) => c.billing <= d.billing
           /\ c.billing < d.billing => Cases!R!Before(mode, c, d)
<1>1. Ordered(mode, 1, 2, 3)
  BY RankIs
<1>2. ASSUME NEW b \in candidates, NEW z, z = Cases!R!Rank(mode, b)
      PROVE  z[1] = b.billing
  <2> DEFINE p == b.billing
             q == b.rolePriority
             r == b.quality
             s == b.provider
             t == b.model
  <2>1. /\ Number(b, 1) = p /\ Number(b, 2) = q /\ Number(b, 3) = r
    BY DEF Number
  <2>2. Joined(z, p, q, r, s, t)
    BY <1>1, <1>2, <2>1 DEF Joined, Ordered, Routes
  <2> HIDE DEF p, q, r, s, t
  <2>3. z[1] = p
    BY <2>2, FiveAre
  <2> QED BY <2>3 DEF p
<1> DEFINE x == Cases!R!Rank(mode, c)
           y == Cases!R!Rank(mode, d)
<1>3. x[1] = c.billing /\ y[1] = d.billing
  BY <1>2
<1>4. Cases!R!Before(mode, c, d) <=> Lexicographic(x, y)
  BY BeforeIs
<1> HIDE DEF x, y
<1>5. c.billing \in Int /\ d.billing \in Int
  BY DEF Routes
<1> QED BY <1>3, <1>4, <1>5 DEF Lexicographic

\* The route is to a candidate that ranks before all others.
RoutedFirst(route, candidates, mode) ==
    \E c \in candidates :
      /\ route = [kind |-> "route", provider |-> c.provider, model |-> c.model]
      /\ \A d \in candidates \ {c} : Cases!R!Before(mode, c, d)

LEMMA RouteIsFirst ==
    ASSUME NEW request, NEW catalog, NEW candidates, NEW route,
           candidates = Cases!R!RouteCandidates(request, catalog), Routes(candidates),
           route = Cases!R!RouteAiRequest(request, catalog)
    PROVE  \/ route.kind = "defer" /\ candidates = {}
           \/ route.kind = "route" /\ RoutedFirst(route, candidates, request.mode)
<1>1. CASE candidates = {}
  BY <1>1 DEF Cases!R!RouteAiRequest
<1>2. CASE candidates # {}
  <2> DEFINE c == CHOOSE x \in candidates :
                    \A y \in candidates \ {x} : Cases!R!Before(request.mode, x, y)
  <2>1. route = [kind |-> "route", provider |-> c.provider, model |-> c.model]
    BY <1>2 DEF Cases!R!RouteAiRequest
  <2>2. c \in candidates /\ \A y \in candidates \ {c} : Cases!R!Before(request.mode, c, y)
    BY <1>2, FirstRoute
  <2> HIDE DEF c
  <2>3. route.kind = "route"
    BY <2>1
  <2> QED BY <2>1, <2>2, <2>3 DEF RoutedFirst
<1> QED BY <1>1, <1>2

LEMMA FiniteImage ==
    ASSUME NEW S, IsFiniteSet(S), NEW T, NEW f \in [S -> T], \A t \in T : \E s \in S : f[s] = t
    PROVE  IsFiniteSet(T)
<1>1. f \in Surjection(S, T)
  BY DEF Surjection
<1> QED BY <1>1, FS_Surjection

\* A catalog as it is loaded: finitely many entries, with finitely many models.
CatalogOf(catalog) ==
    /\ IsFiniteSet(catalog)
    /\ \A e \in catalog :
         /\ e.id \in Int /\ e.priority \in Int /\ IsFiniteSet(e.models)
         /\ \A role \in DOMAIN e.rolePriority : e.rolePriority[role] \in Int
         /\ \A m \in e.models :
              m.id \in Int /\ m.quality \in Int /\ m.billing \in {"free", "subscription", "payg"}

\* What a model of an entry is to a request.
RouteOf(request, e, m) ==
    [provider |-> e.id, model |-> m.id, quality |-> m.quality,
     rolePriority |-> IF request.role \in DOMAIN e.rolePriority
                      THEN e.rolePriority[request.role] ELSE e.priority,
     billing |-> Cases!R!BillingRank[m.billing]]

\* It may answer: it is up, has what is required, is not barred, and may be paid.
Serves(request, catalog, e, m) ==
    /\ e.enabled /\ e.available /\ request.role \in e.roles
    /\ e.id \notin Cases!R!Barred(request, {x.id : x \in catalog})
    /\ Cases!R!SupportsCapabilities(m, request.required)
    /\ Cases!R!Permits(request, e, m)

LEMMA CandidatesAre ==
    ASSUME NEW request, NEW catalog, NEW c
    PROVE  c \in Cases!R!RouteCandidates(request, catalog)
             <=> \E e \in catalog : \E m \in e.models :
                   c = RouteOf(request, e, m) /\ Serves(request, catalog, e, m)
<1> DEFINE up == {x \in Cases!R!Checked(request, catalog) : x.enabled /\ x.available}
           may(e) == {x \in e.models : /\ Cases!R!SupportsCapabilities(x, request.required)
                                       /\ Cases!R!Permits(request, e, x)}
           of(e) == {RouteOf(request, e, m) : m \in may(e)}
<1>1. Cases!R!RouteCandidates(request, catalog) = UNION {of(e) : e \in up}
  BY DEF Cases!R!RouteCandidates, RouteOf
<1>2. \A e : e \in up <=> /\ e \in catalog /\ e.enabled /\ e.available /\ request.role \in e.roles
                          /\ e.id \notin Cases!R!Barred(request, {x.id : x \in catalog})
  BY DEF Cases!R!Checked
<1>3. \A e, m : m \in may(e) <=> /\ m \in e.models
                                 /\ Cases!R!SupportsCapabilities(m, request.required)
                                 /\ Cases!R!Permits(request, e, m)
  OBVIOUS
<1> HIDE DEF up, may
<1>4. c \in UNION {of(e) : e \in up} <=> \E e \in up : \E m \in may(e) : c = RouteOf(request, e, m)
  OBVIOUS
<1> HIDE DEF of
<1> QED BY <1>1, <1>2, <1>3, <1>4 DEF Serves

LEMMA RoutesTyped ==
    ASSUME NEW request, NEW catalog, CatalogOf(catalog)
    PROVE  Routes(Cases!R!RouteCandidates(request, catalog))
<1> DEFINE All(e) == {RouteOf(request, e, m) : m \in e.models}
           all == UNION {All(e) : e \in catalog}
           candidates == Cases!R!RouteCandidates(request, catalog)
<1>1. ASSUME NEW e \in catalog
      PROVE  IsFiniteSet(All(e))
  <2> DEFINE f == [m \in e.models |-> RouteOf(request, e, m)]
  <2>1. IsFiniteSet(e.models)
    BY DEF CatalogOf
  <2>2. f \in [e.models -> All(e)] /\ \A t \in All(e) : \E m \in e.models : f[m] = t
    OBVIOUS
  <2> HIDE DEF f, All
  <2> QED BY <2>1, <2>2, FiniteImage
<1>2. IsFiniteSet(all)
  <2> DEFINE T == {All(e) : e \in catalog}
             f == [e \in catalog |-> All(e)]
  <2>1. f \in [catalog -> T] /\ \A t \in T : \E e \in catalog : f[e] = t
    <3> HIDE DEF All
    <3> QED OBVIOUS
  <2>2. \A t \in T : IsFiniteSet(t)
    BY <1>1
  <2>3. IsFiniteSet(catalog)
    BY DEF CatalogOf
  <2> HIDE DEF f, T
  <2>4. IsFiniteSet(T)
    BY <2>1, <2>3, FiniteImage
  <2>5. IsFiniteSet(UNION T)
    BY <2>2, <2>4, FS_UNION
  <2> QED BY <2>5 DEF T
<1>3. candidates \subseteq all
  BY CandidatesAre
<1>4. IsFiniteSet(candidates)
  <2> HIDE DEF all, candidates
  <2> QED BY <1>2, <1>3, FS_Subset
<1>5. ASSUME NEW c \in candidates
      PROVE  /\ c = [provider |-> c.provider, model |-> c.model, quality |-> c.quality,
                     rolePriority |-> c.rolePriority, billing |-> c.billing]
             /\ c.provider \in Int /\ c.model \in Int /\ c.quality \in Int
             /\ c.rolePriority \in Int /\ c.billing \in Int
  <2>1. PICK e \in catalog : \E m \in e.models : c = RouteOf(request, e, m)
    BY CandidatesAre
  <2>2. PICK m \in e.models : c = RouteOf(request, e, m)
    BY <2>1
  <2>3. /\ e.id \in Int /\ e.priority \in Int
        /\ \A role \in DOMAIN e.rolePriority : e.rolePriority[role] \in Int
        /\ m.id \in Int /\ m.quality \in Int /\ m.billing \in {"free", "subscription", "payg"}
    BY DEF CatalogOf
  <2>4. Cases!R!BillingRank[m.billing] \in Int
    BY <2>3 DEF Cases!R!BillingRank
  <2> QED BY <2>2, <2>3, <2>4 DEF RouteOf
<1> QED BY <1>4, <1>5 DEF Routes

\* Whatever the catalog and the request: it is deferred exactly if no model may serve
\* it, and goes to one that may, before which no other ranks; and a Saver is routed to
\* a paid model only if none that is not may serve (routeAiRequest).
THEOREM RouteServes ==
    ASSUME NEW request, NEW catalog, CatalogOf(catalog),
           NEW route, route = Cases!R!RouteAiRequest(request, catalog)
    PROVE  \/ /\ route.kind = "defer"
              /\ \A e \in catalog : \A m \in e.models : ~Serves(request, catalog, e, m)
           \/ /\ route.kind = "route"
              /\ \E e \in catalog : \E m \in e.models :
                   /\ route.provider = e.id /\ route.model = m.id
                   /\ Serves(request, catalog, e, m)
                   /\ \A f \in catalog : \A n \in f.models :
                        Serves(request, catalog, f, n) =>
                          /\ \/ RouteOf(request, f, n) = RouteOf(request, e, m)
                             \/ Cases!R!Before(request.mode, RouteOf(request, e, m),
                                               RouteOf(request, f, n))
                          /\ request.mode = "Saver" /\ m.billing = "payg" => n.billing = "payg"
<1> DEFINE candidates == Cases!R!RouteCandidates(request, catalog)
<1>1. Routes(candidates)
  BY RoutesTyped
<1>2. \A c : c \in candidates <=> \E e \in catalog : \E m \in e.models :
                                    c = RouteOf(request, e, m) /\ Serves(request, catalog, e, m)
  BY CandidatesAre
<1>3. \/ route.kind = "defer" /\ candidates = {}
      \/ /\ route.kind = "route"
         /\ \E c \in candidates :
              /\ route.provider = c.provider /\ route.model = c.model
              /\ \A d \in candidates \ {c} : Cases!R!Before(request.mode, c, d)
  <2>1. \/ route.kind = "defer" /\ candidates = {}
        \/ route.kind = "route" /\ RoutedFirst(route, candidates, request.mode)
    BY <1>1, RouteIsFirst
  <2> HIDE DEF candidates
  <2> QED BY <2>1 DEF RoutedFirst
<1> HIDE DEF candidates
<1>4. CASE route.kind = "defer" /\ candidates = {}
  BY <1>2, <1>4
<1>5. ASSUME route.kind = "route", NEW c \in candidates,
             route.provider = c.provider, route.model = c.model,
             \A d \in candidates \ {c} : Cases!R!Before(request.mode, c, d)
      PROVE  \E e \in catalog : \E m \in e.models :
               /\ route.provider = e.id /\ route.model = m.id
               /\ Serves(request, catalog, e, m)
               /\ \A f \in catalog : \A n \in f.models :
                    Serves(request, catalog, f, n) =>
                      /\ \/ RouteOf(request, f, n) = RouteOf(request, e, m)
                         \/ Cases!R!Before(request.mode, RouteOf(request, e, m),
                                           RouteOf(request, f, n))
                      /\ request.mode = "Saver" /\ m.billing = "payg" => n.billing = "payg"
  <2>1. PICK e \in catalog : \E m \in e.models :
               c = RouteOf(request, e, m) /\ Serves(request, catalog, e, m)
    BY <1>2
  <2>2. PICK m \in e.models : c = RouteOf(request, e, m) /\ Serves(request, catalog, e, m)
    BY <2>1
  <2>3. c.provider = e.id /\ c.model = m.id
    BY <2>2 DEF RouteOf
  <2>4. ASSUME NEW f \in catalog, NEW n \in f.models, Serves(request, catalog, f, n)
        PROVE  /\ \/ RouteOf(request, f, n) = c
                  \/ Cases!R!Before(request.mode, c, RouteOf(request, f, n))
               /\ request.mode = "Saver" /\ m.billing = "payg" => n.billing = "payg"
    <3> DEFINE d == RouteOf(request, f, n)
    <3>1. d \in candidates
      BY <1>2, <2>4
    <3>2. d = c \/ Cases!R!Before(request.mode, c, d)
      BY <1>5, <3>1
    <3>3. c.billing = Cases!R!BillingRank[m.billing] /\ d.billing = Cases!R!BillingRank[n.billing]
      BY <2>2 DEF RouteOf
    <3>4. m.billing \in {"free", "subscription", "payg"} /\ n.billing \in {"free", "subscription", "payg"}
      BY DEF CatalogOf
    <3> HIDE DEF d
    <3>5. ASSUME request.mode = "Saver", m.billing = "payg"
          PROVE  n.billing = "payg"
      <4>1. c \in candidates /\ d \in candidates
        BY <3>1
      <4>2. d = c \/ c.billing <= d.billing
        BY <1>1, <3>2, <3>5, <4>1, SaverPaysLast
      <4> QED BY <3>3, <3>4, <3>5, <4>2 DEF Cases!R!BillingRank
    <3> QED BY <3>2, <3>5 DEF d
  <2> QED BY <1>5, <2>2, <2>3, <2>4
<1> QED BY <1>3, <1>4, <1>5

\* A request that excludes more providers and is the same otherwise.
ExcludesToo(more, request, gone) ==
    /\ more.excluded = request.excluded \cup gone
    /\ more.role = request.role /\ more.primary = request.primary /\ more.mode = request.mode
    /\ more.required = request.required /\ more.paidPrimaries = request.paidPrimaries
    /\ more.allowPaidFallback = request.allowPaidFallback

LEMMA ExcludedAreGone ==
    ASSUME NEW request, NEW more, NEW gone, ExcludesToo(more, request, gone), NEW catalog
    PROVE  Cases!R!RouteCandidates(more, catalog)
             = {c \in Cases!R!RouteCandidates(request, catalog) : c.provider \notin gone}
<1>1. ASSUME NEW e, NEW m
      PROVE  /\ RouteOf(more, e, m) = RouteOf(request, e, m)
             /\ RouteOf(request, e, m).provider = e.id
             /\ Serves(more, catalog, e, m)
                  <=> Serves(request, catalog, e, m) /\ e.id \notin gone
  <2>1. RouteOf(more, e, m) = RouteOf(request, e, m) /\ RouteOf(request, e, m).provider = e.id
    BY DEF ExcludesToo, RouteOf
  <2>2. Cases!R!Permits(more, e, m) <=> Cases!R!Permits(request, e, m)
    BY DEF ExcludesToo, Cases!R!Permits
  <2>3. Cases!R!Barred(more, {x.id : x \in catalog})
          = Cases!R!Barred(request, {x.id : x \in catalog}) \cup gone
    BY DEF ExcludesToo, Cases!R!Barred
  <2> QED BY <2>1, <2>2, <2>3 DEF Serves, ExcludesToo
<1> QED BY <1>1, CandidatesAre

\* Whoever else is excluded, a request stays where it was routed; and it never comes
\* back to a provider it went on from (routeAiRequest, excludedProviders).
THEOREM GoingOnIsSteady ==
    ASSUME NEW request, NEW more, NEW gone, ExcludesToo(more, request, gone),
           NEW catalog, CatalogOf(catalog),
           NEW route, route = Cases!R!RouteAiRequest(request, catalog),
           NEW next, next = Cases!R!RouteAiRequest(more, catalog)
    PROVE  /\ route.kind = "route" /\ route.provider \notin gone =>
                next.kind = "route" /\ next.provider = route.provider /\ next.model = route.model
           /\ next.kind = "route" => route.kind = "route" /\ next.provider \notin gone
<1> DEFINE candidates == Cases!R!RouteCandidates(request, catalog)
           left == Cases!R!RouteCandidates(more, catalog)
<1>1. Routes(candidates) /\ Routes(left)
  BY RoutesTyped
<1>2. left = {c \in candidates : c.provider \notin gone}
  BY ExcludedAreGone
<1>3. more.mode = request.mode
  BY DEF ExcludesToo
<1>4. \/ route.kind = "defer" /\ candidates = {}
      \/ /\ route.kind = "route"
         /\ \E c \in candidates :
              /\ route.provider = c.provider /\ route.model = c.model
              /\ \A d \in candidates \ {c} : Cases!R!Before(request.mode, c, d)
  <2>1. \/ route.kind = "defer" /\ candidates = {}
        \/ route.kind = "route" /\ RoutedFirst(route, candidates, request.mode)
    BY <1>1, RouteIsFirst
  <2> HIDE DEF candidates
  <2> QED BY <2>1 DEF RoutedFirst
<1>5. \/ next.kind = "defer" /\ left = {}
      \/ /\ next.kind = "route"
         /\ \E c \in left :
              /\ next.provider = c.provider /\ next.model = c.model
              /\ \A d \in left \ {c} : Cases!R!Before(request.mode, c, d)
  <2>1. \/ next.kind = "defer" /\ left = {}
        \/ next.kind = "route" /\ RoutedFirst(next, left, more.mode)
    BY <1>1, RouteIsFirst
  <2> HIDE DEF left
  <2> QED BY <1>3, <2>1 DEF RoutedFirst
<1>6. ASSUME NEW c \in candidates, NEW d \in candidates,
             Cases!R!Before(request.mode, c, d), Cases!R!Before(request.mode, d, c)
      PROVE  FALSE
  BY <1>1, <1>6, BeforeOnce
<1> HIDE DEF candidates, left
<1>7. ASSUME route.kind = "route", route.provider \notin gone
      PROVE  next.kind = "route" /\ next.provider = route.provider /\ next.model = route.model
  <2>1. PICK c \in candidates :
          /\ route.provider = c.provider /\ route.model = c.model
          /\ \A d \in candidates \ {c} : Cases!R!Before(request.mode, c, d)
    BY <1>4, <1>7
  <2>2. c \in left
    BY <1>2, <1>7, <2>1
  <2>3. PICK b \in left :
          /\ next.kind = "route" /\ next.provider = b.provider /\ next.model = b.model
          /\ \A d \in left \ {b} : Cases!R!Before(request.mode, b, d)
    BY <1>5, <2>2
  <2>4. b = c
    BY <1>2, <1>6, <2>1, <2>2, <2>3
  <2> QED BY <2>1, <2>3, <2>4
<1>8. next.kind = "route" => route.kind = "route" /\ next.provider \notin gone
  BY <1>2, <1>4, <1>5
<1> QED BY <1>7, <1>8

-----------------------------------------------------------------------------
(***************************************************************************)
(* The routes that are asked about                                         *)
(***************************************************************************)

\* The catalogs that are asked about.
Made(e, id, billing) ==
    /\ id \in 1..3 /\ billing \in {"free", "subscription", "payg"}
    /\ \E available \in BOOLEAN, priority, quality \in Int :
         e = Cases!Entry(id, billing, available, priority, quality)

LEMMA EntryIs ==
    ASSUME NEW e, NEW id, NEW billing, Made(e, id, billing)
    PROVE  /\ e.id = id /\ e.billing = billing /\ e.enabled
           /\ e.priority \in Int
           /\ \A role \in DOMAIN e.rolePriority : e.rolePriority[role] \in Int
           /\ e.roles = {"niche_normalization", "strong_cross_validation"}
           /\ IsFiniteSet(e.models)
           /\ \A m \in e.models :
                /\ m.id \in Int /\ m.quality \in Int /\ m.billing = billing
                /\ "structured_json" \in m.capabilities => m.id = 1
           /\ \E m \in e.models : "structured_json" \in m.capabilities
<1>10. PICK up \in BOOLEAN, priority \in Int, quality \in Int :
          e = Cases!Entry(id, billing, up, priority, quality)
  BY DEF Made
<1> DEFINE one == [id |-> 1, billing |-> billing, quality |-> quality,
                   capabilities |-> {"structured_json"}]
           two == [id |-> 2, billing |-> billing, quality |-> 0, capabilities |-> {"text"}]
           first == IF id = 2 THEN [niche_normalization |-> 2] ELSE <<>>
           roles == {"niche_normalization", "strong_cross_validation"}
<1>1. e = [id |-> id, billing |-> billing, enabled |-> TRUE, available |-> up,
           priority |-> priority, rolePriority |-> first, roles |-> roles, models |-> {one, two}]
  BY <1>10 DEF Cases!Entry
<1>2. \A role \in DOMAIN first : first[role] \in Int
  BY DEF first
<1>9. /\ billing \in {"free", "subscription", "payg"} /\ up \in BOOLEAN
      /\ priority \in Int /\ quality \in Int
  BY DEF Made
<1>3. /\ one.id = 1 /\ one.billing = billing /\ one.quality = quality
      /\ one.capabilities = {"structured_json"}
      /\ two.id = 2 /\ two.billing = billing /\ two.quality = 0
      /\ two.capabilities = {"text"}
  OBVIOUS
<1> HIDE DEF first, one, two, roles
<1>4. /\ e.id = id /\ e.billing = billing /\ e.enabled
      /\ e.priority = priority /\ e.rolePriority = first /\ e.roles = roles
      /\ e.models = {one, two}
  BY <1>1
<1>5. IsFiniteSet({one} \cup {two})
  BY FS_Singleton, FS_AddElement
<1>6. IsFiniteSet({one, two})
  <2>1. {one, two} = {one} \cup {two}
    OBVIOUS
  <2> QED BY <1>5, <2>1
<1>7. \A m \in {one, two} :
        /\ m.id \in Int /\ m.quality \in Int /\ m.billing = billing
        /\ "structured_json" \in m.capabilities => m.id = 1
  BY <1>3, <1>9
<1>8. \E m \in {one, two} : "structured_json" \in m.capabilities
  BY <1>3
<1> QED BY <1>2, <1>4, <1>6, <1>7, <1>8, <1>9 DEF roles

LEMMA RouteQuestion ==
    ASSUME NEW q \in Cases!RouteQuestions
    PROVE  /\ CatalogOf(q.catalog)
           /\ \A e \in q.catalog :
                /\ e.id \in 1..3 /\ e.enabled /\ q.role \in e.roles
                /\ e.billing \in {"free", "subscription", "payg"}
                /\ \A m \in e.models :
                     m.billing = e.billing /\ ("structured_json" \in m.capabilities => m.id = 1)
                /\ \E m \in e.models : "structured_json" \in m.capabilities
           /\ \A e, f \in q.catalog : e.id = f.id => e = f
           /\ q.required = {"structured_json"} /\ q.excluded = {}
           /\ q.paidPrimaries # {} =>
                q.paidPrimaries = {e.id : e \in {x \in q.catalog : x.billing = "payg"}}
           /\ \A gone : ExcludesToo([q EXCEPT !.excluded = gone], q, gone)
           /\ LET s == [q EXCEPT !.allowPaidFallback = FALSE] IN
                /\ ~s.allowPaidFallback /\ s.excluded = q.excluded /\ s.role = q.role
                /\ s.primary = q.primary /\ s.mode = q.mode /\ s.required = q.required
                /\ s.paidPrimaries = q.paidPrimaries
<1>1. PICK catalog \in Cases!Catalogs, mode \in Cases!Modes,
           role \in {"niche_normalization", "strong_cross_validation"},
           pays \in BOOLEAN, primaries \in BOOLEAN :
        q = [kind |-> "route", catalog |-> catalog, mode |-> mode, role |-> role, primary |-> 2,
             required |-> {"structured_json"}, excluded |-> {}, allowPaidFallback |-> pays,
             paidPrimaries |-> IF primaries
                               THEN {e.id : e \in {x \in catalog : x.billing = "payg"}} ELSE {}]
  BY DEF Cases!RouteQuestions
<1>2. PICK x \in DOMAIN Cases!R!BillingRank, y \in DOMAIN Cases!R!BillingRank,
           z \in DOMAIN Cases!R!BillingRank, up \in BOOLEAN, w \in {1, 3} :
        catalog = Cases!Catalog(x, y, z, up, w)
  BY DEF Cases!Catalogs
<1>3. DOMAIN Cases!R!BillingRank = {"free", "subscription", "payg"}
  BY DEF Cases!R!BillingRank
<1> DEFINE a == Cases!Entry(1, x, up, 1, w)
           b == Cases!Entry(2, y, TRUE, 9, 2)
           c == Cases!Entry(3, z, TRUE, w, 4 - w)
           Is(e, id) ==
             /\ e.id = id /\ e.billing \in {"free", "subscription", "payg"} /\ e.enabled
             /\ e.priority \in Int
             /\ \A r \in DOMAIN e.rolePriority : e.rolePriority[r] \in Int
             /\ e.roles = {"niche_normalization", "strong_cross_validation"}
             /\ IsFiniteSet(e.models)
             /\ \A m \in e.models :
                  /\ m.id \in Int /\ m.quality \in Int /\ m.billing = e.billing
                  /\ "structured_json" \in m.capabilities => m.id = 1
             /\ \E m \in e.models : "structured_json" \in m.capabilities
<1>4. Is(a, 1)
  <2>1. Made(a, 1, x)
    BY <1>3 DEF Made
  <2> HIDE DEF a
  <2> QED BY <1>3, <2>1, EntryIs
<1>5. Is(b, 2)
  <2>1. Made(b, 2, y)
    <3> DEFINE t == TRUE
    <3>1. t \in BOOLEAN
      OBVIOUS
    <3> HIDE DEF t
    <3>2. b = Cases!Entry(2, y, t, 9, 2)
      BY DEF t
    <3> HIDE DEF b
    <3> QED BY <1>3, <3>1, <3>2 DEF Made
  <2> HIDE DEF b
  <2> QED BY <1>3, <2>1, EntryIs
<1>6. Is(c, 3)
  <2>1. Made(c, 3, z)
    <3> DEFINE k == 4 - w
               t == TRUE
    <3>1. k \in Int /\ w \in Int /\ t \in BOOLEAN
      OBVIOUS
    <3> HIDE DEF k, t
    <3>2. c = Cases!Entry(3, z, t, w, k)
      BY DEF k, t
    <3> HIDE DEF c
    <3> QED BY <1>3, <3>1, <3>2 DEF Made
  <2> HIDE DEF c
  <2> QED BY <1>3, <2>1, EntryIs
<1> HIDE DEF a, b, c
<1>7. catalog = {a, b, c}
  BY <1>2 DEF a, b, c, Cases!Catalog
<1>8. \A e \in catalog : \E id \in 1..3 : Is(e, id)
  BY <1>4, <1>5, <1>6, <1>7
<1>9. \A e, f \in catalog : e.id = f.id => e = f
  BY <1>4, <1>5, <1>6, <1>7
<1>10. IsFiniteSet(catalog)
  <2>1. IsFiniteSet(({a} \cup {b}) \cup {c})
    BY FS_Singleton, FS_AddElement
  <2>2. catalog = ({a} \cup {b}) \cup {c}
    BY <1>7
  <2> QED BY <2>1, <2>2
<1>11. CatalogOf(catalog)
  BY <1>8, <1>10 DEF CatalogOf
<1> DEFINE primary == IF primaries THEN {e.id : e \in {v \in catalog : v.billing = "payg"}} ELSE {}
<1>12. /\ q.catalog = catalog /\ q.role = role /\ q.required = {"structured_json"}
       /\ q.excluded = {} /\ q.paidPrimaries = primary
  BY <1>1
<1>13. primary # {} => primary = {e.id : e \in {v \in catalog : v.billing = "payg"}}
  OBVIOUS
<1> HIDE DEF primary
<1>14. ASSUME NEW gone
       PROVE  ExcludesToo([q EXCEPT !.excluded = gone], q, gone)
  BY <1>1 DEF ExcludesToo
<1>15. LET s == [q EXCEPT !.allowPaidFallback = FALSE] IN
         /\ ~s.allowPaidFallback /\ s.excluded = q.excluded /\ s.role = q.role
         /\ s.primary = q.primary /\ s.mode = q.mode /\ s.required = q.required
         /\ s.paidPrimaries = q.paidPrimaries
  BY <1>1
<1>16. ASSUME NEW e \in catalog
       PROVE  /\ e.id \in 1..3 /\ e.enabled /\ role \in e.roles
              /\ e.billing \in {"free", "subscription", "payg"}
              /\ \A m \in e.models :
                   m.billing = e.billing /\ ("structured_json" \in m.capabilities => m.id = 1)
              /\ \E m \in e.models : "structured_json" \in m.capabilities
  BY <1>8
<1> QED BY <1>9, <1>11, <1>12, <1>13, <1>14, <1>15, <1>16

Gone == SUBSET {1, 2, 3}

\* d is where a request is routed to without some of the providers.
Routed(d) ==
    \A gone \in Gone : \/ d[gone].kind = "defer"
                       \/ d[gone].kind = "route" /\ d[gone].provider \in {1, 2, 3} \ gone

\* One more of the routes that follow one another.
Further(d, f) ==
    [gone \in Gone |-> IF d[gone].kind = "defer" THEN <<>>
                       ELSE <<d[gone]>> \o f[gone \cup {d[gone].provider}]]

\* f and g are the same wherever no provider is left but these.
Agree(f, g, x, y, z) == \A gone \in Gone : {1, 2, 3} \ gone \subseteq {x, y, z} => f[gone] = g[gone]

LEMMA FurtherAgrees ==
    ASSUME NEW d, Routed(d), NEW f, NEW g
    PROVE  /\ \A gone \in Gone : {1, 2, 3} \ gone = {} => Further(d, f)[gone] = Further(d, g)[gone]
           /\ (\A gone \in Gone : {1, 2, 3} \ gone = {} => f[gone] = g[gone])
                => \A x : Agree(Further(d, f), Further(d, g), x, x, x)
           /\ (\A x : Agree(f, g, x, x, x)) => \A x, y : Agree(Further(d, f), Further(d, g), x, y, y)
           /\ (\A x, y : Agree(f, g, x, y, y))
                => \A x, y, z : Agree(Further(d, f), Further(d, g), x, y, z)
<1>1. ASSUME NEW gone \in Gone
      PROVE  \/ Further(d, f)[gone] = Further(d, g)[gone]
             \/ \E p \in {1, 2, 3} \ gone :
                  /\ gone \cup {p} \in Gone
                  /\ f[gone \cup {p}] = g[gone \cup {p}]
                       => Further(d, f)[gone] = Further(d, g)[gone]
  <2>1. CASE d[gone].kind = "defer"
    BY <2>1 DEF Further
  <2>2. CASE d[gone].kind = "route" /\ d[gone].provider \in {1, 2, 3} \ gone
    <3> DEFINE p == d[gone].provider
    <3>1. gone \cup {p} \in Gone
      BY <2>2 DEF Gone
    <3>2. Further(d, f)[gone] = <<d[gone]>> \o f[gone \cup {p}]
      BY <2>2 DEF Further
    <3>3. Further(d, g)[gone] = <<d[gone]>> \o g[gone \cup {p}]
      BY <2>2 DEF Further
    <3> HIDE DEF p
    <3>4. p \in {1, 2, 3} \ gone
      BY <2>2 DEF p
    <3>5. f[gone \cup {p}] = g[gone \cup {p}] => Further(d, f)[gone] = Further(d, g)[gone]
      BY <3>2, <3>3
    <3> QED BY <3>1, <3>4, <3>5
  <2> QED BY <2>1, <2>2 DEF Routed
<1> DEFINE F == Further(d, f)
           G == Further(d, g)
<1> HIDE DEF F, G
<1>2. \A gone \in Gone : {1, 2, 3} \ gone = {} => F[gone] = G[gone]
  BY <1>1 DEF F, G
<1>3. ASSUME \A gone \in Gone : {1, 2, 3} \ gone = {} => f[gone] = g[gone],
             NEW x, NEW gone \in Gone, {1, 2, 3} \ gone \subseteq {x, x, x}
      PROVE  F[gone] = G[gone]
  <2>1. SUFFICES ASSUME F[gone] # G[gone] PROVE FALSE
    OBVIOUS
  <2>2. PICK p \in {1, 2, 3} \ gone : gone \cup {p} \in Gone /\ f[gone \cup {p}] # g[gone \cup {p}]
    BY <1>1, <2>1 DEF F, G
  <2>3. {1, 2, 3} \ (gone \cup {p}) = {}
    BY <1>3
  <2> QED BY <1>3, <2>2, <2>3
<1>4. ASSUME \A x : Agree(f, g, x, x, x),
             NEW x, NEW y, NEW gone \in Gone, {1, 2, 3} \ gone \subseteq {x, y, y}
      PROVE  F[gone] = G[gone]
  <2>1. SUFFICES ASSUME F[gone] # G[gone] PROVE FALSE
    OBVIOUS
  <2>2. PICK p \in {1, 2, 3} \ gone : gone \cup {p} \in Gone /\ f[gone \cup {p}] # g[gone \cup {p}]
    BY <1>1, <2>1 DEF F, G
  <2>3. \/ {1, 2, 3} \ (gone \cup {p}) \subseteq {x, x, x}
        \/ {1, 2, 3} \ (gone \cup {p}) \subseteq {y, y, y}
    BY <1>4
  <2> QED BY <1>4, <2>2, <2>3 DEF Agree
<1>5. ASSUME \A x, y : Agree(f, g, x, y, y),
             NEW x, NEW y, NEW z, NEW gone \in Gone, {1, 2, 3} \ gone \subseteq {x, y, z}
      PROVE  F[gone] = G[gone]
  <2>1. SUFFICES ASSUME F[gone] # G[gone] PROVE FALSE
    OBVIOUS
  <2>2. PICK p \in {1, 2, 3} \ gone : gone \cup {p} \in Gone /\ f[gone \cup {p}] # g[gone \cup {p}]
    BY <1>1, <2>1 DEF F, G
  <2>3. \/ {1, 2, 3} \ (gone \cup {p}) \subseteq {y, z, z}
        \/ {1, 2, 3} \ (gone \cup {p}) \subseteq {x, z, z}
        \/ {1, 2, 3} \ (gone \cup {p}) \subseteq {x, y, y}
    BY <1>5
  <2> QED BY <1>5, <2>2, <2>3 DEF Agree
<1> QED BY <1>2, <1>3, <1>4, <1>5 DEF Agree, F, G

\* The routes that follow one another are what they are defined to be.
LEMMA RoutesFollow ==
    ASSUME NEW d, Routed(d)
    PROVE  \E f : f = Further(d, f)
<1> DEFINE f0 == [gone \in Gone |-> <<>>]
           f1 == Further(d, f0)
           f2 == Further(d, f1)
           f3 == Further(d, f2)
           f4 == Further(d, f3)
           f5 == Further(d, f4)
<1> HIDE DEF f0
<1>1. \A gone \in Gone : {1, 2, 3} \ gone = {} => f1[gone] = f2[gone]
  BY FurtherAgrees
<1>2. f2 = Further(d, f1) /\ f3 = Further(d, f2) /\ f4 = Further(d, f3) /\ f5 = Further(d, f4)
  OBVIOUS
<1> HIDE DEF f1, f2, f3, f4, f5
<1>3. \A x : Agree(f2, f3, x, x, x)
  BY <1>1, <1>2, FurtherAgrees
<1>4. \A x, y : Agree(f3, f4, x, y, y)
  BY <1>2, <1>3, FurtherAgrees
<1>5. \A x, y, z : Agree(f4, f5, x, y, z)
  BY <1>2, <1>4, FurtherAgrees
<1>6. \A gone \in Gone : f4[gone] = f5[gone]
  BY <1>5 DEF Agree
<1>7. ASSUME NEW f, NEW g, f = Further(d, g)
      PROVE  f = [gone \in Gone |-> f[gone]]
  BY <1>7 DEF Further
<1>8. f4 = f5
  <2>1. f4 = [gone \in Gone |-> f4[gone]] /\ f5 = [gone \in Gone |-> f5[gone]]
    BY <1>2, <1>7
  <2> QED BY <1>6, <2>1
<1> QED BY <1>2, <1>8

\* Some of three, in the order they are asked in: each once, until nobody is left.
Asks(routes, d, serving) ==
    \/ routes = <<>> /\ serving = {}
    \/ \E p \in {1, 2, 3} :
         /\ serving = {p} /\ d[{}].provider = p
         /\ routes = <<d[{}]>>
    \/ \E p, r \in {1, 2, 3} :
         /\ p # r /\ serving = {p, r} /\ d[{}].provider = p /\ d[{p}].provider = r
         /\ routes = <<d[{}], d[{p}]>>
    \/ \E p, r, s \in {1, 2, 3} :
         /\ p # r /\ p # s /\ r # s /\ serving = {p, r, s}
         /\ d[{}].provider = p /\ d[{p}].provider = r /\ d[{p, r}].provider = s
         /\ routes = <<d[{}], d[{p}], d[{p, r}]>>

\* d defers when nobody is left that serves, and else is routed to one that does.
RoutedTo(d, serving) ==
    /\ serving \subseteq {1, 2, 3}
    /\ \A gone \in Gone :
         \/ d[gone].kind = "defer" /\ serving \subseteq gone
         \/ d[gone].kind = "route" /\ d[gone].provider \in serving \ gone

LEMMA OneBefore ==
    ASSUME NEW T, NEW a \in T, NEW s \in Seq(T), NEW t, t = <<a>> \o s
    PROVE  /\ t \in Seq(T) /\ Len(t) = Len(s) + 1
           /\ t[1] = a /\ \A n \in 1..Len(s) : t[n + 1] = s[n]
<1> DEFINE x == <<a>>
<1>1. x \in Seq(T) /\ Len(x) = 1 /\ x[1] = a
  OBVIOUS
<1> HIDE DEF x
<1>2. t = x \o s
  BY DEF x
<1>3. /\ t \in Seq(T) /\ Len(t) = 1 + Len(s)
      /\ \A i \in 1..1 + Len(s) : t[i] = IF i <= 1 THEN x[i] ELSE s[i - 1]
  BY <1>1, <1>2, ConcatProperties
<1>4. Len(s) \in Nat
  OBVIOUS
<1>5. ASSUME NEW n \in 1..Len(s)
      PROVE  t[n + 1] = s[n]
  <2>1. n + 1 \in 1..1 + Len(s) /\ ~(n + 1 <= 1) /\ n + 1 - 1 = n
    BY <1>4
  <2> QED BY <1>3, <2>1
<1>6. t[1] = a
  <2>1. 1 \in 1..1 + Len(s) /\ 1 <= 1
    BY <1>4
  <2> QED BY <1>1, <1>3, <2>1
<1> QED BY <1>3, <1>4, <1>5, <1>6

LEMMA JoinOne ==
    ASSUME NEW a, NEW b, NEW c
    PROVE  /\ <<a>> \o <<>> = <<a>>
           /\ <<a>> \o <<b>> = <<a, b>>
           /\ <<a>> \o <<b, c>> = <<a, b, c>>
<1> DEFINE T == {a, b, c}
<1>1. a \in T /\ <<>> \in Seq(T) /\ <<b>> \in Seq(T) /\ <<b, c>> \in Seq(T)
      /\ <<a>> \in Seq(T) /\ <<a, b, c>> \in Seq(T) /\ <<a, b>> \in Seq(T)
  OBVIOUS
<1> HIDE DEF T
<1>2. <<a>> \o <<>> = <<a>>
  BY <1>1, ConcatEmptySeq
<1>3. <<a>> \o <<b>> = <<a, b>>
  <2> DEFINE s == <<b>>
             t == <<a>> \o s
             u == <<a, b>>
  <2>1. Len(s) = 1 /\ s[1] = b /\ Len(u) = 2 /\ u[1] = a /\ u[2] = b /\ 1 \in 1..1
    OBVIOUS
  <2> HIDE DEF s
  <2>2. s \in Seq(T) /\ u \in Seq(T)
    BY <1>1 DEF s
  <2>3. t \in Seq(T) /\ Len(t) = 1 + 1 /\ t[1] = a /\ t[1 + 1] = s[1]
    BY <1>1, <2>1, <2>2, OneBefore
  <2> HIDE DEF t, u
  <2>4. \A n \in 1..Len(t) : t[n] = u[n]
    BY <2>1, <2>3
  <2>5. t = u
    BY <2>1, <2>2, <2>3, <2>4, SeqEqual
  <2> QED BY <2>5 DEF s, t, u
<1>4. <<a>> \o <<b, c>> = <<a, b, c>>
  <2> DEFINE s == <<b, c>>
             t == <<a>> \o s
             u == <<a, b, c>>
  <2>1. /\ Len(s) = 2 /\ s[1] = b /\ s[2] = c /\ 1 \in 1..2 /\ 2 \in 1..2
        /\ Len(u) = 3 /\ u[1] = a /\ u[2] = b /\ u[3] = c
    OBVIOUS
  <2> HIDE DEF s
  <2>2. s \in Seq(T) /\ u \in Seq(T)
    BY <1>1 DEF s
  <2>3. t \in Seq(T) /\ Len(t) = 2 + 1 /\ t[1] = a /\ t[1 + 1] = s[1] /\ t[2 + 1] = s[2]
    <3>1. /\ t \in Seq(T) /\ Len(t) = Len(s) + 1
          /\ t[1] = a /\ \A n \in 1..Len(s) : t[n + 1] = s[n]
      <4> HIDE DEF u
      <4> QED BY <1>1, <2>2, OneBefore
    <3>2. 1 \in 1..Len(s) /\ 2 \in 1..Len(s)
      BY <2>1
    <3> HIDE DEF t, u
    <3> QED BY <2>1, <3>1, <3>2
  <2> HIDE DEF t, u
  <2>4. \A n \in 1..Len(t) : t[n] = u[n]
    BY <2>1, <2>3
  <2>5. t = u
    BY <2>1, <2>2, <2>3, <2>4, SeqEqual
  <2> QED BY <2>5 DEF s, t, u
<1> QED BY <1>2, <1>3, <1>4

LEMMA RoutesAre ==
    ASSUME NEW d, NEW serving, RoutedTo(d, serving), NEW f, f = Further(d, f)
    PROVE  Asks(f[{}], d, serving)
<1>1. \A gone \in Gone :
        \/ f[gone] = <<>> /\ serving \subseteq gone
        \/ /\ d[gone].kind = "route" /\ d[gone].provider \in serving \ gone
           /\ f[gone] = <<d[gone]>> \o f[gone \cup {d[gone].provider}]
  <2>1. ASSUME NEW gone \in Gone
        PROVE  f[gone] = IF d[gone].kind = "defer" THEN <<>>
                         ELSE <<d[gone]>> \o f[gone \cup {d[gone].provider}]
    BY DEF Further
  <2> QED BY <2>1 DEF RoutedTo
<1>2. serving \subseteq {1, 2, 3}
  BY DEF RoutedTo
<1>3. {} \in Gone
  BY DEF Gone
<1>4. CASE f[{}] = <<>> /\ serving \subseteq {}
  BY <1>4 DEF Asks
<1>5. ASSUME d[{}].provider \in serving, f[{}] = <<d[{}]>> \o f[{} \cup {d[{}].provider}]
      PROVE  Asks(f[{}], d, serving)
  <2> DEFINE p == d[{}].provider
             one == d[{}]
  <2>1. p \in serving /\ {p} \in Gone /\ f[{}] = <<one>> \o f[{p}]
    <3>1. {} \cup {p} = {p}
      OBVIOUS
    <3> QED BY <1>2, <1>5, <3>1 DEF Gone
  <2>2. CASE f[{p}] = <<>> /\ serving \subseteq {p}
    <3>1. f[{}] = <<one>>
      BY <2>1, <2>2
    <3> QED BY <1>2, <2>1, <2>2, <3>1 DEF Asks
  <2>3. ASSUME d[{p}].provider \in serving \ {p}, f[{p}] = <<d[{p}]>> \o f[{p} \cup {d[{p}].provider}]
        PROVE  Asks(f[{}], d, serving)
    <3> DEFINE r == d[{p}].provider
               two == d[{p}]
    <3>1. r \in serving /\ p # r /\ {p, r} \in Gone /\ f[{p}] = <<two>> \o f[{p, r}]
      <4>1. {p} \cup {r} = {p, r}
        OBVIOUS
      <4> QED BY <1>2, <2>1, <2>3, <4>1 DEF Gone
    <3>2. CASE f[{p, r}] = <<>> /\ serving \subseteq {p, r}
      <4>1. f[{}] = <<one, two>>
        <5> HIDE DEF one, two, p, r
        <5>1. f[{p}] = <<two>>
          BY <3>1, <3>2, JoinOne
        <5> QED BY <2>1, <5>1, JoinOne
      <4>2. serving = {p, r}
        BY <2>1, <3>1, <3>2
      <4> QED BY <1>2, <2>1, <3>1, <4>1, <4>2 DEF Asks
    <3>3. ASSUME d[{p, r}].provider \in serving \ {p, r},
                 f[{p, r}] = <<d[{p, r}]>> \o f[{p, r} \cup {d[{p, r}].provider}]
          PROVE  Asks(f[{}], d, serving)
      <4> DEFINE s == d[{p, r}].provider
                 three == d[{p, r}]
      <4>1. /\ s \in serving /\ s # p /\ s # r /\ {p, r, s} \in Gone
            /\ f[{p, r}] = <<three>> \o f[{p, r, s}]
        <5>1. {p, r} \cup {s} = {p, r, s}
          OBVIOUS
        <5> QED BY <1>2, <2>1, <3>1, <3>3, <5>1 DEF Gone
      <4>2. serving = {p, r, s}
        <5> HIDE DEF p, r, s
        <5> QED BY <1>2, <2>1, <3>1, <4>1
      <4>3. f[{p, r, s}] = <<>>
        BY <1>1, <4>1, <4>2
      <4>4. f[{}] = <<one, two, three>>
        <5> HIDE DEF one, two, three, p, r, s
        <5>1. f[{p, r}] = <<three>>
          BY <4>1, <4>3, JoinOne
        <5>2. f[{p}] = <<two, three>>
          BY <3>1, <5>1, JoinOne
        <5> QED BY <2>1, <5>2, JoinOne
      <4>5. p \in {1, 2, 3} /\ r \in {1, 2, 3} /\ s \in {1, 2, 3}
        <5> HIDE DEF p, r, s
        <5> QED BY <1>2, <2>1, <3>1, <4>1
      <4>6. p # r /\ p # s /\ r # s
        BY <3>1, <4>1
      <4>7. d[{}].provider = p /\ d[{p}].provider = r /\ d[{p, r}].provider = s
        OBVIOUS
      <4>8. f[{}] = <<d[{}], d[{p}], d[{p, r}]>>
        BY <4>4
      <4> HIDE DEF p, r, s, one, two, three
      <4> QED BY <4>2, <4>5, <4>6, <4>7, <4>8 DEF Asks
    <3> QED BY <1>1, <3>1, <3>2, <3>3
  <2> QED BY <1>1, <2>1, <2>2, <2>3
<1> QED BY <1>1, <1>3, <1>4, <1>5

\* Who serves a question's request, as RoutingSound says it.
ServesQuestion(q, e) ==
    /\ e.available
    /\ e.billing = "payg" => q.allowPaidFallback \/ e.id \in q.paidPrimaries
    /\ q.paidPrimaries # {} => e.billing = "payg"
    /\ ~(q.role = "strong_cross_validation" /\ e.id = q.primary)

LEMMA ServesIs ==
    ASSUME NEW q \in Cases!RouteQuestions, NEW gone, NEW more, ExcludesToo(more, q, gone),
           NEW e \in q.catalog, NEW m \in e.models
    PROVE  Serves(more, q.catalog, e, m)
             <=> ServesQuestion(q, e) /\ e.id \notin gone /\ "structured_json" \in m.capabilities
<1>1. /\ e.enabled /\ q.role \in e.roles /\ m.billing = e.billing
      /\ q.required = {"structured_json"} /\ q.excluded = {}
      /\ q.paidPrimaries # {} =>
           q.paidPrimaries = {x.id : x \in {y \in q.catalog : y.billing = "payg"}}
      /\ \A f \in q.catalog : e.id = f.id => e = f
  BY RouteQuestion
<1>2. /\ more.excluded = gone /\ more.role = q.role /\ more.primary = q.primary
      /\ more.required = q.required /\ more.paidPrimaries = q.paidPrimaries
      /\ more.allowPaidFallback = q.allowPaidFallback
  BY <1>1 DEF ExcludesToo
<1>3. Cases!R!SupportsCapabilities(m, more.required) <=> "structured_json" \in m.capabilities
  BY <1>1, <1>2 DEF Cases!R!SupportsCapabilities
<1>4. Cases!R!Permits(more, e, m)
        <=> (e.billing = "payg" => q.allowPaidFallback \/ e.id \in q.paidPrimaries)
  BY <1>1, <1>2 DEF Cases!R!Permits
<1>5. q.paidPrimaries # {} => (e.id \in q.paidPrimaries <=> e.billing = "payg")
  <2>1. ASSUME q.paidPrimaries # {}, e.id \in q.paidPrimaries
        PROVE  e.billing = "payg"
    <3>1. PICK f \in q.catalog : f.billing = "payg" /\ f.id = e.id
      BY <1>1, <2>1
    <3> QED BY <1>1, <3>1
  <2> QED BY <1>1, <2>1
<1>6. e.id \in Cases!R!Barred(more, {x.id : x \in q.catalog})
        <=> \/ e.id \in gone
            \/ q.role = "strong_cross_validation" /\ e.id = q.primary
            \/ q.paidPrimaries # {} /\ e.billing # "payg"
  <2>1. e.id \in {x.id : x \in q.catalog}
    OBVIOUS
  <2> QED BY <1>2, <1>5, <2>1 DEF Cases!R!Barred
<1> QED BY <1>1, <1>2, <1>3, <1>4, <1>6 DEF Serves, ServesQuestion

Serving(q) == {e.id : e \in {x \in q.catalog : ServesQuestion(q, x)}}
Paying(q, id) == \E e \in q.catalog : e.id = id /\ e.billing = "payg"
RoutesOf(q) ==
    [gone \in Gone |-> Cases!R!RouteAiRequest([q EXCEPT !.excluded = gone], q.catalog)]

\* Where a question's request is routed to without some of the providers.
LEMMA QuestionRouted ==
    ASSUME NEW q \in Cases!RouteQuestions, NEW gone, NEW route,
           route = Cases!R!RouteAiRequest([q EXCEPT !.excluded = gone], q.catalog)
    PROVE  \/ route.kind = "defer" /\ Serving(q) \subseteq gone
           \/ /\ route.kind = "route" /\ route.provider \in Serving(q) \ gone /\ route.model = 1
              /\ q.mode = "Saver" /\ Paying(q, route.provider) =>
                   \A p \in Serving(q) \ gone : Paying(q, p)
<1> DEFINE more == [q EXCEPT !.excluded = gone]
<1>1. ExcludesToo(more, q, gone) /\ CatalogOf(q.catalog)
  BY RouteQuestion
<1>2. \A e \in q.catalog :
        /\ \A m \in e.models :
             m.billing = e.billing /\ ("structured_json" \in m.capabilities => m.id = 1)
        /\ \E m \in e.models : "structured_json" \in m.capabilities
  BY RouteQuestion
<1>3. more.mode = q.mode
  BY <1>1 DEF ExcludesToo
<1>4. \A e, f \in q.catalog : e.id = f.id => e = f
  BY RouteQuestion
<1> HIDE DEF more
<1>5. \/ /\ route.kind = "defer"
         /\ \A e \in q.catalog : \A m \in e.models : ~Serves(more, q.catalog, e, m)
      \/ /\ route.kind = "route"
         /\ \E e \in q.catalog : \E m \in e.models :
              /\ route.provider = e.id /\ route.model = m.id
              /\ Serves(more, q.catalog, e, m)
              /\ \A f \in q.catalog : \A n \in f.models :
                   Serves(more, q.catalog, f, n) =>
                     /\ \/ RouteOf(more, f, n) = RouteOf(more, e, m)
                        \/ Cases!R!Before(more.mode, RouteOf(more, e, m), RouteOf(more, f, n))
                     /\ more.mode = "Saver" /\ m.billing = "payg" => n.billing = "payg"
  <2> DEFINE catalog == q.catalog
  <2>1. route = Cases!R!RouteAiRequest(more, catalog)
    BY DEF more
  <2>2. CatalogOf(catalog)
    BY <1>1
  <2> HIDE DEF catalog
  <2>3. \/ /\ route.kind = "defer"
           /\ \A e \in catalog : \A m \in e.models : ~Serves(more, catalog, e, m)
        \/ /\ route.kind = "route"
           /\ \E e \in catalog : \E m \in e.models :
                /\ route.provider = e.id /\ route.model = m.id
                /\ Serves(more, catalog, e, m)
                /\ \A f \in catalog : \A n \in f.models :
                     Serves(more, catalog, f, n) =>
                       /\ \/ RouteOf(more, f, n) = RouteOf(more, e, m)
                          \/ Cases!R!Before(more.mode, RouteOf(more, e, m), RouteOf(more, f, n))
                       /\ more.mode = "Saver" /\ m.billing = "payg" => n.billing = "payg"
    BY <2>1, <2>2, RouteServes
  <2> QED BY <2>3 DEF catalog
<1>6. ASSUME NEW f \in q.catalog, ServesQuestion(q, f), f.id \notin gone
      PROVE  \E n \in f.models : Serves(more, q.catalog, f, n)
  <2>1. PICK n \in f.models : "structured_json" \in n.capabilities
    BY <1>2
  <2>2. Serves(more, q.catalog, f, n)
    BY <1>1, <1>6, <2>1, ServesIs
  <2> QED BY <2>2
<1>7. CASE route.kind = "defer"
           /\ \A e \in q.catalog : \A m \in e.models : ~Serves(more, q.catalog, e, m)
  BY <1>6, <1>7 DEF Serving
<1>8. ASSUME route.kind = "route", NEW e \in q.catalog, NEW m \in e.models,
             route.provider = e.id, route.model = m.id, Serves(more, q.catalog, e, m),
             \A f \in q.catalog : \A n \in f.models :
               Serves(more, q.catalog, f, n) =>
                 (more.mode = "Saver" /\ m.billing = "payg" => n.billing = "payg")
      PROVE  /\ route.kind = "route" /\ route.provider \in Serving(q) \ gone /\ route.model = 1
             /\ q.mode = "Saver" /\ Paying(q, route.provider) =>
                  \A p \in Serving(q) \ gone : Paying(q, p)
  <2>1. ServesQuestion(q, e) /\ e.id \notin gone /\ "structured_json" \in m.capabilities
    BY <1>1, <1>8, ServesIs
  <2>2. route.provider \in Serving(q) \ gone /\ route.model = 1
    BY <1>2, <1>8, <2>1 DEF Serving
  <2>3. ASSUME q.mode = "Saver", Paying(q, route.provider), NEW p \in Serving(q) \ gone
        PROVE  Paying(q, p)
    <3>1. PICK f \in q.catalog : ServesQuestion(q, f) /\ f.id = p
      BY DEF Serving
    <3>2. PICK n \in f.models : Serves(more, q.catalog, f, n)
      BY <1>6, <2>3, <3>1
    <3>3. e.billing = "payg"
      BY <1>4, <1>8, <2>3 DEF Paying
    <3>4. f.billing = "payg"
      BY <1>2, <1>3, <1>8, <2>3, <3>2, <3>3
    <3> QED BY <3>1, <3>4 DEF Paying
  <2> QED BY <1>8, <2>2, <2>3
<1> QED BY <1>5, <1>7, <1>8

\* A Saver who may pay is routed where one who may not is, if that one is routed.
LEMMA ThriftyFirst ==
    ASSUME NEW q \in Cases!RouteQuestions, q.mode = "Saver", NEW thrifty, NEW route,
           thrifty = Cases!R!RouteAiRequest([q EXCEPT !.allowPaidFallback = FALSE], q.catalog),
           route = Cases!R!RouteAiRequest([q EXCEPT !.excluded = {}], q.catalog),
           thrifty.kind = "route"
    PROVE  route = thrifty
<1> DEFINE s == [q EXCEPT !.allowPaidFallback = FALSE]
           r == [q EXCEPT !.excluded = {}]
           catalog == q.catalog
           few == Cases!R!RouteCandidates(s, catalog)
           all == Cases!R!RouteCandidates(r, catalog)
<1>1. ExcludesToo(r, q, {}) /\ CatalogOf(catalog)
  BY RouteQuestion
<1>2. /\ ~s.allowPaidFallback /\ s.excluded = q.excluded /\ s.role = q.role
      /\ s.primary = q.primary /\ s.mode = q.mode /\ s.required = q.required
      /\ s.paidPrimaries = q.paidPrimaries /\ q.excluded = {}
  BY RouteQuestion
<1>3. thrifty = Cases!R!RouteAiRequest(s, catalog) /\ route = Cases!R!RouteAiRequest(r, catalog)
  OBVIOUS
<1>4. \A e \in catalog :
        /\ e.billing \in {"free", "subscription", "payg"}
        /\ \A m \in e.models : m.billing = e.billing
  BY RouteQuestion
<1>5. \A e, f \in catalog : e.id = f.id => e = f
  BY RouteQuestion
<1>6. q.paidPrimaries # {} =>
           q.paidPrimaries = {e.id : e \in {x \in catalog : x.billing = "payg"}}
  BY RouteQuestion
<1> HIDE DEF s, r, catalog
<1>7. Routes(few) /\ Routes(all)
  BY <1>1, RoutesTyped
<1>8. /\ \A c : c \in few <=> \E e \in catalog : \E m \in e.models :
                                c = RouteOf(s, e, m) /\ Serves(s, catalog, e, m)
      /\ \A c : c \in all <=> \E e \in catalog : \E m \in e.models :
                                c = RouteOf(r, e, m) /\ Serves(r, catalog, e, m)
  BY CandidatesAre
<1>16. few = Cases!R!RouteCandidates(s, catalog) /\ all = Cases!R!RouteCandidates(r, catalog)
  OBVIOUS
<1> HIDE DEF few, all
<1>9. /\ r.role = q.role /\ r.mode = "Saver" /\ s.mode = "Saver" /\ r.primary = q.primary
      /\ r.required = q.required /\ r.paidPrimaries = q.paidPrimaries /\ r.excluded = {}
      /\ r.allowPaidFallback = q.allowPaidFallback
  BY <1>1, <1>2 DEF ExcludesToo
<1>10. PICK c \in few :
         /\ thrifty = [kind |-> "route", provider |-> c.provider, model |-> c.model]
         /\ \A d \in few \ {c} : Cases!R!Before("Saver", c, d)
  <2>1. \/ thrifty.kind = "defer" /\ few = {}
        \/ thrifty.kind = "route" /\ RoutedFirst(thrifty, few, s.mode)
    BY <1>3, <1>7, <1>16, RouteIsFirst
  <2> QED BY <1>9, <2>1 DEF RoutedFirst
<1>11. ASSUME NEW e \in catalog, NEW m \in e.models
       PROVE  /\ RouteOf(s, e, m) = RouteOf(r, e, m)
              /\ RouteOf(s, e, m).billing = Cases!R!BillingRank[e.billing]
              /\ Serves(s, catalog, e, m) => Serves(r, catalog, e, m)
              /\ Serves(s, catalog, e, m) /\ q.paidPrimaries = {} => e.billing # "payg"
              /\ Serves(r, catalog, e, m) /\ (e.billing # "payg" \/ q.paidPrimaries # {})
                   => Serves(s, catalog, e, m)
  <2>1. RouteOf(s, e, m) = RouteOf(r, e, m)
    BY <1>2, <1>9 DEF RouteOf
  <2>2. RouteOf(s, e, m).billing = Cases!R!BillingRank[e.billing]
    BY <1>4 DEF RouteOf
  <2>3. Cases!R!Barred(s, {x.id : x \in catalog}) = Cases!R!Barred(r, {x.id : x \in catalog})
    BY <1>2, <1>9 DEF Cases!R!Barred
  <2>4. Cases!R!Permits(s, e, m) => Cases!R!Permits(r, e, m)
    BY <1>2, <1>9 DEF Cases!R!Permits
  <2>5. Cases!R!Permits(s, e, m) /\ q.paidPrimaries = {} => e.billing # "payg"
    BY <1>2 DEF Cases!R!Permits
  <2>6. ASSUME e.id \notin Cases!R!Barred(r, {x.id : x \in catalog}), q.paidPrimaries # {}
        PROVE  e.id \in s.paidPrimaries
    <3>1. e.id \in {x.id : x \in catalog}
      OBVIOUS
    <3> QED BY <1>2, <1>9, <2>6, <3>1 DEF Cases!R!Barred
  <2>7. (e.billing # "payg" \/ e.id \in s.paidPrimaries) => Cases!R!Permits(s, e, m)
    BY <1>4 DEF Cases!R!Permits
  <2> QED BY <1>2, <1>9, <2>1, <2>2, <2>3, <2>4, <2>5, <2>6, <2>7 DEF Serves
<1>12. c \in all
  BY <1>8, <1>11
<1>13. ASSUME NEW d \in all \ {c}
       PROVE  Cases!R!Before("Saver", c, d)
  <2>1. CASE d \in few
    BY <1>10, <1>13, <2>1
  <2>2. CASE d \notin few
    <3>1. PICK e \in catalog : \E m \in e.models :
                  d = RouteOf(r, e, m) /\ Serves(r, catalog, e, m)
      BY <1>8
    <3>2. PICK m \in e.models : d = RouteOf(r, e, m) /\ Serves(r, catalog, e, m)
      BY <3>1
    <3>3. e.billing = "payg" /\ q.paidPrimaries = {}
      BY <1>8, <1>11, <2>2, <3>2
    <3>4. PICK f \in catalog : \E n \in f.models : c = RouteOf(s, f, n) /\ Serves(s, catalog, f, n)
      BY <1>8
    <3>5. PICK n \in f.models : c = RouteOf(s, f, n) /\ Serves(s, catalog, f, n)
      BY <3>4
    <3>6. f.billing \in {"free", "subscription"}
      BY <1>4, <1>11, <3>3, <3>5
    <3>7. c.billing < d.billing
      BY <1>11, <3>2, <3>3, <3>5, <3>6 DEF Cases!R!BillingRank
    <3> QED BY <1>7, <1>12, <3>7, SaverPaysLast
  <2> QED BY <2>1, <2>2
<1>14. PICK b \in all :
         /\ route = [kind |-> "route", provider |-> b.provider, model |-> b.model]
         /\ \A d \in all \ {b} : Cases!R!Before("Saver", b, d)
  <2>1. \/ route.kind = "defer" /\ all = {}
        \/ route.kind = "route" /\ RoutedFirst(route, all, r.mode)
    BY <1>3, <1>7, <1>16, RouteIsFirst
  <2> QED BY <1>9, <1>12, <2>1 DEF RoutedFirst
<1>15. b = c
  <2>1. SUFFICES ASSUME b # c PROVE FALSE
    OBVIOUS
  <2>2. Cases!R!Before("Saver", b, c) /\ Cases!R!Before("Saver", c, b)
    BY <1>12, <1>13, <1>14, <2>1
  <2> QED BY <1>7, <1>12, <2>2, BeforeOnce
<1> QED BY <1>10, <1>14, <1>15

\* One step of the recursion of RouteAnswer.
Onward(q, f, gone) ==
    LET d == Cases!R!RouteAiRequest([q EXCEPT !.excluded = gone], q.catalog) IN
    IF d.kind = "defer" THEN <<>> ELSE <<d>> \o f[gone \cup {d.provider}]

LEMMA RoutesAnswered ==
    ASSUME NEW q \in Cases!RouteQuestions, NEW a, a = Cases!RouteAnswer(q)
    PROVE  /\ RoutedTo(RoutesOf(q), Serving(q))
           /\ Asks(a.routes, RoutesOf(q), Serving(q))
           /\ a.thrifty = Cases!R!RouteAiRequest([q EXCEPT !.allowPaidFallback = FALSE], q.catalog)
<1> DEFINE h == CHOOSE k : k = [gone \in SUBSET {1, 2, 3} |-> Onward(q, k, gone)]
           d == RoutesOf(q)
<1>1. /\ a.routes = h[{}]
      /\ a.thrifty = Cases!R!RouteAiRequest([q EXCEPT !.allowPaidFallback = FALSE], q.catalog)
  BY DEF Cases!RouteAnswer, Onward
<1>2. ASSUME NEW gone \in Gone
      PROVE  /\ d[gone] = Cases!R!RouteAiRequest([q EXCEPT !.excluded = gone], q.catalog)
             /\ \/ d[gone].kind = "defer" /\ Serving(q) \subseteq gone
                \/ d[gone].kind = "route" /\ d[gone].provider \in Serving(q) \ gone
  <2>1. d[gone] = Cases!R!RouteAiRequest([q EXCEPT !.excluded = gone], q.catalog)
    BY DEF RoutesOf
  <2> HIDE DEF d
  <2> QED BY <2>1, QuestionRouted
<1>3. Serving(q) \subseteq {1, 2, 3}
  <2>1. \A e \in q.catalog : e.id \in 1..3
    BY RouteQuestion
  <2>2. 1..3 = {1, 2, 3}
    OBVIOUS
  <2> QED BY <2>1, <2>2 DEF Serving
<1> HIDE DEF d
<1>4. RoutedTo(d, Serving(q))
  BY <1>2, <1>3 DEF RoutedTo
<1>5. Routed(d)
  BY <1>2, <1>3 DEF Routed
<1>6. \A f : Further(d, f) = [gone \in SUBSET {1, 2, 3} |-> Onward(q, f, gone)]
  <2> DEFINE Body(f, gone) == IF d[gone].kind = "defer" THEN <<>>
                              ELSE <<d[gone]>> \o f[gone \cup {d[gone].provider}]
  <2>1. ASSUME NEW f, NEW gone \in Gone
        PROVE  Body(f, gone) = Onward(q, f, gone)
    BY <1>2 DEF Onward
  <2>2. \A f : Further(d, f) = [gone \in SUBSET {1, 2, 3} |-> Body(f, gone)]
    BY DEF Further, Gone
  <2> HIDE DEF Body
  <2> QED BY <2>1, <2>2 DEF Gone
<1>7. \E f : f = [gone \in SUBSET {1, 2, 3} |-> Onward(q, f, gone)]
  BY <1>5, <1>6, RoutesFollow
<1>8. h = [gone \in SUBSET {1, 2, 3} |-> Onward(q, h, gone)]
  BY <1>7
<1> HIDE DEF h
<1>9. h = Further(d, h)
  BY <1>6, <1>8
<1>10. Asks(h[{}], d, Serving(q))
  BY <1>4, <1>9, RoutesAre
<1> QED BY <1>1, <1>4, <1>10 DEF d

\* A sequence of different providers has as many members as it is long.
LEMMA AskedAre ==
    ASSUME NEW s, NEW n \in Nat, DOMAIN s = 1..n, Len(s) = n, \A i, j \in 1..n : s[i] = s[j] => i = j
    PROVE  Cases!Cardinality(Cases!ToSet(s)) = Len(s)
<1>1. Cases!ToSet(s) = {s[i] : i \in 1..n}
  BY DEF Cases!ToSet
<1> DEFINE T == {s[i] : i \in 1..n}
           f == [i \in 1..n |-> s[i]]
<1>2. f \in Bijection(1..n, T)
  <2>1. f \in [1..n -> T] /\ \A t \in T : \E i \in 1..n : f[i] = t
    OBVIOUS
  <2>2. \A i, j \in 1..n : f[i] = f[j] => i = j
    OBVIOUS
  <2> HIDE DEF f, T
  <2> QED BY <2>1, <2>2 DEF Bijection, Injection, Surjection, IsInjective
<1>3. IsFiniteSet(1..n) /\ Cardinality(1..n) = n
  BY FS_Interval
<1> HIDE DEF f, T
<1>4. Cardinality(T) = n
  <2> DEFINE I == 1..n
  <2>1. f \in Surjection(I, T) /\ f \in Injection(I, T)
    BY <1>2 DEF Bijection
  <2>2. IsFiniteSet(I) /\ Cardinality(I) = n
    BY <1>3
  <2> HIDE DEF I
  <2>3. /\ IsFiniteSet(T) /\ Cardinality(T) <= Cardinality(I)
        /\ Cardinality(T) = Cardinality(I) <=> f \in Injection(I, T)
    BY <2>1, <2>2, FS_Surjection
  <2> QED BY <2>1, <2>2, <2>3
<1> QED BY <1>1, <1>4 DEF T, Cases!Cardinality, Cardinality

\* What RoutingSound says of the routes r of a question, whose providers are s.
RoutesSound(q, r, s) ==
    /\ DOMAIN s = 1..Len(r) /\ Len(s) = Len(r)
    /\ Len(r) \in Nat
    /\ {s[n] : n \in 1..Len(r)} = Serving(q)
    /\ \A m, n \in 1..Len(r) : s[m] = s[n] => m = n
    /\ \A n \in 1..Len(r) : r[n].model = 1
    /\ Len(r) # 0 => r[1] = RoutesOf(q)[{}]
    /\ q.mode = "Saver" => \A m, n \in 1..Len(r) : m < n /\ Paying(q, s[m]) => Paying(q, s[n])

LEMMA AsksSoundly ==
    ASSUME NEW q \in Cases!RouteQuestions, NEW r, Asks(r, RoutesOf(q), Serving(q)),
           RoutedTo(RoutesOf(q), Serving(q)),
           NEW s, s = [n \in 1..Len(r) |-> r[n].provider]
    PROVE  RoutesSound(q, r, s)
<1> DEFINE d == RoutesOf(q)
           saver == q.mode = "Saver"
<1>1. ASSUME NEW gone \in Gone
      PROVE  \/ d[gone].kind = "defer" /\ Serving(q) \subseteq gone
             \/ /\ d[gone].provider \in Serving(q) \ gone /\ d[gone].model = 1
                /\ saver /\ Paying(q, d[gone].provider) =>
                     \A p \in Serving(q) \ gone : Paying(q, p)
  <2>1. d[gone] = Cases!R!RouteAiRequest([q EXCEPT !.excluded = gone], q.catalog)
    BY DEF RoutesOf
  <2> HIDE DEF d
  <2> QED BY <2>1, QuestionRouted
<1> HIDE DEF d, saver
<1>3. CASE r = <<>> /\ Serving(q) = {}
  <2>1. Len(r) = 0 /\ 1..0 = {} /\ DOMAIN s = {} /\ DOMAIN s = 1..Len(r)
    BY <1>3
  <2>2. Len(s) = Len(r)
    BY <2>1
  <2> QED BY <1>3, <2>1, <2>2 DEF RoutesSound, d
<1>4. ASSUME NEW p \in {1, 2, 3}, Serving(q) = {p}, d[{}].provider = p, r = <<d[{}]>>
      PROVE  RoutesSound(q, r, s)
  <2>1. Len(r) = 1 /\ r[1] = d[{}] /\ 1..1 = {1}
    BY <1>4
  <2>2. {} \in Gone /\ d[{}].model = 1
    BY <1>1, <1>4 DEF Gone
  <2>3. s = [n \in 1..1 |-> r[n].provider]
    BY <2>1
  <2>4. DOMAIN s = 1..1 /\ Len(s) = 1 /\ s[1] = p
    BY <1>4, <2>1, <2>3
  <2> QED BY <1>4, <2>1, <2>2, <2>4 DEF RoutesSound, d
<1>5. ASSUME NEW p \in {1, 2, 3}, NEW t \in {1, 2, 3}, p # t, Serving(q) = {p, t},
             d[{}].provider = p, d[{p}].provider = t, r = <<d[{}], d[{p}]>>
      PROVE  RoutesSound(q, r, s)
  <2>1. Len(r) = 2 /\ r[1] = d[{}] /\ r[2] = d[{p}] /\ 1..2 = {1, 2}
    BY <1>5
  <2>2. /\ {} \in Gone /\ {p} \in Gone /\ d[{}].model = 1 /\ d[{p}].model = 1
        /\ saver /\ Paying(q, p) => Paying(q, t)
    BY <1>1, <1>5 DEF Gone
  <2>3. s = [n \in 1..2 |-> r[n].provider]
    BY <2>1
  <2>4. DOMAIN s = 1..2 /\ Len(s) = 2 /\ s[1] = p /\ s[2] = t
    BY <1>5, <2>1, <2>3
  <2> QED BY <1>5, <2>1, <2>2, <2>4 DEF RoutesSound, d, saver
<1>6. ASSUME NEW p \in {1, 2, 3}, NEW t \in {1, 2, 3}, NEW u \in {1, 2, 3},
             p # t, p # u, t # u, Serving(q) = {p, t, u},
             d[{}].provider = p, d[{p}].provider = t, d[{p, t}].provider = u,
             r = <<d[{}], d[{p}], d[{p, t}]>>
      PROVE  RoutesSound(q, r, s)
  <2>1. Len(r) = 3 /\ r[1] = d[{}] /\ r[2] = d[{p}] /\ r[3] = d[{p, t}] /\ 1..3 = {1, 2, 3}
    BY <1>6
  <2>2. /\ {} \in Gone /\ {p} \in Gone /\ {p, t} \in Gone
        /\ d[{}].model = 1 /\ d[{p}].model = 1 /\ d[{p, t}].model = 1
        /\ saver /\ Paying(q, p) => Paying(q, t) /\ Paying(q, u)
        /\ saver /\ Paying(q, t) => Paying(q, u)
    BY <1>1, <1>6 DEF Gone
  <2>3. s = [n \in 1..3 |-> r[n].provider]
    BY <2>1
  <2>4. DOMAIN s = 1..3 /\ Len(s) = 3 /\ s[1] = p /\ s[2] = t /\ s[3] = u
    BY <1>6, <2>1, <2>3
  <2> QED BY <1>6, <2>1, <2>2, <2>4 DEF RoutesSound, d, saver
<1> QED BY <1>3, <1>4, <1>5, <1>6 DEF Asks, d

LEMMA RoutingHolds ==
    ASSUME CasesInv
    PROVE  Cases!RoutingSound
<1> SUFFICES ASSUME Cases!Asked("route") PROVE Cases!RoutingSound
  BY DEF Cases!RoutingSound
<1> DEFINE q == question
           r == answer.routes
           s == [n \in 1..Len(r) |-> r[n].provider]
<1>1. q \in Cases!RouteQuestions /\ answer = Cases!RouteAnswer(q)
  BY DEF CasesInv
<1>2. /\ RoutedTo(RoutesOf(q), Serving(q)) /\ Asks(r, RoutesOf(q), Serving(q))
      /\ answer.thrifty
           = Cases!R!RouteAiRequest([q EXCEPT !.allowPaidFallback = FALSE], q.catalog)
  BY <1>1, RoutesAnswered
<1>3. RoutesSound(q, r, s)
  BY <1>1, <1>2, AsksSoundly
<1>4. q.mode = "Saver" /\ answer.thrifty.kind = "route" => r[1] = answer.thrifty
  <2>1. SUFFICES ASSUME q.mode = "Saver", answer.thrifty.kind = "route"
                 PROVE  r[1] = answer.thrifty
    OBVIOUS
  <2> DEFINE d == RoutesOf(q)
             thrifty == answer.thrifty
  <2>2. d[{}] = Cases!R!RouteAiRequest([q EXCEPT !.excluded = {}], q.catalog)
    BY DEF RoutesOf, Gone
  <2> HIDE DEF d, thrifty
  <2>3. d[{}] = thrifty
    BY <1>1, <1>2, <2>1, <2>2, ThriftyFirst DEF thrifty
  <2>4. d[{}].kind = "route"
    BY <2>1, <2>3 DEF thrifty
  <2>5. ~(Serving(q) \subseteq {})
    <3>1. {} \in Gone
      BY DEF Gone
    <3> QED BY <1>2, <2>4, <3>1 DEF RoutedTo, d
  <2>6. Len(r) # 0
    <3>1. {s[n] : n \in 1..Len(r)} = Serving(q)
      BY <1>3 DEF RoutesSound
    <3> HIDE DEF r, s
    <3>2. 1..0 = {}
      OBVIOUS
    <3> QED BY <2>5, <3>1, <3>2
  <2> QED BY <1>3, <2>3, <2>6 DEF RoutesSound, d, thrifty
<1> HIDE DEF r, s
<1>5. Cases!ToSet(s) = Serving(q)
  BY <1>3 DEF Cases!ToSet, RoutesSound
<1>6. Cases!Cardinality(Cases!ToSet(s)) = Len(s)
  BY <1>3, AskedAre DEF RoutesSound
<1>7. \A n \in 1..Len(s) : r[n].model = 1
  BY <1>3 DEF RoutesSound
<1>8. q.mode = "Saver" => \A m, n \in 1..Len(s) : m < n /\ Paying(q, s[m]) => Paying(q, s[n])
  BY <1>3 DEF RoutesSound
<1> QED BY <1>4, <1>5, <1>6, <1>7, <1>8 DEF Cases!RoutingSound, Serving, ServesQuestion, Paying, r, s

-----------------------------------------------------------------------------
(***************************************************************************)
(* The whole                                                               *)
(***************************************************************************)
ResearchInv == CsvInv /\ PaidInv /\ NotesInv /\ CasesInv

LEMMA ResearchInvariant == Spec => []ResearchInv
<1>1. Init => ResearchInv
  BY CsvInit, PaidInit, NotesInit, CasesInit DEF Init, ResearchInv
<1>2. ResearchInv /\ [Next]_vars => ResearchInv'
  <2> SUFFICES ASSUME ResearchInv, [Next]_vars PROVE ResearchInv'
    OBVIOUS
  <2>1. [Csv!Next]_csv /\ [Paid!Next]_paid /\ [Notes!Next]_notes /\ [Cases!Next]_cases
    BY DEF Next, vars, csv, paid, notes, cases
  <2>2. CsvInv'
    BY <2>1, CsvStep DEF ResearchInv
  <2>3. PaidInv'
    BY <2>1, PaidStep DEF ResearchInv
  <2>4. NotesInv'
    BY <2>1, NotesStep DEF ResearchInv
  <2>5. CasesInv'
    BY <2>1, CasesStep DEF ResearchInv
  <2>6. QED
    BY <2>2, <2>3, <2>4, <2>5 DEF ResearchInv
<1>3. QED
  BY <1>1, <1>2, PTL DEF Spec

\* Import, paid research and notifications keep their types, for any number of
\* windows, attempts, versions and notes.
THEOREM TypesStay == Spec => []TypeOK
<1>1. ResearchInv => TypeOK
  BY DEF ResearchInv, CsvInv, PaidInv, NotesInv, TypeOK
<1>2. QED
  BY <1>1, ResearchInvariant, PTL

\* However many attempts import the rows of a submission and wherever they stop, a
\* run that is shown as completed has rows in every table.
THEOREM ImportsAreWhole == Spec => []CompletedIsWhole
<1>1. ResearchInv => CompletedIsWhole
  BY DEF ResearchInv, CsvInv, CompletedIsWhole, Csv!CompletedIsWhole
<1>2. QED
  BY <1>1, ResearchInvariant, PTL

\* Whatever evidence follows while jobs wait, an attempt that is about to pay goes
\* by the evidence that was the latest when it began.
THEOREM HoldsBlock == Spec => []HoldBlocks
<1>1. ResearchInv => HoldBlocks
  BY DEF ResearchInv, PaidInv, HoldBlocks
<1>2. QED
  BY <1>1, ResearchInvariant, PTL

\* However senders and digests overlap, and whatever they take a lost answer for,
\* what is marked as delivered was told.
THEOREM DeliveredStaysTold == Spec => []DeliveredWasTold
<1>1. ResearchInv => DeliveredWasTold
  BY DEF ResearchInv, NotesInv, DeliveredWasTold, Notes!DeliveredWasTold
<1>2. QED
  BY <1>1, ResearchInvariant, PTL

\* Whatever is asked about a row: its score is a percentage, its price fits as far as
\* the rules allow, and it is screened exactly if they object to nothing.
THEOREM ScoresAreSound == Spec => []ScoresSound
<1>1. ResearchInv => ScoresSound
  BY RowsHold DEF ResearchInv, CasesInv, ScoresSound
<1>2. QED
  BY <1>1, ResearchInvariant, PTL

\* Whatever is asked about the business evidence of a candidate: purchase review means
\* that nothing is missing, and nothing is paid for when nothing is missing or known
\* costs are too high.
THEOREM BusinessIsSound == Spec => []BusinessSound
<1>1. ResearchInv => BusinessSound
  BY BusinessHolds DEF ResearchInv, BusinessSound
<1>2. QED
  BY <1>1, ResearchInvariant, PTL

\* Whatever is asked about the needs of a candidate: it is planned exactly if something
\* is not known, and gets jobs for what is not known alone; and whatever is asked about
\* routes: going on after failures asks every provider that can serve the request once,
\* in order, and pays only where that is allowed.
THEOREM ChoicesAreSound == Spec => []ChoicesSound
<1>1. ResearchInv => ChoicesSound
  BY NeedsHold, RoutingHolds DEF ResearchInv, ChoicesSound
<1>2. QED
  BY <1>1, ResearchInvariant, PTL

\* The job of a submission changes only as the queue promises: every step of an
\* upload or an attempt is a step of JobLifecycle or leaves the job alone.
LEMMA JobKeepsLifecycle ==
    ASSUME CsvInv, [Csv!Next]_csv
    PROVE  [Lifecycle!Next]_(Lifecycle!vars)
<1> USE ResearchAssumption
<1>1. /\ job.status \in {"absent", "queued", "running", "completed", "failed"}
      /\ job.epoch \in 0..MaxAttempts /\ job.live \in BOOLEAN /\ job \in JobRow
  BY CsvTypes DEF CsvInv, JobRow
<1>2. ASSUME job'.status = job.status, job'.epoch = job.epoch
      PROVE  UNCHANGED Lifecycle!vars
  BY <1>2 DEF Lifecycle!vars
<1>3. ASSUME NEW u \in Upload, Csv!Enqueue(u), job' # job
      PROVE  Lifecycle!Next
  <2>1. /\ job.status = "absent" /\ job'.status = "queued" /\ job'.epoch = job.epoch
    BY <1>1, <1>3 DEF Csv!Enqueue, JobRow
  <2>2. Lifecycle!Add(1)
    BY <2>1 DEF Lifecycle!Add
  <2>3. QED
    BY <2>2 DEF Lifecycle!Next
<1>4. ASSUME Csv!Claim PROVE Lifecycle!Next
  <2>1. /\ job.status \in {"queued", "running"} /\ job.epoch < MaxAttempts
        /\ job'.status = "running" /\ job'.epoch = job.epoch + 1
    BY <1>1, <1>4 DEF Csv!Claim, JobRow
  <2>2. Lifecycle!Take({1})
    BY <2>1 DEF Lifecycle!Take
  <2>3. QED
    BY <2>2 DEF Lifecycle!Next
<1>5. ASSUME Csv!LeaseLapses PROVE Lifecycle!Next \/ UNCHANGED Lifecycle!vars
  <2>1. CASE job.epoch = MaxAttempts
    <3>1. /\ job.status = "running" /\ job'.status = "failed" /\ job'.epoch = job.epoch
      BY <1>1, <1>5, <2>1 DEF Csv!LeaseLapses, JobRow
    <3>2. Lifecycle!GiveUp({1})
      BY <2>1, <3>1 DEF Lifecycle!GiveUp
    <3>3. QED
      BY <3>2 DEF Lifecycle!Next
  <2>2. CASE job.epoch # MaxAttempts
    BY <1>1, <1>2, <1>5, <2>2 DEF Csv!LeaseLapses, JobRow
  <2>3. QED
    BY <2>1, <2>2
<1>6. ASSUME NEW e \in Csv!Epoch, Csv!Report(e)
      PROVE  Lifecycle!Next \/ UNCHANGED Lifecycle!vars
  <2>1. CASE ~Csv!Holds(e)
    BY <1>2, <1>6, <2>1 DEF Csv!Report
  <2>2. CASE Csv!Holds(e)
    <3>1. job.status = "running" /\ job.epoch = e
      BY <2>2 DEF Csv!Holds
    <3>2. /\ job'.epoch = job.epoch
          /\ job'.status = CASE work[e].pc = "reporting" -> "completed"
                             [] e = MaxAttempts -> "failed"
                             [] OTHER -> "queued"
      BY <1>1, <1>6, <2>2 DEF Csv!Report, JobRow
    <3>3. CASE work[e].pc = "reporting" /\ job'.status = "completed"
      <4>1. Lifecycle!Finish(1)
        BY <3>1, <3>2, <3>3 DEF Lifecycle!Finish
      <4>2. QED
        BY <4>1 DEF Lifecycle!Next
    <3>4. CASE e = MaxAttempts /\ job'.status = "failed"
      <4>1. Lifecycle!GiveUp({1})
        BY <3>1, <3>2, <3>4 DEF Lifecycle!GiveUp
      <4>2. QED
        BY <4>1 DEF Lifecycle!Next
    <3>5. CASE e # MaxAttempts /\ job'.status = "queued"
      <4>1. job.epoch < MaxAttempts
        BY <1>1, <3>1, <3>5
      <4>2. Lifecycle!PutBack(1)
        BY <3>1, <3>2, <3>5, <4>1 DEF Lifecycle!PutBack
      <4>3. QED
        BY <4>2 DEF Lifecycle!Next
    <3>6. work[e].pc \in {"reporting", "failing"}
      BY <1>6 DEF Csv!Report
    <3>7. QED
      BY <3>2, <3>3, <3>4, <3>5, <3>6
  <2>3. QED
    BY <2>1, <2>2
<1>7. ASSUME job' = job PROVE UNCHANGED Lifecycle!vars
  BY <1>2, <1>7
<1>8. CASE UNCHANGED csv
  BY <1>7, <1>8 DEF csv
<1>9. CASE \E u \in Upload : \/ Csv!FindExisting(u) \/ Csv!InsertRun(u) \/ Csv!StoreFiles(u)
                             \/ Csv!Enqueue(u) \/ Csv!FailUpload(u)
  <2>1. \/ job' = job
        \/ \E u \in Upload : Csv!Enqueue(u) /\ job' # job
    BY <1>9 DEF Csv!FindExisting, Csv!InsertRun, Csv!StoreFiles, Csv!FailUpload
  <2>2. QED
    BY <1>3, <1>7, <2>1
<1>10. CASE Csv!Claim \/ Csv!LeaseLapses \/ Csv!Screen
  BY <1>4, <1>5, <1>7, <1>10 DEF Csv!Screen
<1>11. CASE \E e \in Csv!Epoch : \/ Csv!Dies(e) \/ Csv!Download(e) \/ Csv!AssertImportRun(e)
                                 \/ Csv!Parse(e) \/ Csv!Upsert(e) \/ Csv!CompleteRun(e)
                                 \/ Csv!CatchError(e) \/ Csv!Report(e)
  <2>1. job' = job \/ \E e \in Csv!Epoch : Csv!Report(e)
    BY <1>11 DEF Csv!Dies, Csv!Download, Csv!AssertImportRun, Csv!Parse, Csv!Upsert,
                 Csv!CompleteRun, Csv!CatchError
  <2>2. QED
    BY <1>6, <1>7, <2>1
<1>12. QED
  BY <1>8, <1>9, <1>10, <1>11 DEF Csv!Next

\* The job of a submission behaves as JobLifecycle, the specification the queue
\* implements: an attempt that was overtaken neither puts it back nor ends it.
THEOREM JobRefinement == Spec => ImplementsLifecycle
<1>1. Init => Lifecycle!Init
  BY DEF Init, Csv!Init, Lifecycle!Init
<1>2. ResearchInv /\ [Next]_vars => [Lifecycle!Next]_(Lifecycle!vars)
  <2> SUFFICES ASSUME ResearchInv, [Next]_vars
               PROVE  [Lifecycle!Next]_(Lifecycle!vars)
    OBVIOUS
  <2>1. CsvInv /\ [Csv!Next]_csv
    BY DEF ResearchInv, Next, vars, csv
  <2>2. QED
    BY <2>1, JobKeepsLifecycle
<1>3. QED
  BY <1>1, <1>2, ResearchInvariant, PTL DEF Spec, ImplementsLifecycle, Lifecycle!Spec
=============================================================================
