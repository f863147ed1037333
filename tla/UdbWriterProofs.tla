-------------------------- MODULE UdbWriterProofs --------------------------
(* Proofs about UdbWriter, for every set of requests and every bound: the order in *)
(* which jobs are taken, made durable and reported, and what the ledger of durable *)
(* jobs and their receipts say.  Jobs are numbered as they are submitted and every *)
(* list they pass through is a queue, so each list is an interval of the numbers.  *)
EXTENDS UdbWriter, SequenceTheorems, FiniteSetTheorems, TLAPS

-----------------------------------------------------------------------------
(* Types.                                                                     *)

\* What a delivery asks for.
Asked == {r \in Requests : r.kind \in Mutations}

\* Mutations leave the catalog of pending stages alone.
Roots == [src : Sources \cup {NoSource}, seq : Nat, blocks : [Blocks -> Nat],
          stages : [Owners -> {NoStage}], log : Seq(Nat)]

JobRecords == [req : Asked, rev : Nat, result : Results, cancelled : BOOLEAN,
               committing : BOOLEAN, before : Roots, after : Roots]

Types ==
    /\ pc \in {"wait", "check", "prepare", "commit", "install", "complete", "ended"}
    /\ job \in Seq(JobRecords)
    /\ pending \in Seq(Nat) /\ group \in Seq(Nat) /\ completed \in Seq(Nat)
    /\ polled \in [told : Seq(Nat), refused : SUBSET Nat]
    /\ candidate \in Roots /\ durable \in Roots
    /\ at \in Nat /\ spins \in 0 .. MaxContinue
    /\ outcome \in {"OK", "BUSY", "LIMIT", "ERROR"}
    /\ detached \in Nat
    /\ buffered \in Seq([req : Asked, rev : Nat])
    /\ authority \in 1 .. MaxAuthority + 1
    /\ admission \in BOOLEAN /\ failed \in BOOLEAN /\ stopping \in BOOLEAN
    /\ life \in {"up", "stopping", "closed", "abort"}
    /\ revoked \in SUBSET Nat

-----------------------------------------------------------------------------
(* The line of jobs.                                                          *)

\* Jobs up to these numbers were taken by the writer, handed over, polled.
Taken == Len(job) - Len(pending)
Handed == Taken - Len(group)
Seen == Handed - Len(completed)

Line ==
    /\ 0 <= Seen
    /\ \A i \in 1 .. Len(pending) : pending[i] = Taken + i
    /\ \A i \in 1 .. Len(group) : group[i] = Handed + i
    /\ \A i \in 1 .. Len(completed) : completed[i] = Seen + i
    /\ detached \in {NoJob, Seen}
    /\ life # "up" => detached = NoJob

Preparing == {"check", "prepare", "commit"}

Phase ==
    /\ pc \in {"wait", "ended"} => group = <<>>
    /\ pc = "ended" => pending = <<>> /\ stopping
    /\ pc \in {"check", "prepare"} => at \in 1 .. Len(group) + 1
    /\ pc = "prepare" => at <= Len(group)
    /\ pc \in {"commit", "install", "complete"} => at = Len(group) + 1
    /\ pc \in Preparing => outcome = "OK"
    /\ stopping <=> life # "up"
    /\ life \in {"closed", "abort"} => pc = "ended" /\ completed = <<>>

-----------------------------------------------------------------------------
(* The ledger.                                                                *)

Ascending(w) == \A i, j \in 1 .. Len(w) : i < j => w[i] < w[j]

InLog(id) == \E i \in 1 .. Len(Durable) : Durable[i] = id

\* Jobs whose group has been through the journal.
Decided(id) == \/ id <= Handed
               \/ id <= Taken /\ pc = "complete"
               \/ id <= Taken /\ pc = "install" /\ outcome = "OK"

\* The ledger is in the order of submission and holds exactly the decided successes.
History ==
    /\ Ascending(Durable)
    /\ \A i \in 1 .. Len(Durable) :
          /\ Durable[i] \in 1 .. Taken
          /\ job[Durable[i]].result = "OK" /\ job[Durable[i]].committing
    /\ pc \notin {"install", "complete"} \/ (pc = "install" /\ outcome # "OK") =>
          \A i \in 1 .. Len(Durable) : Durable[i] <= Handed
    /\ \A id \in 1 .. Len(job) : Decided(id) /\ job[id].result = "OK" => InLog(id)

\* The candidate is the ledger and the successes of the group so far.
Private ==
    /\ pc \in Preparing =>
          /\ Len(Durable) <= Len(candidate.log)
          /\ \A i \in 1 .. Len(Durable) : candidate.log[i] = Durable[i]
          /\ Ascending(candidate.log)
          /\ \A i \in Len(Durable) + 1 .. Len(candidate.log) :
                /\ candidate.log[i] \in Handed + 1 .. Handed + at - 1
                /\ job[candidate.log[i]].result = "OK"
          /\ \A id \in Handed + 1 .. Handed + at - 1 : job[id].result = "OK" =>
                \E i \in Len(Durable) + 1 .. Len(candidate.log) : candidate.log[i] = id
    /\ pc = "commit" => /\ GoodJobs # {}
                        /\ \A i \in GoodJobs : job[group[i]].committing

\* A withdrawal is seen by every later look at the job, and never comes after the barrier.
Withdrawals ==
    /\ \A id \in 1 .. Len(job) : job[id].rev <= authority
    /\ \A id \in revoked :
          /\ id \in 1 .. Len(job) /\ ~job[id].committing
          /\ job[id].cancelled \/ job[id].rev < authority

\* What was told is the part of the ledger that was polled.
Telling ==
    /\ \A id \in polled.refused : id \in 1 .. Seen
    /\ Len(polled.told) <= Len(Durable)
    /\ \A i \in 1 .. Len(polled.told) : polled.told[i] = Durable[i]
    /\ life \in {"up", "stopping"} =>
          \A i \in 1 .. Len(Durable) : i <= Len(polled.told) <=> Durable[i] <= Seen

LedgerInvariant == Types /\ Line /\ Phase /\ History /\ Private /\ Withdrawals /\ Telling

-----------------------------------------------------------------------------
(* The receipts.                                                              *)

\* The jobs of the log w lead from the empty store to root, each from where the last one ended.
Chain(w, root) ==
    /\ \A i \in 1 .. Len(w) :
          job[w[i]].before = IF i = 1 THEN EmptyRoot ELSE job[w[i - 1]].after
    /\ root = IF Len(w) = 0 THEN EmptyRoot ELSE job[w[Len(w)]].after

\* A numbered mutation is the next of its lineage.
Numbered(j) ==
    j.req.kind # "BIND" =>
        /\ j.req.src = j.before.src /\ j.after.seq = j.before.seq + 1
        /\ j.req.kind # "EXPIRE" => j.req.seq = j.after.seq

Tiles ==
    /\ Chain(Durable, durable)
    /\ pc \in Preparing => Chain(candidate.log, candidate)
    /\ \A id \in 1 .. Len(job) : job[id].result = "OK" => Numbered(job[id])

-----------------------------------------------------------------------------
(* Facts about sequences and about the operators of the model.                *)

LEMMA SameJobs ==
    ASSUME job \in Seq(JobRecords), NEW f \in [DOMAIN job -> JobRecords]
    PROVE  f \in Seq(JobRecords) /\ Len(f) = Len(job) /\ DOMAIN job = 1 .. Len(job)
<1>1. DOMAIN job = 1 .. Len(job) /\ Len(job) \in Nat
  BY LenProperties
<1>2. f \in [1 .. Len(job) -> JobRecords]
  BY <1>1
<1>3. f \in Seq(JobRecords)
  BY <1>1, <1>2, SeqDef
<1>4. DOMAIN f = 1 .. Len(f) /\ Len(f) \in Nat /\ DOMAIN f = 1 .. Len(job)
  BY <1>2, <1>3, LenProperties
<1>5. Len(f) = Len(job)
  BY <1>1, <1>4
<1> QED BY <1>1, <1>3, <1>5

LEMMA FunctionSeq ==
    ASSUME NEW S, NEW n \in Nat, NEW f \in [1 .. n -> S]
    PROVE  f \in Seq(S)
BY SeqDef

LEMMA Shorter ==
    ASSUME NEW S, NEW s \in Seq(S), NEW i \in DOMAIN s
    PROVE  RemoveAt(s, i) \in Seq(S) /\ Len(RemoveAt(s, i)) = Len(s) - 1
<1>1. i \in 1 .. Len(s) /\ Len(s) \in Nat
  BY LenProperties
<1>2. SubSeq(s, 1, i - 1) \in Seq(S) /\ Len(SubSeq(s, 1, i - 1)) = i - 1
  BY <1>1, SubSeqProperties, ElementOfSeq
<1>3. SubSeq(s, i + 1, Len(s)) \in Seq(S) /\ Len(SubSeq(s, i + 1, Len(s))) = Len(s) - i
  BY <1>1, SubSeqProperties, ElementOfSeq
<1>4. /\ SubSeq(s, 1, i - 1) \o SubSeq(s, i + 1, Len(s)) \in Seq(S)
      /\ Len(SubSeq(s, 1, i - 1) \o SubSeq(s, i + 1, Len(s)))
            = Len(SubSeq(s, 1, i - 1)) + Len(SubSeq(s, i + 1, Len(s)))
  BY <1>2, <1>3, ConcatProperties
<1>5. (i - 1) + (Len(s) - i) = Len(s) - 1
  BY <1>1
<1> QED BY <1>2, <1>3, <1>4, <1>5 DEF RemoveAt

LEMMA EmptyRootType ==
    EmptyRoot \in Roots /\ EmptyRoot.log = <<>> /\ EmptyRoot.seq = 0
BY DEF EmptyRoot, Roots

LEMMA NewJobType ==
    ASSUME NEW r \in Asked, NEW rev \in Nat
    PROVE  /\ NewJob(r, rev) \in JobRecords
           /\ NewJob(r, rev).result = "none" /\ ~NewJob(r, rev).committing
           /\ NewJob(r, rev).rev = rev
BY EmptyRootType DEF NewJob, JobRecords, Results

\* The preparation of a mutation takes the next sequence of its lineage or leaves the root.
LEMMA MutationType ==
    ASSUME NEW r \in Asked, NEW base \in Roots, NEW o, NEW id \in Nat, NEW a \in Outcomes(r, base, o, id)
    PROVE  /\ a.result \in {"OK", "REJECTED", "STAGED"} /\ a.root \in Roots
           /\ a.result = "OK" /\ r.kind # "BIND" =>
                 /\ r.src = base.src /\ a.root.seq = base.seq + 1
                 /\ r.kind # "EXPIRE" => r.seq = a.root.seq
<1>1. a \in MutationOutcomes(r, base, o, id) /\ r.src \in Sources /\ r.block \in Blocks
  BY WriterAssumption DEF Asked, Outcomes
<1>2. base.seq \in Nat /\ base.seq + 1 \in Nat /\ base.blocks \in [Blocks -> Nat]
  BY DEF Roots
<1>3. CASE r.kind = "BIND"
  <2>1. a = Answer("OK", [base EXCEPT !.src = r.src, !.seq = 0], o)
    BY <1>1, <1>3 DEF MutationOutcomes
  <2>2. [base EXCEPT !.src = r.src, !.seq = 0] \in Roots
    BY <1>1 DEF Roots
  <2> QED BY <1>3, <2>1, <2>2 DEF Answer
<1>4. CASE r.kind # "BIND" /\ WireSequence(r, base) = -1
  <2>1. a = Answer("REJECTED", base, o)
    BY <1>1, <1>4 DEF MutationOutcomes
  <2> QED BY <2>1 DEF Answer
<1>5. CASE r.kind # "BIND" /\ WireSequence(r, base) # -1
  <2> DEFINE next == [base EXCEPT !.seq = WireSequence(r, base), !.blocks[r.block] = id]
  <2>1. a = Answer("OK", next, o) \/ a = Answer("REJECTED", base, o) \/ a = Answer("STAGED", base, o)
    BY <1>1, <1>5 DEF MutationOutcomes
  <2>2. /\ WireSequence(r, base) = base.seq + 1 /\ r.src = base.src
        /\ r.kind # "EXPIRE" => r.seq = base.seq + 1
    BY <1>5 DEF WireSequence
  <2>3. [base.blocks EXCEPT ![r.block] = id] \in [Blocks -> Nat]
    BY <1>1, <1>2
  <2>4. next \in Roots /\ next.seq = base.seq + 1
    BY <1>2, <2>2, <2>3 DEF Roots
  <2>5. CASE a = Answer("OK", next, o)
    BY <2>2, <2>4, <2>5 DEF Answer
  <2>6. CASE a = Answer("REJECTED", base, o) \/ a = Answer("STAGED", base, o)
    BY <2>6 DEF Answer
  <2> QED BY <2>1, <2>5, <2>6
<1> QED BY <1>3, <1>4, <1>5

LEMMA LoggedRoot ==
    ASSUME NEW root \in Roots, NEW w \in Seq(Nat), NEW id \in Nat
    PROVE  /\ [root EXCEPT !.log = Append(w, id)] \in Roots
           /\ [root EXCEPT !.log = Append(w, id)].log = Append(w, id)
           /\ [root EXCEPT !.log = Append(w, id)].seq = root.seq
<1>1. Append(w, id) \in Seq(Nat)
  OBVIOUS
<1> QED BY <1>1 DEF Roots

LEMMA Numbers ==
    ASSUME Types, Line
    PROVE  /\ Len(job) \in Nat /\ Len(pending) \in Nat /\ Len(group) \in Nat /\ Len(completed) \in Nat
           /\ Len(Durable) \in Nat /\ Len(candidate.log) \in Nat
           /\ Taken \in Nat /\ Handed \in Nat /\ Seen \in Nat
           /\ Len(job) = Taken + Len(pending) /\ Taken = Handed + Len(group)
           /\ Handed = Seen + Len(completed)
<1>1. Durable \in Seq(Nat) /\ candidate.log \in Seq(Nat)
  BY DEF Types, Roots, Durable
<1>2. /\ Len(job) \in Nat /\ Len(pending) \in Nat /\ Len(group) \in Nat /\ Len(completed) \in Nat
      /\ Len(Durable) \in Nat /\ Len(candidate.log) \in Nat
  <2>1. /\ job \in Seq(JobRecords) /\ pending \in Seq(Nat) /\ group \in Seq(Nat)
        /\ completed \in Seq(Nat)
    BY DEF Types
  <2> QED BY <1>1, <2>1, LenProperties
<1>3. /\ Taken \in Int /\ Handed \in Int /\ Seen \in Int
      /\ Len(job) = Taken + Len(pending) /\ Taken = Handed + Len(group)
      /\ Handed = Seen + Len(completed)
  BY <1>2 DEF Taken, Handed, Seen
<1>4. Taken \in Nat /\ Handed \in Nat /\ Seen \in Nat
  BY <1>2, <1>3 DEF Line
<1> QED BY <1>2, <1>3, <1>4

LEMMA Members ==
    ASSUME Types, Line
    PROVE  /\ DOMAIN job = 1 .. Len(job) /\ \A id \in 1 .. Len(job) : job[id] \in JobRecords
           /\ \A i \in 1 .. Len(group) : group[i] = Handed + i /\ group[i] \in 1 .. Len(job)
           /\ Durable \in Seq(Nat) /\ \A i \in 1 .. Len(Durable) : Durable[i] \in Nat
           /\ candidate.log \in Seq(Nat)
           /\ \A i \in 1 .. Len(candidate.log) : candidate.log[i] \in Nat
<1>1. Durable \in Seq(Nat) /\ candidate.log \in Seq(Nat)
  BY DEF Types, Roots, Durable
<1>2. DOMAIN job = 1 .. Len(job) /\ \A id \in 1 .. Len(job) : job[id] \in JobRecords
  <2>1. job \in Seq(JobRecords)
    BY DEF Types
  <2> QED BY <2>1, LenProperties
<1>3. \A i \in 1 .. Len(group) : group[i] = Handed + i /\ group[i] \in 1 .. Len(job)
  <2>1. \A i \in 1 .. Len(group) : group[i] = Handed + i
    BY DEF Line
  <2>2. Handed + Len(group) <= Len(job) /\ Handed \in Nat /\ Len(group) \in Nat /\ Len(job) \in Nat
    BY Numbers
  <2> QED BY <2>1, <2>2
<1>4. /\ \A i \in 1 .. Len(Durable) : Durable[i] \in Nat
      /\ \A i \in 1 .. Len(candidate.log) : candidate.log[i] \in Nat
  BY <1>1
<1> QED BY <1>1, <1>2, <1>3, <1>4

\* Steps that leave the line of jobs and the ledger alone.
LEMMA Aside ==
    ASSUME LedgerInvariant,
           UNCHANGED <<pc, pending, group, at, spins, candidate, outcome, durable, job, completed,
                       authority, stopping, life, revoked, polled>>,
           detached' \in {detached, NoJob}, buffered' \in Seq([req : Asked, rev : Nat]),
           admission' \in BOOLEAN, failed' \in BOOLEAN
    PROVE  LedgerInvariant'
<1> USE DEF LedgerInvariant
<1>1. Taken' = Taken /\ Handed' = Handed /\ Seen' = Seen /\ Durable' = Durable
  BY DEF Taken, Handed, Seen, Durable
<1>2. Types'
  BY DEF Types, NoJob
<1>3. Line'
  BY <1>1 DEF Line
<1>4. Phase'
  BY <1>1 DEF Phase
<1>5. History'
  BY <1>1 DEF History, Ascending, InLog, Decided
<1>6. Private'
  BY <1>1 DEF Private, Ascending, GoodJobs
<1>7. Withdrawals' /\ Telling'
  BY <1>1 DEF Withdrawals, Telling
<1> QED BY <1>2, <1>3, <1>4, <1>5, <1>6, <1>7

LEMMA InitLedger == Init => LedgerInvariant
<1> SUFFICES ASSUME Init PROVE LedgerInvariant
  OBVIOUS
<1>1. Types
  <2>1. /\ job \in Seq(JobRecords) /\ pending \in Seq(Nat) /\ group \in Seq(Nat)
        /\ completed \in Seq(Nat) /\ buffered \in Seq([req : Asked, rev : Nat])
        /\ polled \in [told : Seq(Nat), refused : SUBSET Nat]
    BY EmptySeq DEF Init
  <2>2. candidate \in Roots /\ durable \in Roots
    BY EmptyRootType DEF Init
  <2>3. spins \in 0 .. MaxContinue /\ authority \in 1 .. MaxAuthority + 1
    BY WriterAssumption DEF Init
  <2> QED BY <2>1, <2>2, <2>3 DEF Init, Types, NoJob
<1>2. Taken = 0 /\ Handed = 0 /\ Seen = 0 /\ Durable = <<>> /\ Len(Durable) = 0 /\ Len(job) = 0
  <2>1. Durable = <<>>
    BY EmptyRootType DEF Init, Durable
  <2>2. job = <<>> /\ pending = <<>> /\ group = <<>> /\ completed = <<>> /\ Len(<<>>) = 0
    BY EmptySeq DEF Init
  <2>3. Len(job) = 0 /\ Len(pending) = 0 /\ Len(group) = 0 /\ Len(completed) = 0
    BY <2>2
  <2>4. Taken = 0 /\ Handed = 0 /\ Seen = 0
    BY <2>3 DEF Taken, Handed, Seen
  <2> QED BY <2>1, <2>2, <2>3, <2>4
<1>3. Line /\ Phase /\ Private /\ Withdrawals /\ Telling
  BY <1>2 DEF Init, Line, Phase, Private, Preparing, Withdrawals, Telling, NoJob
<1>4. History
  BY <1>2 DEF Init, History, Ascending
<1> QED BY <1>1, <1>3, <1>4 DEF LedgerInvariant

-----------------------------------------------------------------------------
(* The writer.                                                                *)

\* The writer takes the first jobs that are pending.
LEMMA GroupTaken ==
    ASSUME LedgerInvariant, Take
    PROVE  \E n \in 1 .. Len(pending) :
              /\ group' \in Seq(Nat) /\ Len(group') = n
              /\ \A i \in 1 .. n : group'[i] = pending[i]
              /\ pending' \in Seq(Nat) /\ Len(pending') = Len(pending) - n
              /\ \A i \in 1 .. Len(pending) - n : pending'[i] = pending[n + i]
<1>1. pending \in Seq(Nat) /\ pending # <<>>
  BY DEF Take, LedgerInvariant, Types
<1>2. PICK n \in 1 .. Len(pending) :
         group' = SubSeq(pending, 1, n) /\ pending' = SubSeq(pending, n + 1, Len(pending))
  <2> DEFINE n == IF Len(pending) < GroupMax THEN Len(pending) ELSE GroupMax
  <2>1. Len(pending) \in Nat \ {0}
    BY <1>1, EmptySeq
  <2>2. GroupMax \in Nat \ {0}
    BY WriterAssumption
  <2>3. n \in 1 .. Len(pending)
    BY <2>1, <2>2
  <2>4. group' = SubSeq(pending, 1, n) /\ pending' = SubSeq(pending, n + 1, Len(pending))
    BY DEF Take
  <2> QED BY <2>3, <2>4
<1>3. (\A i \in 1 .. Len(pending) : pending[i] \in Nat) /\ Len(pending) \in Nat /\ n \in Nat
  BY <1>1, ElementOfSeq, LenProperties
<1>4. /\ group' \in Seq(Nat) /\ Len(group') = n
      /\ \A i \in 1 .. n : group'[i] = pending[i]
  BY <1>2, <1>3, SubSeqProperties
<1>5. /\ pending' \in Seq(Nat) /\ Len(pending') = Len(pending) - n
      /\ \A i \in 1 .. Len(pending) - n : pending'[i] = pending[n + i]
  BY <1>2, <1>3, SubSeqProperties
<1> QED BY <1>4, <1>5

LEMMA TakeKeeps ==
    ASSUME LedgerInvariant, Take
    PROVE  LedgerInvariant'
<1>0. Types /\ Line /\ Phase /\ History /\ Private /\ Withdrawals /\ Telling
  BY DEF LedgerInvariant
<1>1. /\ pc = "wait" /\ pc' = "check" /\ at' = 1 /\ spins' = 0 /\ outcome' = "OK"
      /\ candidate' = durable /\ pending # <<>>
      /\ UNCHANGED <<durable, job, completed, detached, buffered, authority, admission, failed,
                     stopping, life, revoked, polled>>
  BY DEF Take, flags, room
<1>2. Len(group) = 0 /\ Handed = Taken
  <2>1. group = <<>> /\ Len(<<>>) = 0
    BY <1>0, <1>1, EmptySeq DEF Phase
  <2> QED BY <1>0, <2>1, Numbers
<1>3. PICK n \in 1 .. Len(pending) :
         /\ group' \in Seq(Nat) /\ Len(group') = n
         /\ \A i \in 1 .. n : group'[i] = pending[i]
         /\ pending' \in Seq(Nat) /\ Len(pending') = Len(pending) - n
         /\ \A i \in 1 .. Len(pending) - n : pending'[i] = pending[n + i]
  BY GroupTaken
<1>4. Len(pending) \in Nat /\ n \in Nat /\ Taken \in Nat
  BY <1>0, Numbers
<1>5. /\ group' \in Seq(Nat) /\ Len(group') = n
      /\ \A i \in 1 .. n : group'[i] = pending[i]
  BY <1>3
<1>6. /\ pending' \in Seq(Nat) /\ Len(pending') = Len(pending) - n
      /\ \A i \in 1 .. Len(pending) - n : pending'[i] = pending[n + i]
  BY <1>3
<1>7. Taken' = Taken + n /\ Handed' = Handed /\ Seen' = Seen /\ Durable' = Durable
  <2>1. Taken' = Taken + n /\ Durable' = Durable
    BY <1>0, <1>1, <1>4, <1>6, Numbers DEF Taken, Durable
  <2>2. Handed' = Handed
    BY <1>0, <1>2, <1>4, <1>5, <2>1, Numbers DEF Handed
  <2> QED BY <1>1, <2>1, <2>2 DEF Seen
<1>8. Types'
  <2>1. 0 \in 0 .. MaxContinue
    BY WriterAssumption
  <2> QED BY <1>0, <1>1, <1>5, <1>6, <2>1 DEF Types
<1>9. Line'
  <2>1. \A i \in 1 .. Len(pending') : pending'[i] = Taken' + i
    <3>1. \A i \in 1 .. Len(pending) : pending[i] = Taken + i
      BY <1>0 DEF Line
    <3>2. ASSUME NEW i \in 1 .. Len(pending') PROVE pending'[i] = Taken' + i
      <4>1. n + i \in 1 .. Len(pending) /\ i \in 1 .. Len(pending) - n /\ i \in Nat
        BY <1>4, <1>6
      <4>2. pending'[i] = Taken + (n + i)
        BY <1>6, <3>1, <4>1
      <4> QED BY <1>4, <1>7, <4>1, <4>2
    <3> QED BY <3>2
  <2>2. \A i \in 1 .. Len(group') : group'[i] = Handed' + i
    <3>1. \A i \in 1 .. n : pending[i] = Taken + i
      BY <1>0, <1>3, <1>4 DEF Line
    <3> QED BY <1>2, <1>5, <1>7, <3>1
  <2> QED BY <1>0, <1>1, <1>7, <2>1, <2>2 DEF Line
<1>10. Phase'
  BY <1>0, <1>1, <1>4, <1>5 DEF Phase, Preparing
<1>11. History'
  <2>1. \A i \in 1 .. Len(Durable) : Durable[i] \in 1 .. Taken' /\ Durable[i] <= Handed
    <3>1. \A i \in 1 .. Len(Durable) : Durable[i] \in 1 .. Taken /\ Durable[i] <= Handed
      BY <1>0, <1>1 DEF History
    <3> QED BY <1>4, <1>7, <3>1
  <2>2. \A id : Decided(id)' <=> id <= Handed
    BY <1>1, <1>7 DEF Decided
  <2>3. \A id : id <= Handed => Decided(id)
    BY DEF Decided
  <2> QED BY <1>0, <1>1, <1>7, <2>1, <2>2, <2>3 DEF History, Ascending, InLog
<1>12. Private'
  <2>1. candidate'.log = Durable
    BY <1>1 DEF Durable
  <2>2. Len(Durable) \in Nat /\ Handed \in Nat
    BY <1>0, Numbers
  <2> QED BY <1>0, <1>1, <1>7, <2>1, <2>2 DEF Private, Preparing, History, Ascending
<1>13. Withdrawals' /\ Telling'
  BY <1>0, <1>1, <1>7 DEF Withdrawals, Telling
<1> QED BY <1>8, <1>9, <1>10, <1>11, <1>12, <1>13 DEF LedgerInvariant

LEMMA OneJob ==
    ASSUME job \in Seq(JobRecords), NEW id \in 1 .. Len(job), NEW j \in JobRecords,
           job' = [job EXCEPT ![id] = j]
    PROVE  /\ job' \in Seq(JobRecords) /\ Len(job') = Len(job)
           /\ job'[id] = j /\ \A k \in 1 .. Len(job) : k # id => job'[k] = job[k]
BY ExceptSeq

\* The job being prepared gets a result; all but the candidate is settled by that.
LEMMA OneResult ==
    ASSUME LedgerInvariant, pc \in {"check", "prepare"}, at <= Len(group),
           NEW j \in JobRecords, job' = [job EXCEPT ![group[at]] = j],
           j.rev = job[group[at]].rev, j.committing = job[group[at]].committing,
           j.cancelled = job[group[at]].cancelled,
           at' = at + 1, spins' = 0, pc' = "check", candidate' \in Roots,
           UNCHANGED <<pending, group, outcome, durable, completed, detached, buffered, authority,
                       stopping, life, revoked, polled>>,
           admission' \in BOOLEAN, failed' \in BOOLEAN
    PROVE  /\ Types' /\ Line' /\ Phase' /\ History' /\ Withdrawals' /\ Telling'
           /\ group[at] = Handed + at /\ Handed + at \in 1 .. Len(job) /\ at \in Nat \ {0}
           /\ job'[Handed + at] = j
           /\ \A k \in 1 .. Len(job) : k # Handed + at => job'[k] = job[k]
           /\ Handed' = Handed /\ Durable' = Durable
<1>0. Types /\ Line /\ Phase /\ History /\ Withdrawals /\ Telling
  BY DEF LedgerInvariant
<1>1. at \in 1 .. Len(group) /\ Len(group) \in Nat /\ outcome = "OK"
  BY <1>0, Numbers DEF Phase, Preparing
<1>2. group[at] = Handed + at /\ Handed + at \in 1 .. Len(job)
  BY <1>0, <1>1, Members
<1>3. PICK id : id = Handed + at
  OBVIOUS
<1>4. /\ job' \in Seq(JobRecords) /\ Len(job') = Len(job)
      /\ job'[id] = j /\ \A k \in 1 .. Len(job) : k # id => job'[k] = job[k]
  <2>1. job \in Seq(JobRecords)
    BY <1>0 DEF Types
  <2> QED BY <1>2, <1>3, <2>1, OneJob
<1>5. Taken' = Taken /\ Handed' = Handed /\ Seen' = Seen /\ Durable' = Durable
  BY <1>4 DEF Taken, Handed, Seen, Durable
<1>6. \A k \in 1 .. Len(job) : /\ job'[k].rev = job[k].rev
                               /\ job'[k].committing = job[k].committing
                               /\ job'[k].cancelled = job[k].cancelled
  BY <1>2, <1>3, <1>4
<1>7. Types'
  <2>1. 0 \in 0 .. MaxContinue /\ at + 1 \in Nat
    BY <1>1, WriterAssumption
  <2> QED BY <1>0, <1>4, <2>1 DEF Types
<1>8. Line'
  BY <1>0, <1>5 DEF Line
<1>9. Phase'
  <2>1. at + 1 \in 1 .. Len(group) + 1
    BY <1>1
  <2>2. group # <<>>
    BY <1>1, EmptySeq
  <2> QED BY <1>0, <1>1, <2>1, <2>2 DEF Phase, Preparing
<1>10. History'
  <2>1. \A i \in 1 .. Len(Durable) : Durable[i] \in 1 .. Taken /\ Durable[i] <= Handed
    BY <1>0 DEF History
  <2>2. \A i \in 1 .. Len(Durable) : Durable[i] \in 1 .. Len(job) /\ Durable[i] # id
    <3>1. Handed \in Nat /\ Taken \in Nat /\ Len(job) \in Nat /\ Taken <= Len(job)
      BY <1>0, Numbers
    <3> QED BY <1>1, <1>3, <2>1, <3>1
  <2>3. \A i \in 1 .. Len(Durable) : job'[Durable[i]] = job[Durable[i]]
    BY <1>4, <2>2
  <2>4. \A k : Decided(k)' <=> k <= Handed
    BY <1>5 DEF Decided
  <2>5. \A k \in 1 .. Len(job) : k <= Handed => k # id /\ Decided(k)
    BY <1>0, <1>1, <1>3, Numbers DEF Decided
  <2>6. \A k \in 1 .. Len(job) : Decided(k)' /\ job'[k].result = "OK" => InLog(k)
    BY <1>0, <1>4, <2>4, <2>5 DEF History
  <2> QED BY <1>0, <1>4, <1>5, <2>1, <2>3, <2>6 DEF History, Ascending, InLog
<1>11. Withdrawals'
  BY <1>0, <1>4, <1>6 DEF Withdrawals
<1>12. Telling'
  BY <1>0, <1>5 DEF Telling
<1> QED BY <1>1, <1>2, <1>3, <1>4, <1>5, <1>7, <1>8, <1>9, <1>10, <1>11, <1>12

LEMMA TurnedAway ==
    ASSUME LedgerInvariant, pc \in {"check", "prepare"}, at <= Len(group),
           NEW result \in Results \ {"OK"}, job' = [job EXCEPT ![group[at]].result = result],
           at' = at + 1, spins' = 0, pc' = "check",
           UNCHANGED <<pending, group, candidate, outcome, durable, completed, detached, buffered,
                       authority, stopping, life, revoked, polled>>,
           admission' \in BOOLEAN, failed' \in BOOLEAN
    PROVE  LedgerInvariant'
<1>1. PICK j : j = [job[group[at]] EXCEPT !.result = result]
  OBVIOUS
<1>2. job[group[at]] \in JobRecords
  <2>1. at \in 1 .. Len(group)
    BY Numbers DEF LedgerInvariant, Phase
  <2> QED BY <2>1, Members DEF LedgerInvariant
<1>3. /\ j \in JobRecords /\ j.rev = job[group[at]].rev /\ j.result = result
      /\ j.committing = job[group[at]].committing /\ j.cancelled = job[group[at]].cancelled
  BY <1>1, <1>2 DEF JobRecords
<1>4. job' = [job EXCEPT ![group[at]] = j]
  BY <1>1
<1>5. candidate' \in Roots
  BY DEF LedgerInvariant, Types
<1>6. /\ Types' /\ Line' /\ Phase' /\ History' /\ Withdrawals' /\ Telling'
      /\ group[at] = Handed + at /\ Handed + at \in 1 .. Len(job) /\ at \in Nat \ {0}
      /\ job'[Handed + at] = j
      /\ \A k \in 1 .. Len(job) : k # Handed + at => job'[k] = job[k]
      /\ Handed' = Handed /\ Durable' = Durable
  BY <1>3, <1>4, <1>5, OneResult
<1>7. Private'
  <2>1. /\ Len(Durable) <= Len(candidate.log)
        /\ \A i \in 1 .. Len(Durable) : candidate.log[i] = Durable[i]
        /\ Ascending(candidate.log)
        /\ \A i \in Len(Durable) + 1 .. Len(candidate.log) :
              /\ candidate.log[i] \in Handed + 1 .. Handed + at - 1
              /\ job[candidate.log[i]].result = "OK"
        /\ \A id \in Handed + 1 .. Handed + at - 1 : job[id].result = "OK" =>
              \E i \in Len(Durable) + 1 .. Len(candidate.log) : candidate.log[i] = id
    BY DEF LedgerInvariant, Private, Preparing
  <2>2. Handed \in Nat
    BY Numbers DEF LedgerInvariant
  <2>3. \A id \in Handed + 1 .. Handed + at - 1 : job'[id] = job[id]
    BY <1>6, <2>2
  <2>4. \A i \in Len(Durable) + 1 .. Len(candidate.log) :
              /\ candidate.log[i] \in Handed + 1 .. Handed + at' - 1
              /\ job'[candidate.log[i]].result = "OK"
    <3> TAKE i \in Len(Durable) + 1 .. Len(candidate.log)
    <3>1. /\ candidate.log[i] \in Handed + 1 .. Handed + at - 1
          /\ job[candidate.log[i]].result = "OK"
      BY <2>1
    <3>2. candidate.log[i] \in Handed + 1 .. Handed + at' - 1
      <4>1. at \in Nat /\ at' = at + 1 /\ Handed \in Nat
        BY <1>6, <2>2
      <4> QED BY <3>1, <4>1
    <3> QED BY <2>3, <3>1, <3>2
  <2>5. \A id \in Handed + 1 .. Handed + at' - 1 : job'[id].result = "OK" =>
              id \in Handed + 1 .. Handed + at - 1 /\ job[id].result = "OK"
    BY <1>3, <1>6, <2>2, <2>3
  <2> QED BY <1>6, <2>1, <2>4, <2>5 DEF Private, Preparing, Ascending
<1> QED BY <1>6, <1>7 DEF LedgerInvariant

LEMMA CheckKeeps ==
    ASSUME LedgerInvariant, Check
    PROVE  LedgerInvariant'
<1>0. Types /\ Line /\ Phase /\ History /\ Private /\ Withdrawals /\ Telling
  BY DEF LedgerInvariant
<1>1. /\ pc = "check" /\ at <= Len(group)
      /\ UNCHANGED <<pending, group, candidate, outcome, durable, completed, detached, buffered,
                     authority, admission, failed, stopping, life, revoked, polled>>
  BY DEF Check, flags, room
<1>2. CASE Valid(group[at])
  <2>1. pc' = "prepare" /\ UNCHANGED <<at, spins, job>>
    BY <1>2 DEF Check
  <2>2. Taken' = Taken /\ Handed' = Handed /\ Seen' = Seen /\ Durable' = Durable
    BY <1>1, <2>1 DEF Taken, Handed, Seen, Durable
  <2>3. Types' /\ Line'
    BY <1>0, <1>1, <2>1, <2>2 DEF Types, Line
  <2>4. Phase'
    <3>1. group # <<>>
      BY <1>0, <1>1, EmptySeq DEF Phase
    <3> QED BY <1>0, <1>1, <2>1, <3>1 DEF Phase, Preparing
  <2>5. History'
    BY <1>0, <1>1, <2>1, <2>2 DEF History, Ascending, InLog, Decided
  <2>6. Private'
    BY <1>0, <1>1, <2>1, <2>2 DEF Private, Preparing, Ascending
  <2>7. Withdrawals' /\ Telling'
    BY <1>0, <1>1, <2>1, <2>2 DEF Withdrawals, Telling
  <2> QED BY <2>3, <2>4, <2>5, <2>6, <2>7 DEF LedgerInvariant
<1>3. CASE ~Valid(group[at])
  <2>1. /\ job' = [job EXCEPT ![group[at]].result = "BUSY"]
        /\ at' = at + 1 /\ spins' = 0 /\ pc' = "check"
    BY <1>1, <1>3 DEF Check
  <2>2. "BUSY" \in Results \ {"OK"} /\ admission' \in BOOLEAN /\ failed' \in BOOLEAN
    BY <1>0, <1>1 DEF Results, Negative, Types
  <2> QED BY <1>1, <2>1, <2>2, TurnedAway
<1> QED BY <1>2, <1>3

LEMMA ContinueKeeps ==
    ASSUME LedgerInvariant, Continue
    PROVE  LedgerInvariant'
<1>0. Types /\ Line /\ Phase /\ History /\ Private /\ Withdrawals /\ Telling
  BY DEF LedgerInvariant
<1>1. /\ pc = "prepare" /\ pc' = "check" /\ spins' = spins + 1 /\ spins < MaxContinue
      /\ UNCHANGED <<pending, group, at, candidate, outcome, durable, job, completed, detached,
                     buffered, authority, admission, failed, stopping, life, revoked, polled>>
  BY DEF Continue, flags, room
<1>2. Taken' = Taken /\ Handed' = Handed /\ Seen' = Seen /\ Durable' = Durable
  BY <1>1 DEF Taken, Handed, Seen, Durable
<1>3. Types'
  <2>1. spins \in 0 .. MaxContinue /\ MaxContinue \in Nat
    BY <1>0, WriterAssumption DEF Types
  <2>2. spins' \in 0 .. MaxContinue
    BY <1>1, <2>1
  <2> QED BY <1>0, <1>1, <2>2 DEF Types
<1>4. Line'
  BY <1>0, <1>1, <1>2 DEF Line
<1>5. Phase'
  BY <1>0, <1>1, <1>2 DEF Phase, Preparing
<1>6. History'
  BY <1>0, <1>1, <1>2 DEF History, Ascending, InLog, Decided
<1>7. Private'
  BY <1>0, <1>1, <1>2 DEF Private, Preparing, Ascending
<1>8. Withdrawals' /\ Telling'
  BY <1>0, <1>1, <1>2 DEF Withdrawals, Telling
<1> QED BY <1>3, <1>4, <1>5, <1>6, <1>7, <1>8 DEF LedgerInvariant

LEMMA PrepareKeeps ==
    ASSUME LedgerInvariant, Prepare
    PROVE  LedgerInvariant'
<1>0. Types /\ Line /\ Phase /\ History /\ Private /\ Withdrawals /\ Telling
  BY DEF LedgerInvariant
<1>1. /\ pc = "prepare" /\ at' = at + 1 /\ spins' = 0 /\ pc' = "check"
      /\ UNCHANGED <<pending, group, outcome, durable, completed, detached, buffered, authority,
                     admission, failed, stopping, life, revoked, polled>>
  BY DEF Prepare, flags, room
<1>2. at <= Len(group) /\ at \in 1 .. Len(group)
  <2>1. at <= Len(group) /\ at \in 1 .. Len(group) + 1 /\ Len(group) \in Nat
    BY <1>0, <1>1, Numbers DEF Phase
  <2> QED BY <2>1
<1>3. PICK id : id = group[at]
  OBVIOUS
<1>4. id \in Nat /\ id = Handed + at /\ job[id] \in JobRecords /\ job[id].req \in Asked
  <2>1. id \in 1 .. Len(job) /\ id = Handed + at
    BY <1>0, <1>2, <1>3, Members
  <2> QED BY <1>0, <2>1, Members, Numbers DEF JobRecords
<1>5. candidate \in Roots /\ candidate.log \in Seq(Nat)
  BY <1>0, Members DEF Types
<1>6. PICK a \in Outcomes(job[id].req, candidate, own, id) :
         IF a.result = "OK"
         THEN /\ candidate' = [a.root EXCEPT !.log = Append(candidate.log, id)]
              /\ job' = [job EXCEPT ![id].result = "OK", ![id].before = candidate,
                                    ![id].after = candidate']
         ELSE job' = [job EXCEPT ![id].result = a.result] /\ UNCHANGED candidate
  BY <1>3 DEF Prepare, StartRoot
<1>7. a.result \in {"OK", "REJECTED", "STAGED"} /\ a.root \in Roots
  BY <1>4, <1>5, <1>6, MutationType
<1>8. admission' \in BOOLEAN /\ failed' \in BOOLEAN
  BY <1>0, <1>1 DEF Types
<1>9. CASE a.result # "OK"
  <2>1. a.result \in Results \ {"OK"}
    BY <1>7, <1>9 DEF Results, Negative
  <2>2. job' = [job EXCEPT ![group[at]].result = a.result] /\ UNCHANGED candidate
    BY <1>3, <1>6, <1>9
  <2> QED BY <1>1, <1>2, <1>8, <2>1, <2>2, TurnedAway
<1>10. CASE a.result = "OK"
  <2>1. /\ candidate' = [a.root EXCEPT !.log = Append(candidate.log, id)]
        /\ job' = [job EXCEPT ![id].result = "OK", ![id].before = candidate, ![id].after = candidate']
    BY <1>6, <1>10
  <2>2. candidate' \in Roots /\ candidate'.log = Append(candidate.log, id)
    BY <1>4, <1>5, <1>7, <2>1, LoggedRoot
  <2>3. PICK j : j = [job[id] EXCEPT !.result = "OK", !.before = candidate, !.after = candidate']
    OBVIOUS
  <2>4. /\ j \in JobRecords /\ j.rev = job[group[at]].rev /\ j.result = "OK"
        /\ j.committing = job[group[at]].committing /\ j.cancelled = job[group[at]].cancelled
    BY <1>3, <1>4, <1>5, <2>2, <2>3 DEF JobRecords, Results
  <2>5. job' = [job EXCEPT ![group[at]] = j]
    BY <1>3, <2>1, <2>3
  <2>6. /\ Types' /\ Line' /\ Phase' /\ History' /\ Withdrawals' /\ Telling'
        /\ Handed + at \in 1 .. Len(job) /\ at \in Nat \ {0}
        /\ job'[Handed + at] = j
        /\ \A k \in 1 .. Len(job) : k # Handed + at => job'[k] = job[k]
        /\ Handed' = Handed /\ Durable' = Durable
    BY <1>1, <1>2, <1>8, <2>2, <2>4, <2>5, OneResult
  <2>7. Private'
    <3> DEFINE n == Len(candidate.log)
    <3>1. /\ Len(Durable) <= n
          /\ \A i \in 1 .. Len(Durable) : candidate.log[i] = Durable[i]
          /\ Ascending(candidate.log)
          /\ \A i \in Len(Durable) + 1 .. n :
                /\ candidate.log[i] \in Handed + 1 .. Handed + at - 1
                /\ job[candidate.log[i]].result = "OK"
          /\ \A k \in Handed + 1 .. Handed + at - 1 : job[k].result = "OK" =>
                \E i \in Len(Durable) + 1 .. n : candidate.log[i] = k
      BY <1>0, <1>1 DEF Private, Preparing
    <3>2. /\ Handed \in Nat /\ at \in Nat \ {0} /\ n \in Nat /\ Len(Durable) \in Nat
          /\ Len(job) \in Nat /\ Handed + at <= Len(job)
      BY <1>0, <2>6, Numbers
    <3>3. /\ Len(candidate'.log) = n + 1 /\ candidate'.log[n + 1] = Handed + at
          /\ \A i \in 1 .. n : candidate'.log[i] = candidate.log[i]
      BY <1>4, <1>5, <2>2
    <3>4. \A i \in 1 .. n : candidate.log[i] \in Nat /\ candidate.log[i] <= Handed + at - 1
      <4>1. \A i \in 1 .. Len(Durable) : Durable[i] \in Nat /\ Durable[i] <= Handed
        BY <1>0, <1>1, Members DEF History
      <4>2. \A i \in 1 .. Len(Durable) : candidate.log[i] \in Nat /\ candidate.log[i] <= Handed + at - 1
        BY <3>1, <3>2, <4>1
      <4>3. \A i \in Len(Durable) + 1 .. n :
               candidate.log[i] \in Nat /\ candidate.log[i] <= Handed + at - 1
        BY <3>1, <3>2
      <4> QED BY <3>2, <4>2, <4>3
    <3>5. Ascending(candidate.log)'
      <4>1. \A i, k \in 1 .. n : i < k => candidate.log[i] < candidate.log[k]
        BY <3>1 DEF Ascending
      <4>2. \A i, k \in 1 .. n + 1 : i < k => candidate'.log[i] < candidate'.log[k]
        <5> TAKE i, k \in 1 .. n + 1
        <5> HAVE i < k
        <5>1. CASE k \in 1 .. n
          BY <3>2, <3>3, <4>1, <5>1
        <5>2. CASE k = n + 1
          <6>1. i \in 1 .. n
            BY <3>2, <5>2
          <6>2. candidate'.log[i] \in Nat /\ candidate'.log[i] <= Handed + at - 1
            BY <3>3, <3>4, <6>1
          <6>3. candidate'.log[k] = Handed + at
            BY <3>3, <5>2
          <6> QED BY <3>2, <6>2, <6>3
        <5> QED BY <3>2, <5>1, <5>2
      <4> QED BY <3>3, <4>2 DEF Ascending
    <3>6. \A k \in Handed + 1 .. Handed + at - 1 : job'[k] = job[k]
      BY <2>6, <3>2
    <3>7. \A i \in Len(Durable) + 1 .. n + 1 :
             /\ candidate'.log[i] \in Handed + 1 .. Handed + at' - 1
             /\ job'[candidate'.log[i]].result = "OK"
      <4> TAKE i \in Len(Durable) + 1 .. n + 1
      <4>1. CASE i = n + 1
        BY <1>1, <2>4, <2>6, <3>2, <3>3, <4>1
      <4>2. CASE i \in Len(Durable) + 1 .. n
        <5>1. candidate'.log[i] = candidate.log[i]
          BY <3>2, <3>3, <4>2
        <5>2. /\ candidate.log[i] \in Handed + 1 .. Handed + at - 1
              /\ job[candidate.log[i]].result = "OK"
          BY <3>1, <4>2
        <5>3. candidate.log[i] \in Handed + 1 .. Handed + at' - 1
          <6>1. at' = at + 1
            BY <1>1
          <6>2. candidate.log[i] \in Handed + 1 .. Handed + at - 1
            BY <5>2
          <6> QED BY <3>2, <6>1, <6>2
        <5> QED BY <3>6, <5>1, <5>2, <5>3
      <4> QED BY <3>2, <4>1, <4>2
    <3>8. \A k \in Handed + 1 .. Handed + at' - 1 : job'[k].result = "OK" =>
             \E i \in Len(Durable) + 1 .. n + 1 : candidate'.log[i] = k
      <4> TAKE k \in Handed + 1 .. Handed + at' - 1
      <4> HAVE job'[k].result = "OK"
      <4>1. CASE k = Handed + at
        <5>1. n + 1 \in Len(Durable) + 1 .. n + 1
          BY <3>1, <3>2
        <5> QED BY <3>3, <4>1, <5>1
      <4>2. CASE k \in Handed + 1 .. Handed + at - 1
        <5>1. PICK i \in Len(Durable) + 1 .. n : candidate.log[i] = k
          BY <3>1, <3>6, <4>2
        <5>2. i \in Len(Durable) + 1 .. n + 1 /\ i \in 1 .. n
          BY <3>2, <5>1
        <5>3. candidate'.log[i] = k
          BY <3>3, <5>1, <5>2
        <5> QED BY <5>2, <5>3
      <4> QED BY <1>1, <3>2, <4>1, <4>2
    <3>9. /\ Len(Durable) <= Len(candidate'.log)
          /\ \A i \in 1 .. Len(Durable) : candidate'.log[i] = Durable[i]
      BY <3>1, <3>2, <3>3
    <3> QED BY <1>1, <2>6, <3>3, <3>5, <3>7, <3>8, <3>9 DEF Private, Preparing
  <2> QED BY <2>6, <2>7 DEF LedgerInvariant
<1> QED BY <1>9, <1>10

LEMMA PrepareFailsKeeps ==
    ASSUME LedgerInvariant, PrepareFails
    PROVE  LedgerInvariant'
<1>1. /\ pc = "prepare" /\ at' = at + 1 /\ spins' = 0 /\ pc' = "check"
      /\ UNCHANGED <<pending, group, candidate, outcome, durable, completed, detached, buffered,
                     authority, stopping, life, revoked, polled>>
  BY DEF PrepareFails, room
<1>2. PICK result \in {"LIMIT", "ERROR"} : /\ job' = [job EXCEPT ![group[at]].result = result]
                                          /\ failed' = (failed \/ result = "ERROR")
                                          /\ admission' = (admission /\ result # "ERROR")
  BY DEF PrepareFails
<1>3. result \in Results \ {"OK"}
  BY <1>2 DEF Results, Negative
<1>4. failed' \in BOOLEAN /\ admission' \in BOOLEAN
  BY <1>2
<1>5. at <= Len(group)
  BY <1>1 DEF LedgerInvariant, Phase
<1>6. pc \in {"check", "prepare"}
  BY <1>1
<1> QED BY <1>1, <1>2, <1>3, <1>4, <1>5, <1>6, TurnedAway

\* The group is turned away, or holds nothing to commit.
LEMMA GivesUp ==
    ASSUME LedgerInvariant, pc \in Preparing, at = Len(group) + 1, pc' = "install",
           outcome' \in {"OK", "BUSY", "LIMIT", "ERROR"}, outcome' = "OK" => GoodJobs = {},
           UNCHANGED <<pending, group, at, spins, candidate, durable, job, completed, detached,
                       buffered, authority, admission, failed, stopping, life, revoked, polled>>
    PROVE  LedgerInvariant'
<1>0. Types /\ Line /\ Phase /\ History /\ Private /\ Withdrawals /\ Telling
  BY DEF LedgerInvariant
<1>1. Taken' = Taken /\ Handed' = Handed /\ Seen' = Seen /\ Durable' = Durable
  BY DEF Taken, Handed, Seen, Durable
<1>2. Types' /\ Line'
  BY <1>0, <1>1 DEF Types, Line
<1>3. Phase'
  BY <1>0 DEF Phase, Preparing
<1>4. pc \notin {"install", "complete"}
  BY DEF Preparing
<1>5. History'
  <2>1. \A i \in 1 .. Len(Durable) : Durable[i] \in 1 .. Taken /\ Durable[i] <= Handed
    BY <1>0, <1>4 DEF History
  <2>2. ASSUME NEW k \in 1 .. Len(job), Decided(k)', job[k].result = "OK" PROVE InLog(k)
    <3>1. CASE k <= Handed
      BY <1>0, <2>2, <3>1 DEF History, Decided
    <3>2. CASE k <= Taken /\ outcome' = "OK" /\ ~(k <= Handed)
      <4>1. /\ Handed \in Nat /\ Len(group) \in Nat /\ Taken = Handed + Len(group)
        BY <1>0, Numbers
      <4>2. k - Handed \in 1 .. Len(group)
        BY <3>2, <4>1
      <4>3. group[k - Handed] = k
        BY <1>0, <4>1, <4>2 DEF Line
      <4>4. k - Handed \in GoodJobs
        BY <2>2, <4>2, <4>3 DEF GoodJobs
      <4> QED BY <3>2, <4>4
    <3> QED BY <1>1, <2>2, <3>1, <3>2 DEF Decided
  <2> QED BY <1>0, <1>1, <2>1, <2>2 DEF History, Ascending, InLog
<1>6. Private'
  BY DEF Private, Preparing
<1>7. Withdrawals' /\ Telling'
  BY <1>0, <1>1 DEF Withdrawals, Telling
<1> QED BY <1>2, <1>3, <1>5, <1>6, <1>7 DEF LedgerInvariant

LEMMA BarrierKeeps ==
    ASSUME LedgerInvariant, Barrier
    PROVE  LedgerInvariant'
<1>0. Types /\ Line /\ Phase /\ History /\ Private /\ Withdrawals /\ Telling
  BY DEF LedgerInvariant
<1>1. /\ pc = "check" /\ at > Len(group)
      /\ UNCHANGED <<pending, group, at, spins, candidate, durable, completed, detached, buffered,
                     authority, admission, failed, stopping, life, revoked, polled>>
  BY DEF Barrier, flags, room
<1>2. at = Len(group) + 1 /\ pc \in Preparing /\ outcome = "OK"
  <2>1. at \in 1 .. Len(group) + 1 /\ outcome = "OK" /\ Len(group) \in Nat
    BY <1>0, <1>1, Numbers DEF Phase, Preparing
  <2> QED BY <1>1, <2>1 DEF Preparing
<1>3. CASE GoodJobs = {}
  <2>1. pc' = "install" /\ UNCHANGED <<outcome, job>>
    BY <1>3 DEF Barrier
  <2> QED BY <1>1, <1>2, <1>3, <2>1, GivesUp
<1>4. CASE GoodJobs # {} /\ \E i \in GoodJobs : ~Valid(group[i])
  <2>1. pc' = "install" /\ outcome' = "BUSY" /\ UNCHANGED job
    BY <1>4 DEF Barrier
  <2> QED BY <1>1, <1>2, <2>1, GivesUp
<1>5. CASE GoodJobs # {} /\ \A i \in GoodJobs : Valid(group[i])
  <2>1. /\ job' = [id \in DOMAIN job |->
                      [job[id] EXCEPT !.committing = @ \/ \E i \in GoodJobs : group[i] = id]]
        /\ pc' = "commit" /\ UNCHANGED outcome
    BY <1>5 DEF Barrier
  <2>2. DOMAIN job = 1 .. Len(job) /\ \A id \in 1 .. Len(job) : job[id] \in JobRecords
    BY <1>0, Members
  <2>3. ASSUME NEW id \in 1 .. Len(job)
        PROVE  /\ job'[id] \in JobRecords
               /\ job'[id].result = job[id].result /\ job'[id].rev = job[id].rev
               /\ job'[id].cancelled = job[id].cancelled
               /\ job'[id].committing <=> (job[id].committing \/ \E i \in GoodJobs : group[i] = id)
    <3>1. PICK c \in BOOLEAN : c <=> (job[id].committing \/ \E i \in GoodJobs : group[i] = id)
      OBVIOUS
    <3>2. job[id] \in JobRecords /\ job[id].committing \in BOOLEAN
      BY <2>2 DEF JobRecords
    <3>3. job'[id] = [job[id] EXCEPT !.committing = c]
      BY <2>1, <2>2, <3>1, <3>2
    <3>4. [job[id] EXCEPT !.committing = c] \in JobRecords
      BY <3>2 DEF JobRecords
    <3>5. /\ job'[id].result = job[id].result /\ job'[id].rev = job[id].rev
          /\ job'[id].cancelled = job[id].cancelled /\ job'[id].committing = c
      BY <3>2, <3>3 DEF JobRecords
    <3> QED BY <3>1, <3>3, <3>4, <3>5
  <2>4. job' \in Seq(JobRecords) /\ Len(job') = Len(job)
    <3>1. job' \in [DOMAIN job -> JobRecords] /\ job \in Seq(JobRecords)
      BY <1>0, <2>1, <2>2, <2>3 DEF Types
    <3> QED BY <3>1, SameJobs
  <2>5. Taken' = Taken /\ Handed' = Handed /\ Seen' = Seen /\ Durable' = Durable
    BY <1>1, <2>4 DEF Taken, Handed, Seen, Durable
  <2>6. Types' /\ Line'
    BY <1>0, <1>1, <2>1, <2>4, <2>5 DEF Types, Line
  <2>7. Phase'
    <3>1. group # <<>>
      BY <1>0, <1>5, EmptySeq DEF GoodJobs
    <3> QED BY <1>0, <1>1, <1>2, <2>1, <3>1 DEF Phase, Preparing
  <2>8. \A i \in 1 .. Len(Durable) : /\ Durable[i] \in 1 .. Taken /\ Durable[i] \in 1 .. Len(job)
                                     /\ job[Durable[i]].result = "OK"
                                     /\ job[Durable[i]].committing /\ Durable[i] <= Handed
    <3>1. Taken <= Len(job) /\ Taken \in Nat /\ Len(job) \in Nat
      BY <1>0, Numbers
    <3> QED BY <1>0, <1>1, <3>1 DEF History
  <2>9. History'
    <3>1. \A i \in 1 .. Len(Durable) : job'[Durable[i]].result = "OK" /\ job'[Durable[i]].committing
      BY <2>3, <2>8
    <3>2. \A k \in 1 .. Len(job) : Decided(k)' => Decided(k)
      BY <2>1, <2>5 DEF Decided
    <3>3. \A k \in 1 .. Len(job) : Decided(k)' /\ job'[k].result = "OK" => InLog(k)
      BY <1>0, <2>3, <3>2 DEF History
    <3> QED BY <1>0, <2>4, <2>5, <2>8, <3>1, <3>3 DEF History, Ascending, InLog
  <2>10. GoodJobs' = GoodJobs
    <3>1. \A i \in 1 .. Len(group) : job'[group[i]].result = job[group[i]].result
      BY <1>0, <2>3, Members
    <3> QED BY <1>1, <3>1 DEF GoodJobs
  <2>11. Private'
    <3>1. \A i \in GoodJobs : job'[group[i]].committing
      <4>1. \A i \in GoodJobs : group[i] \in 1 .. Len(job)
        BY <1>0, Members DEF GoodJobs
      <4> QED BY <2>3, <4>1
    <3>2. /\ Len(Durable) <= Len(candidate.log)
          /\ \A i \in 1 .. Len(Durable) : candidate.log[i] = Durable[i]
          /\ Ascending(candidate.log)
          /\ \A i \in Len(Durable) + 1 .. Len(candidate.log) :
                /\ candidate.log[i] \in Handed + 1 .. Handed + at - 1
                /\ job[candidate.log[i]].result = "OK"
          /\ \A id \in Handed + 1 .. Handed + at - 1 : job[id].result = "OK" =>
                \E i \in Len(Durable) + 1 .. Len(candidate.log) : candidate.log[i] = id
      BY <1>0, <1>1 DEF Private, Preparing
    <3>3. \A id \in Handed + 1 .. Handed + at - 1 : id \in 1 .. Len(job)
      <4>1. /\ Handed \in Nat /\ Len(group) \in Nat /\ Len(job) \in Nat
            /\ Handed + Len(group) <= Len(job)
        BY <1>0, Numbers
      <4> QED BY <1>2, <4>1
    <3>4. \A id \in Handed + 1 .. Handed + at - 1 : job'[id].result = job[id].result
      BY <2>3, <3>3
    <3> QED BY <1>1, <1>5, <2>5, <2>10, <3>1, <3>2, <3>4 DEF Private, Preparing, Ascending
  <2>12. Withdrawals'
    <3>1. ASSUME NEW id \in revoked, NEW i \in GoodJobs, group[i] = id PROVE FALSE
      <4>1. ~job[id].cancelled /\ job[id].rev = authority
        BY <1>5, <3>1 DEF Valid
      <4>2. job[id].cancelled \/ job[id].rev < authority
        BY <1>0, <3>1 DEF Withdrawals
      <4>3. authority \in Nat
        BY <1>0, WriterAssumption DEF Types
      <4> QED BY <4>1, <4>2, <4>3
    <3>2. \A id \in revoked : id \in 1 .. Len(job) /\ ~job'[id].committing
      BY <1>0, <2>3, <3>1 DEF Withdrawals
    <3>3. \A id \in 1 .. Len(job) : job'[id].rev = job[id].rev
                                    /\ (job'[id].cancelled = job[id].cancelled)
      BY <2>3
    <3> QED BY <1>0, <1>1, <2>4, <3>2, <3>3 DEF Withdrawals
  <2>13. Telling'
    BY <1>0, <1>1, <2>5 DEF Telling
  <2> QED BY <2>6, <2>7, <2>9, <2>11, <2>12, <2>13 DEF LedgerInvariant
<1> QED BY <1>3, <1>4, <1>5

LEMMA BarrierFailsKeeps ==
    ASSUME LedgerInvariant, BarrierFails
    PROVE  LedgerInvariant'
<1>1. /\ pc = "check" /\ at > Len(group) /\ pc' = "install" /\ outcome' = "LIMIT"
      /\ UNCHANGED <<pending, group, at, spins, candidate, durable, job, completed, detached, buffered,
                     authority, admission, failed, stopping, life, revoked, polled>>
  BY DEF BarrierFails, room
<1>2. at = Len(group) + 1 /\ pc \in Preparing
  <2>1. at \in 1 .. Len(group) + 1 /\ Len(group) \in Nat
    BY <1>1, Numbers DEF LedgerInvariant, Phase
  <2> QED BY <1>1, <2>1 DEF Preparing
<1> QED BY <1>1, <1>2, GivesUp

LEMMA CommitFailsKeeps ==
    ASSUME LedgerInvariant, CommitFails
    PROVE  LedgerInvariant'
<1>1. /\ pc = "commit" /\ pc' = "install" /\ outcome' = "ERROR"
      /\ UNCHANGED <<pending, group, at, spins, candidate, durable, job, completed, detached, buffered,
                     authority, admission, failed, stopping, life, revoked, polled>>
  BY DEF CommitFails, room
<1>2. at = Len(group) + 1 /\ pc \in Preparing
  BY <1>1 DEF LedgerInvariant, Phase, Preparing
<1> QED BY <1>1, <1>2, GivesUp

\* The log a commit makes durable: the old one, then the successes of the group.
LEMMA Committed ==
    ASSUME LedgerInvariant, Commit
    PROVE  /\ pc = "commit" /\ durable' = candidate /\ Durable' = candidate.log
           /\ Len(Durable) < Len(candidate.log)
           /\ \A i \in 1 .. Len(Durable) : candidate.log[i] = Durable[i]
           /\ Ascending(candidate.log)
           /\ \A i \in Len(Durable) + 1 .. Len(candidate.log) :
                 /\ candidate.log[i] \in Handed + 1 .. Taken
                 /\ job[candidate.log[i]].result = "OK" /\ job[candidate.log[i]].committing
           /\ \A id \in Handed + 1 .. Taken : job[id].result = "OK" =>
                 \E i \in Len(Durable) + 1 .. Len(candidate.log) : candidate.log[i] = id
<1>0. Types /\ Line /\ Phase /\ Private
  BY DEF LedgerInvariant
<1>1. pc = "commit" /\ durable' = candidate /\ Durable' = candidate.log
  BY DEF Commit, Durable
<1>2. at = Len(group) + 1 /\ Handed + at - 1 = Taken
  <2>1. Handed \in Nat /\ Len(group) \in Nat /\ Taken = Handed + Len(group)
    BY <1>0, Numbers
  <2> QED BY <1>0, <1>1, <2>1 DEF Phase
<1>3. /\ Len(Durable) <= Len(candidate.log)
      /\ \A i \in 1 .. Len(Durable) : candidate.log[i] = Durable[i]
      /\ Ascending(candidate.log)
      /\ \A i \in Len(Durable) + 1 .. Len(candidate.log) :
            /\ candidate.log[i] \in Handed + 1 .. Taken
            /\ job[candidate.log[i]].result = "OK"
      /\ \A id \in Handed + 1 .. Taken : job[id].result = "OK" =>
            \E i \in Len(Durable) + 1 .. Len(candidate.log) : candidate.log[i] = id
  BY <1>0, <1>1, <1>2 DEF Private, Preparing
<1>4. GoodJobs # {} /\ \A i \in GoodJobs : job[group[i]].committing
  BY <1>0, <1>1 DEF Private
<1>5. Handed \in Nat /\ Len(group) \in Nat /\ Taken = Handed + Len(group)
  BY <1>0, Numbers
<1>6. \A id \in Handed + 1 .. Taken : job[id].result = "OK" => id - Handed \in GoodJobs
                                                              /\ group[id - Handed] = id
  <2> TAKE id \in Handed + 1 .. Taken
  <2> HAVE job[id].result = "OK"
  <2>1. id - Handed \in 1 .. Len(group)
    BY <1>5
  <2>2. group[id - Handed] = Handed + (id - Handed)
    BY <1>0, <2>1 DEF Line
  <2>3. group[id - Handed] = id
    BY <1>5, <2>2
  <2> QED BY <2>1, <2>3 DEF GoodJobs
<1>7. \A i \in Len(Durable) + 1 .. Len(candidate.log) : job[candidate.log[i]].committing
  BY <1>3, <1>4, <1>6
<1>8. Len(Durable) < Len(candidate.log)
  <2>1. PICK i \in GoodJobs : TRUE
    BY <1>4
  <2>2. i \in 1 .. Len(group) /\ job[group[i]].result = "OK" /\ group[i] = Handed + i
    BY <1>0 DEF GoodJobs, Line
  <2>3. Handed + i \in Handed + 1 .. Taken
    BY <1>5, <2>2
  <2>4. \E k \in Len(Durable) + 1 .. Len(candidate.log) : candidate.log[k] = Handed + i
    BY <1>3, <2>2, <2>3
  <2>5. Len(Durable) \in Nat /\ Len(candidate.log) \in Nat
    BY <1>0, Numbers
  <2> QED BY <2>4, <2>5
<1> QED BY <1>1, <1>3, <1>7, <1>8

LEMMA CommitKeeps ==
    ASSUME LedgerInvariant, Commit
    PROVE  LedgerInvariant'
<1>0. Types /\ Line /\ Phase /\ History /\ Private /\ Withdrawals /\ Telling
  BY DEF LedgerInvariant
<1>1. /\ pc = "commit" /\ pc' = "install" /\ durable' = candidate /\ Durable' = candidate.log
      /\ UNCHANGED <<pending, group, at, spins, candidate, outcome, job, completed, detached, buffered,
                     authority, admission, failed, stopping, life, revoked, polled>>
  BY DEF Commit, flags, room, Durable
<1>2. Taken' = Taken /\ Handed' = Handed /\ Seen' = Seen
  BY <1>1 DEF Taken, Handed, Seen
<1>3. /\ Len(Durable) \in Nat /\ Len(candidate.log) \in Nat /\ Len(Durable) < Len(candidate.log)
      /\ Seen \in Nat /\ Handed \in Nat /\ Taken \in Nat /\ Seen <= Handed /\ Handed <= Taken
  BY <1>0, Committed, Numbers
<1>4. /\ \A i \in 1 .. Len(Durable) : candidate.log[i] = Durable[i] /\ Durable[i] \in 1 .. Taken
                                      /\ job[Durable[i]].result = "OK" /\ job[Durable[i]].committing
      /\ \A i \in Len(Durable) + 1 .. Len(candidate.log) :
            /\ candidate.log[i] \in Handed + 1 .. Taken
            /\ job[candidate.log[i]].result = "OK" /\ job[candidate.log[i]].committing
  BY <1>0, Committed DEF History
<1>5. Types' /\ Line'
  BY <1>0, <1>1, <1>2 DEF Types, Line
<1>6. Phase'
  BY <1>0, <1>1 DEF Phase, Preparing
<1>7. History'
  <2>1. \A i \in 1 .. Len(candidate.log) :
           \/ i \in 1 .. Len(Durable)
           \/ i \in Len(Durable) + 1 .. Len(candidate.log)
    BY <1>3
  <2>2. \A i \in 1 .. Len(candidate.log) :
           /\ candidate.log[i] \in 1 .. Taken
           /\ job[candidate.log[i]].result = "OK" /\ job[candidate.log[i]].committing
    <3> TAKE i \in 1 .. Len(candidate.log)
    <3>1. CASE i \in 1 .. Len(Durable)
      BY <1>4, <3>1
    <3>2. CASE i \in Len(Durable) + 1 .. Len(candidate.log)
      <4>1. candidate.log[i] \in Handed + 1 .. Taken
        BY <1>4, <3>2
      <4>2. candidate.log[i] \in 1 .. Taken
        BY <1>3, <4>1
      <4> QED BY <1>4, <3>2, <4>2
    <3> QED BY <2>1, <3>1, <3>2
  <2>3. ASSUME NEW k \in 1 .. Len(job), Decided(k)', job[k].result = "OK"
        PROVE  \E i \in 1 .. Len(candidate.log) : candidate.log[i] = k
    <3>1. CASE k <= Handed
      <4>1. PICK i \in 1 .. Len(Durable) : Durable[i] = k
        BY <1>0, <2>3, <3>1 DEF History, Decided, InLog
      <4>2. i \in 1 .. Len(candidate.log) /\ candidate.log[i] = k
        BY <1>3, <1>4, <4>1
      <4> QED BY <4>2
    <3>2. CASE ~(k <= Handed)
      <4>1. k <= Taken
        BY <1>2, <2>3, <3>2 DEF Decided
      <4>2. k \in Handed + 1 .. Taken
        BY <1>3, <3>2, <4>1
      <4>3. PICK i \in Len(Durable) + 1 .. Len(candidate.log) : candidate.log[i] = k
        BY <2>3, <4>2, Committed
      <4>4. i \in 1 .. Len(candidate.log)
        BY <1>3
      <4> QED BY <4>3, <4>4
    <3> QED BY <3>1, <3>2
  <2>4. outcome' = "OK"
    BY <1>0, <1>1 DEF Phase, Preparing
  <2>5. Ascending(candidate.log)
    BY Committed
  <2> QED BY <1>1, <1>2, <2>2, <2>3, <2>4, <2>5 DEF History, Ascending, InLog
<1>8. Private'
  BY <1>1 DEF Private, Preparing
<1>9. Withdrawals'
  BY <1>0, <1>1 DEF Withdrawals
<1>10. Telling'
  <2>1. Len(polled.told) <= Len(Durable) /\ Len(polled.told) \in Nat
    <3>1. polled.told \in Seq(Nat)
      BY <1>0 DEF Types
    <3> QED BY <1>0, <3>1, LenProperties DEF Telling
  <2>2. \A i \in 1 .. Len(polled.told) : polled.told[i] = candidate.log[i]
    BY <1>0, <1>3, <1>4, <2>1 DEF Telling
  <2>3. ASSUME life \in {"up", "stopping"}, NEW i \in 1 .. Len(candidate.log)
        PROVE  i <= Len(polled.told) <=> candidate.log[i] <= Seen
    <3>1. CASE i \in 1 .. Len(Durable)
      BY <1>0, <1>4, <2>3, <3>1 DEF Telling
    <3>2. CASE i \in Len(Durable) + 1 .. Len(candidate.log)
      <4>1. candidate.log[i] \in Handed + 1 .. Taken
        BY <1>4, <3>2
      <4> QED BY <1>3, <2>1, <3>2, <4>1
    <3> QED BY <1>3, <3>1, <3>2
  <2>4. Len(polled.told) <= Len(candidate.log)
    BY <1>3, <2>1
  <2> QED BY <1>0, <1>1, <1>2, <2>2, <2>3, <2>4 DEF Telling
<1> QED BY <1>5, <1>6, <1>7, <1>8, <1>9, <1>10 DEF LedgerInvariant

\* A group that is no commit takes the results of its jobs back.
LEMMA Installed ==
    ASSUME LedgerInvariant, Install
    PROVE  /\ job' \in Seq(JobRecords) /\ Len(job') = Len(job)
           /\ \A id \in 1 .. Len(job) :
                 /\ job'[id].req = job[id].req /\ job'[id].rev = job[id].rev
                 /\ job'[id].cancelled = job[id].cancelled
                 /\ job'[id].committing = job[id].committing
                 /\ outcome = "OK" => job'[id] = job[id]
                 /\ id \notin {group[i] : i \in GoodJobs} => job'[id] = job[id]
                 /\ outcome # "OK" /\ id \in {group[i] : i \in GoodJobs} => job'[id].result = outcome
<1>0. Types /\ Line
  BY DEF LedgerInvariant
<1> DEFINE good == {group[i] : i \in GoodJobs}
<1>1. DOMAIN job = 1 .. Len(job) /\ \A id \in 1 .. Len(job) : job[id] \in JobRecords
  BY <1>0, Members
<1>2. job' = [id \in DOMAIN job |->
                 IF id \notin good \/ outcome = "OK" THEN job[id]
                 ELSE [job[id] EXCEPT !.result = outcome, !.before = EmptyRoot, !.after = EmptyRoot]]
  BY DEF Install
<1> HIDE DEF good
<1>3. ASSUME NEW id \in 1 .. Len(job)
      PROVE  /\ job'[id] \in JobRecords
             /\ job'[id].req = job[id].req /\ job'[id].rev = job[id].rev
             /\ job'[id].cancelled = job[id].cancelled
             /\ job'[id].committing = job[id].committing
             /\ outcome = "OK" => job'[id] = job[id]
             /\ id \notin good => job'[id] = job[id]
             /\ outcome # "OK" /\ id \in good => job'[id].result = outcome
  <2>1. CASE id \notin good \/ outcome = "OK"
    <3>1. job'[id] = job[id]
      BY <1>1, <1>2, <2>1
    <3> QED BY <1>1, <2>1, <3>1
  <2>2. CASE id \in good /\ outcome # "OK"
    <3>1. job'[id] = [job[id] EXCEPT !.result = outcome, !.before = EmptyRoot, !.after = EmptyRoot]
      BY <1>1, <1>2, <2>2
    <3>2. outcome \in Results /\ EmptyRoot \in Roots /\ job[id] \in JobRecords
      BY <1>0, <1>1, EmptyRootType DEF Types, Results, Negative
    <3> QED BY <2>2, <3>1, <3>2 DEF JobRecords
  <2> QED BY <2>1, <2>2
<1>4. job' \in Seq(JobRecords) /\ Len(job') = Len(job)
  <2>1. job' \in [DOMAIN job -> JobRecords] /\ job \in Seq(JobRecords)
    BY <1>0, <1>1, <1>2, <1>3 DEF Types
  <2> QED BY <2>1, SameJobs
<1> QED BY <1>3, <1>4 DEF good

LEMMA InstallKeeps ==
    ASSUME LedgerInvariant, Install
    PROVE  LedgerInvariant'
<1>0. Types /\ Line /\ Phase /\ History /\ Private /\ Withdrawals /\ Telling
  BY DEF LedgerInvariant
<1>1. /\ pc = "install" /\ pc' = "complete"
      /\ failed' = (failed \/ outcome = "ERROR") /\ admission' = (admission /\ outcome # "ERROR")
      /\ UNCHANGED <<pending, group, at, spins, candidate, outcome, durable, completed, detached,
                     buffered, authority, stopping, life, revoked, polled>>
  BY DEF Install, writer, room
<1>2. job' \in Seq(JobRecords) /\ Len(job') = Len(job)
  BY Installed
<1>3. Taken' = Taken /\ Handed' = Handed /\ Seen' = Seen /\ Durable' = Durable
  BY <1>1, <1>2 DEF Taken, Handed, Seen, Durable
<1>4. Types'
  <2>1. failed' \in BOOLEAN /\ admission' \in BOOLEAN
    BY <1>1
  <2> QED BY <1>0, <1>1, <1>2, <2>1 DEF Types
<1>5. Line'
  BY <1>0, <1>1, <1>3 DEF Line
<1>6. Phase'
  BY <1>0, <1>1 DEF Phase, Preparing
<1>7. History'
  <2>1. \A i \in 1 .. Len(Durable) : /\ Durable[i] \in 1 .. Taken /\ Durable[i] \in 1 .. Len(job)
                                     /\ job[Durable[i]].result = "OK" /\ job[Durable[i]].committing
                                     /\ outcome # "OK" => Durable[i] <= Handed
    <3>1. Taken <= Len(job) /\ Taken \in Nat /\ Len(job) \in Nat
      BY <1>0, Numbers
    <3> QED BY <1>0, <1>1, <3>1 DEF History
  <2>2. ASSUME NEW i \in 1 .. Len(Durable)
        PROVE  job'[Durable[i]].result = "OK" /\ job'[Durable[i]].committing
    <3>1. CASE outcome = "OK"
      BY <2>1, <3>1, Installed
    <3>2. CASE outcome # "OK"
      <4>1. Durable[i] \notin {group[k] : k \in GoodJobs}
        <5>1. \A k \in GoodJobs : k \in 1 .. Len(group) /\ group[k] = Handed + k
          BY <1>0 DEF GoodJobs, Line
        <5>2. Handed \in Nat /\ Durable[i] <= Handed /\ Durable[i] \in Nat /\ Len(group) \in Nat
          BY <1>0, <2>1, <3>2, Numbers, Members
        <5> QED BY <5>1, <5>2
      <4> QED BY <2>1, <4>1, Installed
    <3> QED BY <3>1, <3>2
  <2>3. ASSUME NEW k \in 1 .. Len(job), Decided(k)', job'[k].result = "OK" PROVE InLog(k)
    <3>1. k <= Taken
      <4>1. Handed \in Nat /\ Taken \in Nat /\ Handed <= Taken
        BY <1>0, Numbers
      <4> QED BY <1>1, <1>3, <2>3, <4>1 DEF Decided
    <3>2. CASE outcome = "OK"
      <4>1. Decided(k) /\ job[k].result = "OK"
        BY <1>1, <2>3, <3>1, <3>2, Installed DEF Decided
      <4> QED BY <1>0, <4>1 DEF History
    <3>3. CASE outcome # "OK"
      <4>1. k \notin {group[i] : i \in GoodJobs}
        BY <2>3, <3>3, Installed
      <4>2. job[k].result = "OK"
        BY <2>3, <4>1, Installed
      <4>3. k <= Handed
        <5>1. SUFFICES ASSUME ~(k <= Handed) PROVE FALSE
          OBVIOUS
        <5>2. Handed \in Nat /\ Len(group) \in Nat /\ Taken = Handed + Len(group)
          BY <1>0, Numbers
        <5>3. k - Handed \in 1 .. Len(group) /\ Handed + (k - Handed) = k
          BY <3>1, <5>1, <5>2
        <5>4. group[k - Handed] = k
          BY <1>0, <5>3 DEF Line
        <5>5. k - Handed \in GoodJobs
          BY <4>2, <5>3, <5>4 DEF GoodJobs
        <5> QED BY <4>1, <5>4, <5>5
      <4> QED BY <1>0, <4>2, <4>3 DEF History, Decided
    <3> QED BY <3>2, <3>3
  <2> QED BY <1>0, <1>1, <1>2, <1>3, <2>1, <2>2, <2>3 DEF History, Ascending, InLog
<1>8. Private'
  BY <1>1 DEF Private, Preparing
<1>9. Withdrawals'
  <2>1. \A id \in 1 .. Len(job) : /\ job'[id].rev = job[id].rev
                                  /\ job'[id].cancelled = job[id].cancelled
                                  /\ job'[id].committing = job[id].committing
    BY Installed
  <2> QED BY <1>0, <1>1, <1>2, <2>1 DEF Withdrawals
<1>10. Telling'
  BY <1>0, <1>1, <1>3 DEF Telling
<1> QED BY <1>4, <1>5, <1>6, <1>7, <1>8, <1>9, <1>10 DEF LedgerInvariant

LEMMA HandsOver ==
    ASSUME LedgerInvariant, pc = "complete", pc' = "wait", completed' = completed \o group,
           group' = <<>>, candidate' = durable, at' = 1, spins' = 0, outcome' = "OK",
           UNCHANGED <<pending, durable, job, detached, buffered, authority, stopping, life, revoked,
                       polled>>,
           admission' \in BOOLEAN, failed' \in BOOLEAN
    PROVE  LedgerInvariant'
<1>0. Types /\ Line /\ Phase /\ History /\ Private /\ Withdrawals /\ Telling
  BY DEF LedgerInvariant
<1>1. /\ completed' \in Seq(Nat) /\ Len(completed') = Len(completed) + Len(group)
      /\ \A i \in 1 .. Len(completed) + Len(group) :
            completed'[i] = IF i <= Len(completed) THEN completed[i] ELSE group[i - Len(completed)]
  <2>1. completed \in Seq(Nat) /\ group \in Seq(Nat)
    BY <1>0 DEF Types
  <2> QED BY <2>1, ConcatProperties
<1>2. group' \in Seq(Nat) /\ Len(group') = 0
  BY EmptySeq
<1>3. /\ Len(job) \in Nat /\ Len(pending) \in Nat /\ Len(group) \in Nat /\ Len(completed) \in Nat
      /\ Taken \in Nat /\ Handed \in Nat /\ Seen \in Nat
      /\ Taken = Handed + Len(group) /\ Handed = Seen + Len(completed)
  BY <1>0, Numbers
<1>4. Taken' = Taken /\ Handed' = Taken /\ Seen' = Seen /\ Durable' = Durable
  <2>1. Taken' = Taken /\ Durable' = Durable
    BY DEF Taken, Durable
  <2>2. Handed' = Taken
    BY <1>2, <1>3, <2>1 DEF Handed
  <2> QED BY <1>1, <1>3, <2>1, <2>2 DEF Seen
<1>5. Types'
  <2>1. 0 \in 0 .. MaxContinue
    BY WriterAssumption
  <2> QED BY <1>0, <1>1, <1>2, <2>1 DEF Types
<1>6. Line'
  <2>1. ASSUME NEW i \in 1 .. Len(completed') PROVE completed'[i] = Seen + i
    <3>1. CASE i \in 1 .. Len(completed)
      BY <1>0, <1>1, <1>3, <3>1 DEF Line
    <3>2. CASE i \notin 1 .. Len(completed)
      <4>1. i - Len(completed) \in 1 .. Len(group) /\ ~(i <= Len(completed))
        BY <1>1, <1>3, <3>2
      <4>2. group[i - Len(completed)] = Handed + (i - Len(completed))
        BY <1>0, <4>1 DEF Line
      <4>3. completed'[i] = group[i - Len(completed)]
        BY <1>1, <4>1
      <4> QED BY <1>3, <4>2, <4>3
    <3> QED BY <3>1, <3>2
  <2> QED BY <1>0, <1>2, <1>4, <2>1 DEF Line
<1>7. Phase'
  <2>1. pc # "ended" /\ life \notin {"closed", "abort"}
    BY <1>0 DEF Phase
  <2> QED BY <1>0, <2>1 DEF Phase, Preparing
<1>8. History'
  <2>1. \A k \in 1 .. Len(job) : Decided(k)' => Decided(k)
    BY <1>4 DEF Decided
  <2>2. \A i \in 1 .. Len(Durable) : Durable[i] \in 1 .. Taken /\ Durable[i] <= Taken
    BY <1>0, <1>3 DEF History
  <2> QED BY <1>0, <1>4, <2>1, <2>2 DEF History, Ascending, InLog
<1>9. Private'
  BY DEF Private, Preparing
<1>10. Withdrawals' /\ Telling'
  BY <1>0, <1>4 DEF Withdrawals, Telling
<1> QED BY <1>5, <1>6, <1>7, <1>8, <1>9, <1>10 DEF LedgerInvariant

LEMMA CompleteKeeps ==
    ASSUME LedgerInvariant, Complete \/ CompleteFails
    PROVE  LedgerInvariant'
<1>1. /\ pc = "complete" /\ pc' = "wait" /\ completed' = completed \o group
      /\ group' = <<>> /\ candidate' = durable /\ at' = 1 /\ spins' = 0 /\ outcome' = "OK"
      /\ UNCHANGED <<pending, durable, job, detached, buffered, authority, stopping, life, revoked,
                     polled>>
  BY DEF Complete, CompleteFails, flags, room
<1>2. admission' \in BOOLEAN /\ failed' \in BOOLEAN
  <2>1. admission \in BOOLEAN /\ failed \in BOOLEAN
    BY DEF LedgerInvariant, Types
  <2> QED BY <2>1 DEF Complete, CompleteFails, flags
<1> QED BY <1>1, <1>2, HandsOver

LEMMA EndKeeps ==
    ASSUME LedgerInvariant, End
    PROVE  LedgerInvariant'
<1>0. Types /\ Line /\ Phase /\ History /\ Private /\ Withdrawals /\ Telling
  BY DEF LedgerInvariant
<1>1. /\ pc = "wait" /\ pc' = "ended" /\ pending = <<>> /\ stopping
      /\ UNCHANGED <<pending, group, at, spins, candidate, outcome, durable, job, completed, detached,
                     buffered, authority, admission, failed, stopping, life, revoked, polled>>
  BY DEF End, writer, flags, room
<1>2. Taken' = Taken /\ Handed' = Handed /\ Seen' = Seen /\ Durable' = Durable
  BY <1>1 DEF Taken, Handed, Seen, Durable
<1>3. Types' /\ Line'
  BY <1>0, <1>1, <1>2 DEF Types, Line
<1>4. Phase'
  BY <1>0, <1>1 DEF Phase, Preparing
<1>5. History'
  BY <1>0, <1>1, <1>2 DEF History, Ascending, InLog, Decided
<1>6. Private'
  BY <1>1 DEF Private, Preparing
<1>7. Withdrawals' /\ Telling'
  BY <1>0, <1>1, <1>2 DEF Withdrawals, Telling
<1> QED BY <1>3, <1>4, <1>5, <1>6, <1>7 DEF LedgerInvariant

-----------------------------------------------------------------------------
(* The main thread.                                                           *)

LEMMA FewerBuffered ==
    ASSUME Types, NEW i \in DOMAIN buffered
    PROVE  RemoveAt(buffered, i) \in Seq([req : Asked, rev : Nat])
BY Shorter DEF Types

LEMMA ReserveKeeps ==
    ASSUME LedgerInvariant, Reserve \/ DropDelivery
    PROVE  LedgerInvariant'
<1>0. Types
  BY DEF LedgerInvariant
<1>1. UNCHANGED <<pc, pending, group, at, spins, candidate, outcome, durable, job, completed,
                  authority, stopping, life, revoked, polled, detached, admission, failed>>
  BY DEF Reserve, DropDelivery, writer, flags
<1>2. buffered' \in Seq([req : Asked, rev : Nat])
  <2>1. CASE Reserve
    <3>1. PICK r \in Requests : /\ r.kind \in Mutations
                                /\ buffered' = Append(buffered, [req |-> r, rev |-> authority])
      BY <2>1 DEF Reserve
    <3>2. r \in Asked /\ authority \in Nat
      BY <1>0, <3>1, WriterAssumption DEF Asked, Types
    <3>3. [req |-> r, rev |-> authority] \in [req : Asked, rev : Nat]
      BY <3>2
    <3>4. buffered \in Seq([req : Asked, rev : Nat])
      BY <1>0 DEF Types
    <3> QED BY <3>1, <3>3, <3>4
  <2>2. CASE DropDelivery
    BY <1>0, <2>2, FewerBuffered DEF DropDelivery
  <2> QED BY <2>1, <2>2
<1>3. admission' \in BOOLEAN /\ failed' \in BOOLEAN
  BY <1>0, <1>1 DEF Types
<1> QED BY <1>1, <1>2, <1>3, Aside

LEMMA PinKeeps ==
    ASSUME LedgerInvariant, Pin \/ Release
    PROVE  LedgerInvariant'
<1>0. Types
  BY DEF LedgerInvariant
<1>1. UNCHANGED <<pc, pending, group, at, spins, candidate, outcome, durable, job, completed,
                  authority, stopping, life, revoked, polled, detached, buffered, admission, failed>>
  BY DEF Pin, Release, writer, flags, room
<1>2. admission' \in BOOLEAN /\ failed' \in BOOLEAN /\ buffered' \in Seq([req : Asked, rev : Nat])
  BY <1>0, <1>1 DEF Types
<1> QED BY <1>1, <1>2, Aside

LEMMA JobFreeKeeps ==
    ASSUME LedgerInvariant, JobFree
    PROVE  LedgerInvariant'
<1>0. Types
  BY DEF LedgerInvariant
<1>1. /\ detached' = NoJob
      /\ UNCHANGED <<pc, pending, group, at, spins, candidate, outcome, durable, job, completed,
                     authority, stopping, life, revoked, polled, buffered, admission, failed>>
  BY DEF JobFree, writer, flags
<1>2. admission' \in BOOLEAN /\ failed' \in BOOLEAN /\ buffered' \in Seq([req : Asked, rev : Nat])
  BY <1>0, <1>1 DEF Types
<1> QED BY <1>1, <1>2, Aside

\* The job that is submitted comes last.
LEMMA Submitted ==
    ASSUME LedgerInvariant, SubmitDelivery
    PROVE  /\ job' \in Seq(JobRecords) /\ Len(job') = Len(job) + 1
           /\ \A id \in 1 .. Len(job) : job'[id] = job[id]
           /\ job'[Len(job) + 1].result = "none" /\ ~job'[Len(job) + 1].committing
           /\ job'[Len(job) + 1].rev = authority
           /\ pending' = Append(pending, Len(job) + 1)
<1>0. Types /\ Line
  BY DEF LedgerInvariant
<1>1. Cardinality(DOMAIN job) = Len(job) /\ Len(job) \in Nat /\ job \in Seq(JobRecords)
  <2>1. Len(job) \in Nat /\ DOMAIN job = 1 .. Len(job) /\ job \in Seq(JobRecords)
    BY <1>0, Numbers, Members DEF Types
  <2>2. Cardinality(1 .. Len(job)) = Len(job)
    BY <2>1, FS_Interval
  <2> QED BY <2>1, <2>2
<1>2. PICK i \in DOMAIN buffered :
         /\ job' = Append(job, NewJob(buffered[i].req, authority))
         /\ pending' = Append(pending, Cardinality(DOMAIN job) + 1)
  BY DEF SubmitDelivery
<1>3. buffered[i].req \in Asked /\ authority \in Nat
  <2>1. buffered \in Seq([req : Asked, rev : Nat]) /\ authority \in Nat
    BY <1>0, WriterAssumption DEF Types
  <2>2. buffered[i] \in [req : Asked, rev : Nat]
    BY <2>1, LenProperties, ElementOfSeq
  <2> QED BY <2>1, <2>2
<1>4. PICK j : j = NewJob(buffered[i].req, authority)
  OBVIOUS
<1>5. j \in JobRecords /\ j.result = "none" /\ ~j.committing /\ j.rev = authority
  BY <1>3, <1>4, NewJobType
<1>6. /\ job' \in Seq(JobRecords) /\ Len(job') = Len(job) + 1
      /\ \A id \in 1 .. Len(job) : job'[id] = job[id]
      /\ job'[Len(job) + 1] = j
  BY <1>1, <1>2, <1>4, <1>5
<1> QED BY <1>1, <1>2, <1>5, <1>6

LEMMA SubmitKeeps ==
    ASSUME LedgerInvariant, SubmitDelivery
    PROVE  LedgerInvariant'
<1>0. Types /\ Line /\ Phase /\ History /\ Private /\ Withdrawals /\ Telling
  BY DEF LedgerInvariant
<1>1. /\ life = "up"
      /\ UNCHANGED <<pc, group, at, spins, candidate, outcome, durable, completed, detached, authority,
                     admission, failed, stopping, life, revoked, polled>>
  BY DEF SubmitDelivery, writer, flags
<1>2. buffered' \in Seq([req : Asked, rev : Nat])
  BY <1>0, FewerBuffered DEF SubmitDelivery
<1>3. /\ job' \in Seq(JobRecords) /\ Len(job') = Len(job) + 1
      /\ \A id \in 1 .. Len(job) : job'[id] = job[id]
      /\ job'[Len(job) + 1].result = "none" /\ ~job'[Len(job) + 1].committing
      /\ job'[Len(job) + 1].rev = authority
  BY Submitted
<1>4. /\ Len(job) \in Nat /\ Len(pending) \in Nat /\ Len(group) \in Nat
      /\ Taken \in Nat /\ Handed \in Nat /\ Len(job) = Taken + Len(pending) /\ Handed <= Taken
  BY <1>0, Numbers
<1>5. /\ pending' \in Seq(Nat) /\ Len(pending') = Len(pending) + 1
      /\ \A i \in 1 .. Len(pending) : pending'[i] = pending[i]
      /\ pending'[Len(pending) + 1] = Len(job) + 1
  <2>1. pending \in Seq(Nat) /\ pending' = Append(pending, Len(job) + 1) /\ Len(job) + 1 \in Nat
    BY <1>0, <1>4, Submitted DEF Types
  <2> QED BY <2>1
<1>6. Taken' = Taken /\ Handed' = Handed /\ Seen' = Seen /\ Durable' = Durable
  <2>1. Taken' = Taken /\ Durable' = Durable
    BY <1>1, <1>3, <1>4, <1>5 DEF Taken, Durable
  <2> QED BY <1>1, <2>1 DEF Handed, Seen
<1>7. Types'
  BY <1>0, <1>1, <1>2, <1>3, <1>5 DEF Types
<1>8. Line'
  <2>1. ASSUME NEW i \in 1 .. Len(pending') PROVE pending'[i] = Taken + i
    <3>1. CASE i \in 1 .. Len(pending)
      BY <1>0, <1>5, <3>1 DEF Line
    <3>2. CASE i = Len(pending) + 1
      BY <1>4, <1>5, <3>2
    <3> QED BY <1>4, <1>5, <3>1, <3>2
  <2> QED BY <1>0, <1>1, <1>6, <2>1 DEF Line
<1>9. Phase'
  <2>1. pc # "ended"
    <3>1. ~stopping
      BY DEF SubmitDelivery, Admitting
    <3> QED BY <1>0, <3>1 DEF Phase
  <2> QED BY <1>0, <1>1, <2>1 DEF Phase, Preparing
<1>10. History'
  <2>1. \A i \in 1 .. Len(Durable) : Durable[i] \in 1 .. Taken /\ Durable[i] \in 1 .. Len(job)
                                     /\ job[Durable[i]].result = "OK" /\ job[Durable[i]].committing
    BY <1>0, <1>4 DEF History
  <2>2. \A i \in 1 .. Len(Durable) : job'[Durable[i]].result = "OK" /\ job'[Durable[i]].committing
    BY <1>3, <2>1
  <2>3. ASSUME NEW k \in 1 .. Len(job'), Decided(k)', job'[k].result = "OK" PROVE InLog(k)
    <3>1. k \in 1 .. Len(job)
      BY <1>3, <1>4, <2>3
    <3>2. Decided(k)
      BY <1>1, <1>6, <2>3 DEF Decided
    <3> QED BY <1>0, <1>3, <2>3, <3>1, <3>2 DEF History
  <2> QED BY <1>0, <1>1, <1>6, <2>1, <2>2, <2>3 DEF History, Ascending, InLog
<1>11. GoodJobs' = GoodJobs /\ \A i \in GoodJobs : job'[group[i]] = job[group[i]]
  <2>1. \A i \in 1 .. Len(group) : job'[group[i]] = job[group[i]]
    BY <1>0, <1>3, Members
  <2> QED BY <1>1, <2>1 DEF GoodJobs
<1>12. Private'
  <2>1. ASSUME pc \in Preparing, NEW id \in Handed + 1 .. Handed + at - 1 PROVE job'[id] = job[id]
    <3>1. at \in Nat /\ at <= Len(group) + 1
      BY <1>0, <1>4, <2>1 DEF Types, Phase, Preparing
    <3>2. id \in 1 .. Len(job)
      <4>1. Taken = Handed + Len(group)
        BY <1>0, Numbers
      <4> QED BY <1>4, <3>1, <4>1
    <3> QED BY <1>3, <3>2
  <2>2. ASSUME pc \in Preparing, NEW i \in Len(Durable) + 1 .. Len(candidate.log)
        PROVE  candidate.log[i] \in Handed + 1 .. Handed + at - 1 /\ job'[candidate.log[i]].result = "OK"
    <3>1. candidate.log[i] \in Handed + 1 .. Handed + at - 1 /\ job[candidate.log[i]].result = "OK"
      BY <1>0, <2>2 DEF Private
    <3> QED BY <2>1, <2>2, <3>1
  <2> QED BY <1>0, <1>1, <1>6, <1>11, <2>1, <2>2 DEF Private, Ascending
<1>13. Withdrawals'
  <2>1. ASSUME NEW id \in 1 .. Len(job') PROVE job'[id].rev <= authority
    <3>1. CASE id \in 1 .. Len(job)
      BY <1>0, <1>3, <3>1 DEF Withdrawals
    <3>2. CASE id = Len(job) + 1
      <4>1. authority \in Nat
        BY <1>0, WriterAssumption DEF Types
      <4> QED BY <1>3, <3>2, <4>1
    <3> QED BY <1>3, <1>4, <3>1, <3>2
  <2>2. ASSUME NEW id \in revoked
        PROVE  /\ id \in 1 .. Len(job') /\ ~job'[id].committing
               /\ job'[id].cancelled \/ job'[id].rev < authority
    <3>1. id \in 1 .. Len(job)
      BY <1>0 DEF Withdrawals
    <3>2. job'[id] = job[id] /\ id \in 1 .. Len(job')
      BY <1>3, <1>4, <3>1
    <3> QED BY <1>0, <3>2 DEF Withdrawals
  <2> QED BY <1>1, <2>1, <2>2 DEF Withdrawals
<1>14. Telling'
  BY <1>0, <1>1, <1>6 DEF Telling
<1> QED BY <1>7, <1>8, <1>9, <1>10, <1>12, <1>13, <1>14 DEF LedgerInvariant

LEMMA WithdrawableJobs ==
    ASSUME Types, Line
    PROVE  \A id \in Withdrawable : id \in 1 .. Len(job) /\ ~job[id].committing
<1>1. \A id \in ToSet(pending) : id \in 1 .. Len(job)
  <2>1. pending \in Seq(Nat)
    BY DEF Types
  <2>2. \A id \in ToSet(pending) : \E i \in 1 .. Len(pending) : id = Taken + i
    BY <2>1, LenProperties DEF ToSet, Line
  <2>3. Taken \in Nat /\ Len(pending) \in Nat /\ Len(job) = Taken + Len(pending)
    BY Numbers
  <2> QED BY <2>2, <2>3
<1>2. \A id \in ToSet(group) : id \in 1 .. Len(job)
  <2>1. group \in Seq(Nat)
    BY DEF Types
  <2>2. \A id \in ToSet(group) : \E i \in 1 .. Len(group) : id = group[i]
    BY <2>1, LenProperties DEF ToSet
  <2> QED BY <2>2, Members
<1> QED BY <1>1, <1>2 DEF Withdrawable

LEMMA CancelledJobs ==
    ASSUME Types, Line, NEW ids, job' = Cancelled(ids)
    PROVE  /\ job' \in Seq(JobRecords) /\ Len(job') = Len(job)
           /\ \A id \in 1 .. Len(job) :
                 /\ job'[id].req = job[id].req /\ job'[id].rev = job[id].rev
                 /\ job'[id].result = job[id].result
                 /\ job'[id].committing = job[id].committing
                 /\ job'[id].before = job[id].before /\ job'[id].after = job[id].after
                 /\ job[id].cancelled \/ id \in ids => job'[id].cancelled
<1>1. DOMAIN job = 1 .. Len(job) /\ \A id \in 1 .. Len(job) : job[id] \in JobRecords
  BY Members
<1>2. job' = [id \in DOMAIN job |-> IF id \in ids THEN [job[id] EXCEPT !.cancelled = TRUE]
                                                  ELSE job[id]]
  BY DEF Cancelled
<1>3. ASSUME NEW id \in 1 .. Len(job)
      PROVE  /\ job'[id] \in JobRecords
             /\ job'[id].req = job[id].req /\ job'[id].rev = job[id].rev
             /\ job'[id].result = job[id].result
             /\ job'[id].committing = job[id].committing
             /\ job'[id].before = job[id].before /\ job'[id].after = job[id].after
             /\ job[id].cancelled \/ id \in ids => job'[id].cancelled
  <2>1. CASE id \in ids
    <3>1. job'[id] = [job[id] EXCEPT !.cancelled = TRUE]
      BY <1>1, <1>2, <2>1
    <3>2. job[id] \in JobRecords
      BY <1>1
    <3> QED BY <3>1, <3>2 DEF JobRecords
  <2>2. CASE id \notin ids
    <3>1. job'[id] = job[id]
      BY <1>1, <1>2, <2>2
    <3> QED BY <1>1, <2>2, <3>1
  <2> QED BY <2>1, <2>2
<1>4. job' \in Seq(JobRecords) /\ Len(job') = Len(job)
  <2>1. job' \in [DOMAIN job -> JobRecords] /\ job \in Seq(JobRecords)
    BY <1>1, <1>2, <1>3 DEF Types
  <2> QED BY <2>1, SameJobs
<1> QED BY <1>3, <1>4

LEMMA CancelKeeps ==
    ASSUME LedgerInvariant, Cancel \/ Shutdown
    PROVE  LedgerInvariant'
<1>0. Types /\ Line /\ Phase /\ History /\ Private /\ Withdrawals /\ Telling
  BY DEF LedgerInvariant
<1>1. PICK ids \in SUBSET Withdrawable : job' = Cancelled(ids) /\ revoked' = revoked \cup ids
  <2>1. CASE Cancel
    <3>1. PICK id \in Withdrawable : job' = Cancelled({id}) /\ revoked' = revoked \cup {id}
      BY <2>1 DEF Cancel
    <3>2. {id} \in SUBSET Withdrawable
      BY <3>1
    <3> QED BY <3>1, <3>2
  <2>2. CASE Shutdown
    BY <2>2 DEF Shutdown
  <2> QED BY <2>1, <2>2
<1>2. /\ life = "up"
      /\ UNCHANGED <<pc, pending, group, at, spins, candidate, outcome, durable, completed, detached,
                     buffered, authority, failed, polled>>
  BY DEF Cancel, Shutdown, writer, flags, room
<1>3. /\ admission' \in BOOLEAN /\ stopping' \in BOOLEAN /\ life' \in {"up", "stopping"}
      /\ stopping' <=> life' # "up"
      /\ life' # "up" => detached = NoJob
  <2>1. CASE Cancel
    BY <1>0, <1>2, <2>1 DEF Cancel, flags, Types, Phase
  <2>2. CASE Shutdown
    BY <2>2 DEF Shutdown
  <2> QED BY <2>1, <2>2
<1>4. /\ job' \in Seq(JobRecords) /\ Len(job') = Len(job)
      /\ \A id \in 1 .. Len(job) :
            /\ job'[id].rev = job[id].rev /\ job'[id].result = job[id].result
            /\ job'[id].committing = job[id].committing
            /\ job[id].cancelled \/ id \in ids => job'[id].cancelled
  BY <1>0, <1>1, CancelledJobs
<1>5. \A id \in ids : id \in 1 .. Len(job) /\ ~job[id].committing
  BY <1>0, <1>1, WithdrawableJobs
<1>6. Taken' = Taken /\ Handed' = Handed /\ Seen' = Seen /\ Durable' = Durable
  BY <1>2, <1>4 DEF Taken, Handed, Seen, Durable
<1>7. Types'
  <2>1. revoked' \in SUBSET Nat
    <3>1. Len(job) \in Nat /\ revoked \in SUBSET Nat
      BY <1>0, Numbers DEF Types
    <3>2. \A id \in ids : id \in Nat
      BY <1>5, <3>1
    <3> QED BY <1>1, <3>1, <3>2
  <2>2. life' \in {"up", "stopping", "closed", "abort"}
    BY <1>3
  <2> QED BY <1>0, <1>2, <1>3, <1>4, <2>1, <2>2 DEF Types
<1>8. Line'
  BY <1>0, <1>2, <1>3, <1>6 DEF Line
<1>9. Phase'
  <2>1. pc # "ended"
    BY <1>0, <1>2 DEF Phase
  <2>2. life' \notin {"closed", "abort"}
    BY <1>3
  <2> QED BY <1>0, <1>2, <1>3, <2>1, <2>2 DEF Phase, Preparing
<1>10. \A i \in 1 .. Len(Durable) : Durable[i] \in 1 .. Taken /\ Durable[i] \in 1 .. Len(job)
  <2>1. Taken <= Len(job) /\ Taken \in Nat /\ Len(job) \in Nat
    BY <1>0, Numbers
  <2> QED BY <1>0, <2>1 DEF History
<1>11. History'
  <2>1. \A i \in 1 .. Len(Durable) : job'[Durable[i]].result = "OK" /\ job'[Durable[i]].committing
    BY <1>0, <1>4, <1>10 DEF History
  <2>2. \A k \in 1 .. Len(job) : Decided(k)' => Decided(k)
    BY <1>2, <1>6 DEF Decided
  <2>3. \A k \in 1 .. Len(job) : Decided(k)' /\ job'[k].result = "OK" => InLog(k)
    BY <1>0, <1>4, <2>2 DEF History
  <2> QED BY <1>0, <1>2, <1>4, <1>6, <1>10, <2>1, <2>3 DEF History, Ascending, InLog
<1>12. GoodJobs' = GoodJobs /\ \A i \in GoodJobs : job'[group[i]].committing = job[group[i]].committing
  <2>1. \A i \in 1 .. Len(group) : /\ job'[group[i]].result = job[group[i]].result
                                   /\ job'[group[i]].committing = job[group[i]].committing
    BY <1>0, <1>4, Members
  <2> QED BY <1>2, <2>1 DEF GoodJobs
<1>13. Private'
  <2>1. ASSUME pc \in Preparing, NEW id \in Handed + 1 .. Handed + at - 1
        PROVE  job'[id].result = job[id].result
    <3>1. at \in Nat /\ at <= Len(group) + 1
      BY <1>0, <2>1, Numbers DEF Types, Phase, Preparing
    <3>2. id \in 1 .. Len(job)
      <4>1. Taken = Handed + Len(group) /\ Taken <= Len(job) /\ Handed \in Nat /\ Len(group) \in Nat
            /\ Taken \in Nat /\ Len(job) \in Nat
        BY <1>0, Numbers
      <4> QED BY <3>1, <4>1
    <3> QED BY <1>4, <3>2
  <2>2. ASSUME pc \in Preparing, NEW i \in Len(Durable) + 1 .. Len(candidate.log)
        PROVE  candidate.log[i] \in Handed + 1 .. Handed + at - 1 /\ job'[candidate.log[i]].result = "OK"
    <3>1. candidate.log[i] \in Handed + 1 .. Handed + at - 1 /\ job[candidate.log[i]].result = "OK"
      BY <1>0, <2>2 DEF Private
    <3> QED BY <2>1, <2>2, <3>1
  <2> QED BY <1>0, <1>2, <1>6, <1>12, <2>1, <2>2 DEF Private, Ascending
<1>14. Withdrawals'
  <2>1. \A id \in revoked : id \in 1 .. Len(job) /\ ~job'[id].committing
                            /\ (job'[id].cancelled \/ job'[id].rev < authority)
    BY <1>0, <1>4 DEF Withdrawals
  <2>2. \A id \in ids : id \in 1 .. Len(job) /\ ~job'[id].committing /\ job'[id].cancelled
    BY <1>4, <1>5
  <2>3. \A id \in 1 .. Len(job) : job'[id].rev <= authority
    BY <1>0, <1>4 DEF Withdrawals
  <2> QED BY <1>1, <1>2, <1>4, <2>1, <2>2, <2>3 DEF Withdrawals
<1>15. Telling'
  BY <1>0, <1>2, <1>6 DEF Telling
<1> QED BY <1>7, <1>8, <1>9, <1>11, <1>13, <1>14, <1>15 DEF LedgerInvariant

LEMMA AuthorityKeeps ==
    ASSUME LedgerInvariant, Authority
    PROVE  LedgerInvariant'
<1>0. Types /\ Line /\ Phase /\ History /\ Private /\ Withdrawals /\ Telling
  BY DEF LedgerInvariant
<1>1. /\ authority <= MaxAuthority /\ authority' = authority + 1
      /\ revoked' = revoked \cup Withdrawable
      /\ UNCHANGED <<pc, pending, group, at, spins, candidate, outcome, durable, job, completed, detached,
                     admission, failed, stopping, life, polled>>
  BY DEF Authority, writer, flags
<1>2. authority \in Nat /\ MaxAuthority \in Nat
  BY <1>0, WriterAssumption DEF Types
<1>3. \A id \in Withdrawable : id \in 1 .. Len(job) /\ ~job[id].committing
  BY <1>0, WithdrawableJobs
<1>4. Taken' = Taken /\ Handed' = Handed /\ Seen' = Seen /\ Durable' = Durable
  BY <1>1 DEF Taken, Handed, Seen, Durable
<1>5. buffered' \in Seq([req : Asked, rev : Nat])
  <2>1. PICK carried :
           buffered' = [i \in DOMAIN buffered |->
                          IF i \in carried /\ buffered[i].rev = authority
                          THEN [buffered[i] EXCEPT !.rev = authority + 1] ELSE buffered[i]]
    BY DEF Authority
  <2>2. /\ DOMAIN buffered = 1 .. Len(buffered) /\ Len(buffered) \in Nat
        /\ \A i \in 1 .. Len(buffered) : buffered[i] \in [req : Asked, rev : Nat]
    <3>1. buffered \in Seq([req : Asked, rev : Nat])
      BY <1>0 DEF Types
    <3> QED BY <3>1, LenProperties, ElementOfSeq
  <2>3. \A i \in 1 .. Len(buffered) : buffered'[i] \in [req : Asked, rev : Nat]
    <3> TAKE i \in 1 .. Len(buffered)
    <3>1. [buffered[i] EXCEPT !.rev = authority + 1] \in [req : Asked, rev : Nat]
      <4>1. authority + 1 \in Nat
        BY <1>2
      <4> QED BY <2>2, <4>1
    <3> QED BY <2>1, <2>2, <3>1
  <2>4. buffered' \in [1 .. Len(buffered) -> [req : Asked, rev : Nat]]
    BY <2>1, <2>2, <2>3
  <2> QED BY <2>2, <2>4, FunctionSeq
<1>6. Types'
  <2>1. revoked' \in SUBSET Nat
    <3>1. Len(job) \in Nat /\ revoked \in SUBSET Nat
      BY <1>0, Numbers DEF Types
    <3>2. \A id \in Withdrawable : id \in Nat
      BY <1>3, <3>1
    <3> QED BY <1>1, <3>1, <3>2
  <2>2. authority' \in 1 .. MaxAuthority + 1
    BY <1>0, <1>1, <1>2 DEF Types
  <2> QED BY <1>0, <1>1, <1>5, <2>1, <2>2 DEF Types
<1>7. Line' /\ Phase'
  BY <1>0, <1>1, <1>4 DEF Line, Phase
<1>8. History'
  BY <1>0, <1>1, <1>4 DEF History, Ascending, InLog, Decided
<1>9. Private'
  BY <1>0, <1>1, <1>4 DEF Private, Ascending, GoodJobs
<1>10. Withdrawals'
  <2>1. \A id \in 1 .. Len(job) : job[id].rev < authority' /\ job[id].rev <= authority'
    <3> TAKE id \in 1 .. Len(job)
    <3>1. job[id].rev <= authority /\ job[id].rev \in Nat
      BY <1>0, Members DEF Withdrawals, JobRecords
    <3> QED BY <1>1, <1>2, <3>1
  <2> QED BY <1>0, <1>1, <1>3, <2>1 DEF Withdrawals
<1>11. Telling'
  BY <1>0, <1>1, <1>4 DEF Telling
<1> QED BY <1>6, <1>7, <1>8, <1>9, <1>10, <1>11 DEF LedgerInvariant

\* A success that is polled is the next of the ledger to be told; anything else is not in it.
LEMMA Polled ==
    ASSUME LedgerInvariant, Poll
    PROVE  /\ Head(completed) = Seen + 1 /\ Len(completed) > 0 /\ Seen + 1 \in 1 .. Len(job)
           /\ job[Seen + 1].result = "OK" =>
                 Len(polled.told) < Len(Durable) /\ Durable[Len(polled.told) + 1] = Seen + 1
           /\ job[Seen + 1].result # "OK" => \A i \in 1 .. Len(Durable) : Durable[i] # Seen + 1
<1>0. Types /\ Line /\ Phase /\ History /\ Telling
  BY DEF LedgerInvariant
<1>1. completed # <<>> /\ life = "up"
  BY DEF Poll
<1>2. Len(completed) > 0 /\ Head(completed) = Seen + 1 /\ Len(completed) \in Nat
  <2>1. completed \in Seq(Nat)
    BY <1>0 DEF Types
  <2>2. Len(completed) \in Nat \ {0}
    BY <1>1, <2>1, EmptySeq
  <2>3. Head(completed) = completed[1]
    BY <2>1, <2>2
  <2>4. completed[1] = Seen + 1
    BY <1>0, <2>2 DEF Line
  <2> QED BY <2>2, <2>3, <2>4
<1>3. Seen + 1 \in 1 .. Len(job) /\ Seen + 1 <= Handed /\ Seen \in Nat
  <2>1. /\ Seen \in Nat /\ Handed \in Nat /\ Taken \in Nat /\ Len(job) \in Nat
        /\ Handed <= Taken /\ Taken <= Len(job) /\ Handed = Seen + Len(completed)
    BY <1>0, Numbers
  <2> QED BY <1>2, <2>1
<1>4. Len(Durable) \in Nat /\ \A i \in 1 .. Len(Durable) : Durable[i] \in Nat
  BY <1>0, Numbers, Members
<1>5. Len(polled.told) \in Nat /\ Len(polled.told) <= Len(Durable)
  <2>1. polled.told \in Seq(Nat)
    BY <1>0 DEF Types
  <2> QED BY <1>0, <2>1, LenProperties DEF Telling
<1>6. \A i \in 1 .. Len(Durable) : i <= Len(polled.told) <=> Durable[i] <= Seen
  BY <1>0, <1>1 DEF Telling
<1>7. CASE job[Seen + 1].result = "OK"
  <2>1. PICK k \in 1 .. Len(Durable) : Durable[k] = Seen + 1
    BY <1>0, <1>3, <1>7 DEF History, Decided, InLog
  <2>2. ~(k <= Len(polled.told))
    <3>1. ~(Durable[k] <= Seen)
      BY <1>3, <2>1
    <3> QED BY <1>6, <3>1
  <2>3. PICK m : m = Len(polled.told) + 1
    OBVIOUS
  <2>4. m \in 1 .. Len(Durable) /\ m <= k /\ ~(m <= Len(polled.told))
    BY <1>4, <1>5, <2>1, <2>2, <2>3
  <2>5. ~(Durable[m] <= Seen) /\ Durable[m] \in Nat
    BY <1>4, <1>6, <2>4
  <2>6. m < k => Durable[m] < Durable[k]
    BY <1>0, <2>1, <2>4 DEF History, Ascending
  <2>7. m = k
    <3>1. ~(m < k)
      BY <1>3, <2>1, <2>5, <2>6
    <3> QED BY <1>4, <1>5, <2>1, <2>4, <3>1
  <2> QED BY <1>2, <1>3, <1>4, <1>5, <1>7, <2>1, <2>3, <2>4, <2>7
<1>8. CASE job[Seen + 1].result # "OK"
  BY <1>0, <1>2, <1>3, <1>8 DEF History
<1> QED BY <1>7, <1>8

LEMMA PollKeeps ==
    ASSUME LedgerInvariant, Poll
    PROVE  LedgerInvariant'
<1>0. Types /\ Line /\ Phase /\ History /\ Private /\ Withdrawals /\ Telling
  BY DEF LedgerInvariant
<1>1. /\ life = "up" /\ detached' = Head(completed) /\ completed' = Tail(completed)
      /\ completed # <<>> /\ polled' = Reported(Head(completed))
      /\ UNCHANGED <<pc, pending, group, at, spins, candidate, outcome, durable, job, buffered, authority,
                     admission, failed, stopping, life, revoked>>
  BY DEF Poll, writer, flags, room
<1>2. PICK id : id = Seen + 1
  OBVIOUS
<1>3. /\ Head(completed) = id /\ Len(completed) > 0 /\ id \in 1 .. Len(job) /\ id \in Nat
      /\ job[id].result = "OK" => Len(polled.told) < Len(Durable) /\ Durable[Len(polled.told) + 1] = id
      /\ job[id].result # "OK" => \A i \in 1 .. Len(Durable) : Durable[i] # id
  BY <1>2, Polled
<1>4. /\ completed' \in Seq(Nat) /\ Len(completed') = Len(completed) - 1
      /\ \A i \in 1 .. Len(completed') : completed'[i] = completed[i + 1]
  <2>1. completed \in Seq(Nat)
    BY <1>0 DEF Types
  <2> QED BY <1>1, <2>1, HeadTailProperties
<1>5. Taken' = Taken /\ Handed' = Handed /\ Seen' = id /\ Durable' = Durable
  <2>1. Taken' = Taken /\ Handed' = Handed /\ Durable' = Durable
    BY <1>1 DEF Taken, Handed, Durable
  <2>2. Len(completed) \in Nat /\ Handed \in Nat
    BY <1>0, Numbers
  <2> QED BY <1>2, <1>4, <2>1, <2>2 DEF Seen
<1>6. Seen \in Nat /\ Len(completed) \in Nat /\ Len(Durable) \in Nat
  BY <1>0, Numbers
<1>7. /\ polled.told \in Seq(Nat) /\ polled.refused \in SUBSET Nat /\ Len(polled.told) \in Nat
      /\ polled \in [told : Seq(Nat), refused : SUBSET Nat]
  <2>1. polled.told \in Seq(Nat) /\ polled.refused \in SUBSET Nat
    BY <1>0 DEF Types
  <2> QED BY <1>0, <2>1, LenProperties DEF Types
<1>8. ASSUME job[id].result = "OK"
      PROVE  polled' \in [told : Seq(Nat), refused : SUBSET Nat] /\ Telling'
  <2>1. polled' = [polled EXCEPT !.told = Append(@, id)]
    BY <1>1, <1>3, <1>8 DEF Reported
  <2>2. polled'.told = Append(polled.told, id) /\ polled'.refused = polled.refused
    BY <1>7, <2>1
  <2>3. /\ Append(polled.told, id) \in Seq(Nat)
        /\ Len(polled'.told) = Len(polled.told) + 1
        /\ \A i \in 1 .. Len(polled.told) : polled'.told[i] = polled.told[i]
        /\ polled'.told[Len(polled.told) + 1] = id
    BY <1>3, <1>7, <2>2
  <2>4. polled' \in [told : Seq(Nat), refused : SUBSET Nat]
    BY <1>7, <2>1, <2>3
  <2>5. Telling'
    <3>1. \A k \in polled'.refused : k \in 1 .. id
      <4>1. \A k \in polled.refused : k \in 1 .. Seen
        BY <1>0 DEF Telling
      <4> QED BY <1>2, <1>6, <2>2, <4>1
    <3>2. Len(polled'.told) <= Len(Durable)
      BY <1>3, <1>6, <1>7, <1>8, <2>3
    <3>3. \A i \in 1 .. Len(polled'.told) : polled'.told[i] = Durable[i]
      <4> TAKE i \in 1 .. Len(polled'.told)
      <4>1. CASE i \in 1 .. Len(polled.told)
        BY <1>0, <2>3, <4>1 DEF Telling
      <4>2. CASE i = Len(polled.told) + 1
        BY <1>3, <1>8, <2>3, <4>2
      <4> QED BY <1>7, <2>3, <4>1, <4>2
    <3>4. ASSUME NEW i \in 1 .. Len(Durable)
          PROVE  i <= Len(polled.told) + 1 <=> Durable[i] <= id
      <4>1. i <= Len(polled.told) <=> Durable[i] <= Seen
        BY <1>0, <1>1 DEF Telling
      <4>2. Durable[i] \in Nat /\ Durable[Len(polled.told) + 1] = id
            /\ Len(polled.told) + 1 \in 1 .. Len(Durable)
        BY <1>0, <1>3, <1>6, <1>7, <1>8, Members
      <4>3. Len(polled.told) + 1 < i => id < Durable[i]
        BY <1>0, <4>2 DEF History, Ascending
      <4>4. CASE i <= Len(polled.told)
        BY <1>2, <1>6, <1>7, <4>1, <4>2, <4>4
      <4>5. CASE i = Len(polled.told) + 1
        BY <1>3, <1>7, <4>2, <4>5
      <4>6. CASE Len(polled.told) + 1 < i
        BY <1>3, <1>7, <4>2, <4>3, <4>6
      <4> QED BY <1>7, <4>4, <4>5, <4>6
    <3> QED BY <1>5, <2>3, <3>1, <3>2, <3>3, <3>4 DEF Telling
  <2> QED BY <2>4, <2>5
<1>9. ASSUME job[id].result # "OK"
      PROVE  polled' \in [told : Seq(Nat), refused : SUBSET Nat] /\ Telling'
  <2>1. polled' = [polled EXCEPT !.refused = @ \cup {id}]
    BY <1>1, <1>3, <1>9 DEF Reported
  <2>2. polled'.told = polled.told /\ polled'.refused = polled.refused \cup {id}
    BY <1>7, <2>1
  <2>3. polled' \in [told : Seq(Nat), refused : SUBSET Nat]
    BY <1>3, <1>7, <2>1
  <2>4. Telling'
    <3>1. \A k \in polled'.refused : k \in 1 .. id
      <4>1. \A k \in polled.refused : k \in 1 .. Seen
        BY <1>0 DEF Telling
      <4> QED BY <1>2, <1>6, <2>2, <4>1
    <3>2. ASSUME NEW i \in 1 .. Len(Durable)
          PROVE  i <= Len(polled.told) <=> Durable[i] <= id
      <4>1. i <= Len(polled.told) <=> Durable[i] <= Seen
        BY <1>0, <1>1 DEF Telling
      <4>2. Durable[i] \in Nat /\ Durable[i] # id
        BY <1>0, <1>3, <1>9, Members
      <4> QED BY <1>2, <1>6, <4>1, <4>2
    <3> QED BY <1>0, <1>1, <1>5, <2>2, <3>1, <3>2 DEF Telling
  <2> QED BY <2>3, <2>4
<1>10. Types'
  BY <1>0, <1>1, <1>3, <1>4, <1>8, <1>9 DEF Types
<1>11. Line'
  <2>1. ASSUME NEW i \in 1 .. Len(completed') PROVE completed'[i] = id + i
    <3>1. i + 1 \in 1 .. Len(completed)
      BY <1>4, <1>6
    <3>2. completed[i + 1] = Seen + (i + 1)
      BY <1>0, <3>1 DEF Line
    <3> QED BY <1>2, <1>4, <1>6, <3>2
  <2> QED BY <1>0, <1>1, <1>3, <1>5, <2>1 DEF Line
<1>12. Phase'
  BY <1>0, <1>1 DEF Phase
<1>13. History'
  BY <1>0, <1>1, <1>5 DEF History, Ascending, InLog, Decided
<1>14. Private'
  BY <1>0, <1>1, <1>5 DEF Private, Ascending, GoodJobs
<1>15. Withdrawals'
  BY <1>0, <1>1 DEF Withdrawals
<1> QED BY <1>8, <1>9, <1>10, <1>11, <1>12, <1>13, <1>14, <1>15 DEF LedgerInvariant

LEMMA CloseKeeps ==
    ASSUME LedgerInvariant, Close
    PROVE  LedgerInvariant'
<1>0. Types /\ Line /\ Phase /\ History /\ Private /\ Withdrawals /\ Telling
  BY DEF LedgerInvariant
<1>1. /\ life = "stopping" /\ pc = "ended" /\ life' \in {"closed", "abort"}
      /\ completed' = <<>> /\ buffered' = <<>>
      /\ UNCHANGED <<pc, pending, group, at, spins, candidate, outcome, durable, job, detached, authority,
                     admission, failed, stopping, revoked, polled>>
  BY DEF Close, writer
<1>2. /\ completed' \in Seq(Nat) /\ Len(completed') = 0
      /\ buffered' \in Seq([req : Asked, rev : Nat])
  BY <1>1, EmptySeq
<1>3. Taken' = Taken /\ Handed' = Handed /\ Seen' = Handed /\ Durable' = Durable
  <2>1. Taken' = Taken /\ Handed' = Handed /\ Durable' = Durable
    BY <1>1 DEF Taken, Handed, Durable
  <2>2. Handed \in Nat
    BY <1>0, Numbers
  <2> QED BY <1>2, <2>1, <2>2 DEF Seen
<1>4. Types'
  BY <1>0, <1>1, <1>2 DEF Types
<1>5. Line'
  <2>1. detached = NoJob /\ Handed \in Nat
    BY <1>0, <1>1, Numbers DEF Line
  <2> QED BY <1>0, <1>1, <1>2, <1>3, <2>1 DEF Line
<1>6. Phase'
  <2>1. stopping
    BY <1>0, <1>1 DEF Phase
  <2> QED BY <1>0, <1>1, <2>1 DEF Phase
<1>7. History'
  BY <1>0, <1>1, <1>3 DEF History, Ascending, InLog, Decided
<1>8. Private'
  BY <1>1 DEF Private, Preparing
<1>9. Withdrawals'
  BY <1>0, <1>1 DEF Withdrawals
<1>10. Telling'
  <2>1. \A id \in polled.refused : id \in 1 .. Handed
    <3>1. Seen \in Nat /\ Handed \in Nat /\ Seen <= Handed
      BY <1>0, Numbers
    <3> QED BY <1>0, <3>1 DEF Telling
  <2> QED BY <1>0, <1>1, <1>3, <2>1 DEF Telling
<1> QED BY <1>4, <1>5, <1>6, <1>7, <1>8, <1>9, <1>10 DEF LedgerInvariant

LEMMA LedgerStep == LedgerInvariant /\ [Next]_vars => LedgerInvariant'
<1> SUFFICES ASSUME LedgerInvariant, [Next]_vars PROVE LedgerInvariant'
  OBVIOUS
<1>1. CASE Works
  BY <1>1, TakeKeeps, EndKeeps, CheckKeeps, ContinueKeeps, PrepareKeeps, BarrierKeeps, CommitKeeps,
     InstallKeeps, CompleteKeeps DEF Works
<1>2. CASE Breaks
  BY <1>2, PrepareFailsKeeps, BarrierFailsKeeps, CommitFailsKeeps, CompleteKeeps DEF Breaks
<1>3. CASE Main
  BY <1>3, ReserveKeeps, SubmitKeeps, CancelKeeps, AuthorityKeeps, PinKeeps, PollKeeps, JobFreeKeeps,
     CloseKeeps DEF Main
<1>4. CASE UNCHANGED vars
  <2>1. UNCHANGED <<pc, pending, group, at, spins, candidate, outcome, durable, job, completed,
                    authority, stopping, life, revoked, polled, detached, buffered, admission, failed>>
    BY <1>4 DEF vars, writer, flags, room
  <2>2. admission' \in BOOLEAN /\ failed' \in BOOLEAN /\ buffered' \in Seq([req : Asked, rev : Nat])
    BY <2>1 DEF LedgerInvariant, Types
  <2> QED BY <2>1, <2>2, Aside
<1> QED BY <1>1, <1>2, <1>3, <1>4 DEF Next

\* In every state of the writer: jobs pass through its queues in the order they were
\* submitted in, the durable log holds exactly the successes of the groups that went
\* through the journal, in that order, no job withdrawn before the barrier is past it, and
\* the main thread has been told exactly the part of the log it has polled.
THEOREM LedgerInvariantHolds == Spec => []LedgerInvariant
<1> QED BY InitLedger, LedgerStep, PTL DEF Spec

-----------------------------------------------------------------------------
(* The ledger of UdbLedger is kept: every step of the writer and of the main   *)
(* thread is one of its steps, or leaves it alone.                             *)

LEMMA LedgerCommit ==
    ASSUME LedgerInvariant, Commit
    PROVE  Ledger!Commit
<1>0. Types /\ Line /\ History /\ Withdrawals /\ Telling
  BY DEF LedgerInvariant
<1>1. Durable' = candidate.log /\ UNCHANGED <<revoked, polled>>
  BY Committed DEF Commit
<1>2. /\ Len(Durable) < Len(candidate.log)
      /\ \A i \in 1 .. Len(Durable) : candidate.log[i] = Durable[i]
      /\ Ascending(candidate.log)
      /\ \A i \in Len(Durable) + 1 .. Len(candidate.log) :
            /\ candidate.log[i] \in Handed + 1 .. Taken
            /\ job[candidate.log[i]].committing
  BY Committed
<1>3. /\ Len(Durable) \in Nat /\ Len(candidate.log) \in Nat
      /\ Durable \in Seq(Nat) /\ candidate.log \in Seq(Nat)
      /\ \A i \in 1 .. Len(candidate.log) : candidate.log[i] \in Nat
      /\ Handed \in Nat /\ Seen \in Nat /\ Seen <= Handed
  BY <1>0, Numbers, Members
<1>4. SubSeq(candidate.log, 1, Len(Durable)) = Durable
  <2>1. \A i \in 1 .. Len(Durable) : candidate.log[i] \in Nat
    BY <1>2, <1>3
  <2>2. /\ SubSeq(candidate.log, 1, Len(Durable)) \in Seq(Nat)
        /\ Len(SubSeq(candidate.log, 1, Len(Durable))) = Len(Durable)
        /\ \A i \in 1 .. Len(Durable) : SubSeq(candidate.log, 1, Len(Durable))[i] = candidate.log[i]
    <3>1. /\ SubSeq(candidate.log, 1, Len(Durable)) \in Seq(Nat)
          /\ Len(SubSeq(candidate.log, 1, Len(Durable)))
                = IF 1 <= Len(Durable) THEN Len(Durable) - 1 + 1 ELSE 0
          /\ \A i \in 1 .. Len(Durable) - 1 + 1 :
                SubSeq(candidate.log, 1, Len(Durable))[i] = candidate.log[1 + i - 1]
      BY <1>3, <2>1, SubSeqProperties
    <3>2. \A i \in 1 .. Len(Durable) : i \in 1 .. Len(Durable) - 1 + 1 /\ 1 + i - 1 = i
      BY <1>3
    <3>3. (IF 1 <= Len(Durable) THEN Len(Durable) - 1 + 1 ELSE 0) = Len(Durable)
      BY <1>3
    <3> QED BY <3>1, <3>2, <3>3
  <2> QED BY <1>2, <1>3, <2>2, SeqEqual
<1>5. ASSUME NEW i \in Len(Durable) + 1 .. Len(candidate.log)
      PROVE  /\ candidate.log[i] \notin revoked \cup polled.refused
             /\ \A j \in 1 .. i - 1 : candidate.log[j] # candidate.log[i]
  <2>1. candidate.log[i] \notin revoked
    BY <1>0, <1>2 DEF Withdrawals
  <2>2. candidate.log[i] \notin polled.refused
    <3>1. candidate.log[i] \in Handed + 1 .. Taken
      BY <1>2
    <3>2. \A id \in polled.refused : id \in 1 .. Seen
      BY <1>0 DEF Telling
    <3> QED BY <1>3, <3>1, <3>2
  <2>3. ASSUME NEW j \in 1 .. i - 1 PROVE candidate.log[j] # candidate.log[i]
    <3>1. j \in 1 .. Len(candidate.log) /\ i \in 1 .. Len(candidate.log) /\ j < i
      BY <1>3, <2>3
    <3>2. candidate.log[j] < candidate.log[i] /\ candidate.log[j] \in Nat /\ candidate.log[i] \in Nat
      BY <1>2, <1>3, <3>1 DEF Ascending
    <3> QED BY <3>2
  <2> QED BY <2>1, <2>2, <2>3
<1> QED BY <1>1, <1>2, <1>4, <1>5 DEF Ledger!Commit

LEMMA LedgerRevoke ==
    ASSUME LedgerInvariant, Cancel \/ Authority \/ Shutdown
    PROVE  Ledger!Revoke
<1>0. Types /\ Line /\ History
  BY DEF LedgerInvariant
<1>1. UNCHANGED <<Durable, polled>>
  BY DEF Cancel, Authority, Shutdown, writer, Durable
<1>2. PICK ids \in SUBSET Withdrawable : revoked' = revoked \cup ids
  <2>1. CASE Cancel
    <3>1. PICK id \in Withdrawable : revoked' = revoked \cup {id}
      BY <2>1 DEF Cancel
    <3>2. {id} \in SUBSET Withdrawable
      BY <3>1
    <3> QED BY <3>1, <3>2
  <2>2. CASE Authority \/ Shutdown
    BY <2>2 DEF Authority, Shutdown
  <2> QED BY <2>1, <2>2
<1>3. \A id \in ids : ~job[id].committing
  BY <1>0, <1>2, WithdrawableJobs
<1>4. \A i \in 1 .. Len(Durable) : Durable[i] \notin ids
  BY <1>0, <1>3 DEF History
<1> QED BY <1>1, <1>2, <1>4 DEF Ledger!Revoke, Ledger!Among

LEMMA LedgerReport ==
    ASSUME LedgerInvariant, Poll
    PROVE  Ledger!Tell \/ Ledger!Refuse
<1>1. UNCHANGED <<Durable, revoked>> /\ polled' = Reported(Head(completed))
  BY DEF Poll, writer, Durable
<1>2. PICK id : id = Seen + 1
  OBVIOUS
<1>3. /\ Head(completed) = id
      /\ job[id].result = "OK" => Len(polled.told) < Len(Durable) /\ Durable[Len(polled.told) + 1] = id
      /\ job[id].result # "OK" => \A i \in 1 .. Len(Durable) : Durable[i] # id
  BY <1>2, Polled
<1>4. polled \in [told : Seq(Nat), refused : SUBSET Nat]
  BY DEF LedgerInvariant, Types
<1>5. CASE job[id].result = "OK"
  <2>1. polled' = [polled EXCEPT !.told = Append(@, id)]
    BY <1>1, <1>3, <1>5 DEF Reported
  <2>2. polled'.told = Append(polled.told, id) /\ polled'.refused = polled.refused
    BY <1>4, <2>1
  <2> QED BY <1>1, <1>3, <1>5, <2>2 DEF Ledger!Tell
<1>6. CASE job[id].result # "OK"
  <2>1. polled' = [polled EXCEPT !.refused = @ \cup {id}]
    BY <1>1, <1>3, <1>6 DEF Reported
  <2>2. polled'.told = polled.told /\ polled'.refused = polled.refused \cup {id}
    BY <1>4, <2>1
  <2>3. id \notin Ledger!Among(Durable) /\ id \in polled'.refused
    BY <1>3, <1>6, <2>2 DEF Ledger!Among
  <2> QED BY <1>1, <2>2, <2>3 DEF Ledger!Refuse
<1> QED BY <1>5, <1>6

LEMMA LedgerInit == Init => Ledger!Init
<1> SUFFICES ASSUME Init PROVE Ledger!Init
  OBVIOUS
<1>1. Durable = <<>>
  BY EmptyRootType DEF Init, Durable
<1> QED BY <1>1 DEF Init, Ledger!Init

LEMMA LedgerNext == LedgerInvariant /\ [Next]_vars => [Ledger!Next]_(Ledger!vars)
<1> SUFFICES ASSUME LedgerInvariant, [Next]_vars PROVE [Ledger!Next]_(Ledger!vars)
  OBVIOUS
<1>1. CASE Commit
  BY <1>1, LedgerCommit DEF Ledger!Next
<1>2. CASE Cancel \/ Authority \/ Shutdown
  BY <1>2, LedgerRevoke DEF Ledger!Next
<1>3. CASE Poll
  BY <1>3, LedgerReport DEF Ledger!Next
<1>4. CASE UNCHANGED <<durable, revoked, polled>>
  BY <1>4 DEF Ledger!vars, Durable
<1>5. CASE Works
  <2>1. Commit \/ UNCHANGED <<durable, revoked, polled>>
    BY <1>5 DEF Works, Take, End, Check, Continue, Prepare, Barrier, Install, Complete, writer
  <2> QED BY <1>1, <1>4, <2>1
<1>6. CASE Breaks
  <2>1. UNCHANGED <<durable, revoked, polled>>
    BY <1>6 DEF Breaks, PrepareFails, BarrierFails, CommitFails, CompleteFails
  <2> QED BY <1>4, <2>1
<1>7. CASE Main
  <2>1. Cancel \/ Authority \/ Shutdown \/ Poll \/ UNCHANGED <<durable, revoked, polled>>
    BY <1>7 DEF Main, Reserve, SubmitDelivery, DropDelivery, Pin, Release, JobFree, Close, writer
  <2> QED BY <1>2, <1>3, <1>4, <2>1
<1>8. CASE UNCHANGED vars
  <2>1. UNCHANGED <<durable, revoked, polled>>
    BY <1>8 DEF vars, writer
  <2> QED BY <1>4, <2>1
<1> QED BY <1>5, <1>6, <1>7, <1>8 DEF Next

\* The writer implements its ledger: the log grows only at a commit, by a whole group, of
\* which no job was withdrawn or already reported as refused; a withdrawal never touches a
\* durable job; and successes are told in the order of the log, with none skipped.
THEOREM WriterImplementsLedger == Spec => ImplementsLedger
<1>1. LedgerInvariant /\ [Next]_vars => [Ledger!Next]_(Ledger!vars)
  BY LedgerNext
<1> QED BY <1>1, LedgerInit, LedgerInvariantHolds, PTL DEF Spec, ImplementsLedger, Ledger!Spec

-----------------------------------------------------------------------------
(* The receipts tile the ledger.                                              *)

LEMMA LogMembers ==
    ASSUME LedgerInvariant
    PROVE  /\ \A i \in 1 .. Len(Durable) : Durable[i] \in 1 .. Len(job)
           /\ pc \in Preparing => \A i \in 1 .. Len(candidate.log) :
                 candidate.log[i] \in 1 .. Len(job) /\ candidate.log[i] <= Handed + at - 1
<1>0. Types /\ Line /\ Phase /\ History /\ Private
  BY DEF LedgerInvariant
<1>1. /\ Len(job) \in Nat /\ Len(group) \in Nat /\ Taken \in Nat /\ Handed \in Nat /\ at \in Nat
      /\ Taken = Handed + Len(group) /\ Taken <= Len(job)
      /\ Len(Durable) \in Nat /\ Len(candidate.log) \in Nat
  BY <1>0, Numbers DEF Types
<1>2. \A i \in 1 .. Len(Durable) : Durable[i] \in 1 .. Len(job)
  BY <1>0, <1>1 DEF History
<1>3. ASSUME pc \in Preparing, NEW i \in 1 .. Len(candidate.log)
      PROVE  candidate.log[i] \in 1 .. Len(job) /\ candidate.log[i] <= Handed + at - 1
  <2>1. 1 <= at /\ at <= Len(group) + 1
    BY <1>0, <1>1, <1>3 DEF Phase, Preparing
  <2>2. CASE i \in 1 .. Len(Durable)
    <3>1. candidate.log[i] = Durable[i] /\ Durable[i] <= Handed
      BY <1>0, <1>3, <2>2 DEF Private, History, Preparing
    <3> QED BY <1>1, <1>2, <2>1, <2>2, <3>1
  <2>3. CASE i \in Len(Durable) + 1 .. Len(candidate.log)
    <3>1. candidate.log[i] \in Handed + 1 .. Handed + at - 1
      BY <1>0, <1>3, <2>3 DEF Private
    <3> QED BY <1>1, <2>1, <3>1
  <2> QED BY <1>1, <2>2, <2>3
<1> QED BY <1>2, <1>3

\* A job keeps its receipts, and may at most stop being a success.
Keeps(j, k) == /\ k.before = j.before /\ k.after = j.after /\ k.req = j.req
               /\ k.result = "OK" => j.result = "OK"

LEMMA TilesKept ==
    ASSUME LedgerInvariant, Tiles, durable' = durable, Len(job') \in Nat,
           pc' \in Preparing => pc \in Preparing /\ candidate' = candidate,
           \A id \in 1 .. Len(job) : Keeps(job[id], job'[id]),
           \A id \in 1 .. Len(job') : id \notin 1 .. Len(job) => job'[id].result # "OK"
    PROVE  Tiles'
<1>1. Chain(Durable, durable)'
  <2>1. Durable' = Durable /\ Chain(Durable, durable)
    BY DEF Durable, Tiles
  <2>2. \A i \in 1 .. Len(Durable) : /\ job'[Durable[i]].before = job[Durable[i]].before
                                     /\ job'[Durable[i]].after = job[Durable[i]].after
    BY LogMembers DEF Keeps
  <2>3. Len(Durable) \in Nat
    BY Numbers DEF LedgerInvariant
  <2>4. /\ \A i \in 1 .. Len(Durable) : i # 1 => i - 1 \in 1 .. Len(Durable)
        /\ Len(Durable) # 0 => Len(Durable) \in 1 .. Len(Durable)
    BY <2>3
  <2> QED BY <2>1, <2>2, <2>3, <2>4 DEF Chain
<1>2. ASSUME pc' \in Preparing PROVE Chain(candidate.log, candidate)'
  <2>1. candidate' = candidate /\ Chain(candidate.log, candidate)
    BY <1>2 DEF Tiles
  <2>2. \A i \in 1 .. Len(candidate.log) :
           /\ job'[candidate.log[i]].before = job[candidate.log[i]].before
           /\ job'[candidate.log[i]].after = job[candidate.log[i]].after
    BY <1>2, LogMembers DEF Keeps
  <2>3. Len(candidate.log) \in Nat
    BY Numbers DEF LedgerInvariant
  <2>4. /\ \A i \in 1 .. Len(candidate.log) : i # 1 => i - 1 \in 1 .. Len(candidate.log)
        /\ Len(candidate.log) # 0 => Len(candidate.log) \in 1 .. Len(candidate.log)
    BY <2>3
  <2> QED BY <2>1, <2>2, <2>3, <2>4 DEF Chain
<1>3. ASSUME NEW id \in 1 .. Len(job'), job'[id].result = "OK" PROVE Numbered(job'[id])
  <2>1. id \in 1 .. Len(job) /\ Keeps(job[id], job'[id])
    BY <1>3
  <2>2. Numbered(job[id])
    BY <1>3, <2>1 DEF Tiles, Keeps
  <2> QED BY <2>1, <2>2 DEF Numbered, Keeps
<1> QED BY <1>1, <1>2, <1>3 DEF Tiles

LEMMA ResultOnly ==
    ASSUME Types, Line, NEW i \in 1 .. Len(group), NEW result, result # "OK",
           job' = [job EXCEPT ![group[i]].result = result]
    PROVE  Len(job') = Len(job) /\ \A id \in 1 .. Len(job) : Keeps(job[id], job'[id])
<1>1. DOMAIN job = 1 .. Len(job) /\ \A id \in 1 .. Len(job) : job[id] \in JobRecords
  BY Members
<1>2. group[i] \in 1 .. Len(job)
  BY Members
<1>3. ASSUME NEW id \in 1 .. Len(job) PROVE Keeps(job[id], job'[id])
  <2>1. CASE id = group[i]
    <3>1. job'[id] = [job[id] EXCEPT !.result = result]
      BY <1>1, <2>1
    <3>2. job[id] \in JobRecords
      BY <1>1
    <3> QED BY <3>1, <3>2 DEF Keeps, JobRecords
  <2>2. CASE id # group[i]
    <3>1. job'[id] = job[id]
      BY <1>1, <2>2
    <3> QED BY <3>1 DEF Keeps
  <2> QED BY <2>1, <2>2
<1>4. Len(job') = Len(job)
  <2>1. job \in Seq(JobRecords)
    BY DEF Types
  <2>2. PICK j : j = [job[group[i]] EXCEPT !.result = result]
    OBVIOUS
  <2>3. job' = [job EXCEPT ![group[i]] = j]
    BY <2>2
  <2>4. DOMAIN job' = 1 .. Len(job)
    BY <1>1, <2>3
  <2>5. job \in Seq(JobRecords \cup {j})
    BY <2>1, SeqMonotonic
  <2> QED BY <1>2, <2>3, <2>5, ExceptSeq
<1> QED BY <1>3, <1>4

LEMMA TilesTake ==
    ASSUME LedgerInvariant, Tiles, Take
    PROVE  Tiles'
<1>1. candidate' = durable /\ UNCHANGED <<durable, job>>
  BY DEF Take
<1>2. Durable' = Durable /\ candidate'.log = Durable
  BY <1>1 DEF Durable
<1> QED BY <1>1, <1>2 DEF Tiles, Chain

LEMMA TilesCommit ==
    ASSUME LedgerInvariant, Tiles, Commit
    PROVE  Tiles'
<1>1. /\ pc \in Preparing /\ pc' \notin Preparing /\ durable' = candidate /\ UNCHANGED job
      /\ Durable' = candidate.log
  BY DEF Commit, Preparing, Durable
<1> QED BY <1>1 DEF Tiles, Chain

LEMMA TilesInstall ==
    ASSUME LedgerInvariant, Tiles, Install
    PROVE  Tiles'
<1>0. Types /\ Line /\ History
  BY DEF LedgerInvariant
<1>1. /\ pc = "install" /\ pc' \notin Preparing /\ durable' = durable /\ Durable' = Durable
      /\ UNCHANGED outcome
  BY DEF Install, Preparing, writer, Durable
<1>2. Len(job') = Len(job) /\ \A id \in 1 .. Len(job) :
         /\ outcome = "OK" => job'[id] = job[id]
         /\ id \notin {group[i] : i \in GoodJobs} => job'[id] = job[id]
         /\ outcome # "OK" /\ id \in {group[i] : i \in GoodJobs} => job'[id].result = outcome
  BY Installed
<1>3. ASSUME NEW i \in 1 .. Len(Durable) PROVE job'[Durable[i]] = job[Durable[i]]
  <2>1. Durable[i] \in 1 .. Len(job)
    BY LogMembers
  <2>2. CASE outcome = "OK"
    BY <1>2, <2>1, <2>2
  <2>3. CASE outcome # "OK"
    <3>1. Durable[i] <= Handed /\ Handed \in Nat /\ Len(group) \in Nat /\ Durable[i] \in Nat
      BY <1>0, <1>1, <2>3, Numbers, Members DEF History
    <3>2. \A k \in GoodJobs : k \in 1 .. Len(group) /\ group[k] = Handed + k
      BY <1>0 DEF GoodJobs, Line
    <3>3. Durable[i] \notin {group[k] : k \in GoodJobs}
      BY <3>1, <3>2
    <3> QED BY <1>2, <2>1, <3>3
  <2> QED BY <2>2, <2>3
<1>4. Chain(Durable, durable)'
  <2>1. \A i \in 1 .. Len(Durable) : i # 1 => i - 1 \in 1 .. Len(Durable)
    BY <1>0, Numbers
  <2>2. Len(Durable) # 0 => Len(Durable) \in 1 .. Len(Durable)
    BY <1>0, Numbers
  <2> QED BY <1>1, <1>3, <2>1, <2>2 DEF Tiles, Chain
<1>5. ASSUME NEW id \in 1 .. Len(job), job'[id].result = "OK" PROVE Numbered(job'[id])
  <2>1. job'[id] = job[id]
    BY <1>2, <1>5
  <2> QED BY <1>5, <2>1 DEF Tiles
<1> QED BY <1>1, <1>2, <1>4, <1>5 DEF Tiles

LEMMA TilesPrepare ==
    ASSUME LedgerInvariant, Tiles, Prepare
    PROVE  Tiles'
<1>0. Types /\ Line /\ Phase /\ History /\ Private
  BY DEF LedgerInvariant
<1>1. pc = "prepare" /\ pc' = "check" /\ UNCHANGED <<durable, group>> /\ Durable' = Durable
  BY DEF Prepare, Durable
<1>2. at \in 1 .. Len(group) /\ pc \in Preparing
  <2>1. at <= Len(group) /\ at \in 1 .. Len(group) + 1 /\ Len(group) \in Nat
    BY <1>0, <1>1, Numbers DEF Phase
  <2> QED BY <1>1, <2>1 DEF Preparing
<1>3. PICK id : id = group[at]
  OBVIOUS
<1>4. id \in Nat /\ id \in 1 .. Len(job) /\ id = Handed + at /\ job[id] \in JobRecords
      /\ job[id].req \in Asked
  <2>1. id \in 1 .. Len(job) /\ id = Handed + at
    BY <1>0, <1>2, <1>3, Members
  <2> QED BY <1>0, <2>1, Members, Numbers DEF JobRecords
<1>5. candidate \in Roots /\ candidate.log \in Seq(Nat) /\ Len(candidate.log) \in Nat
  BY <1>0, Numbers, Members DEF Types
<1>6. PICK a \in Outcomes(job[id].req, candidate, own, id) :
         IF a.result = "OK"
         THEN /\ candidate' = [a.root EXCEPT !.log = Append(candidate.log, id)]
              /\ job' = [job EXCEPT ![id].result = "OK", ![id].before = candidate,
                                    ![id].after = candidate']
         ELSE job' = [job EXCEPT ![id].result = a.result] /\ UNCHANGED candidate
  BY <1>3 DEF Prepare, StartRoot
<1>7. /\ a.result \in {"OK", "REJECTED", "STAGED"} /\ a.root \in Roots
      /\ a.result = "OK" /\ job[id].req.kind # "BIND" =>
            /\ job[id].req.src = candidate.src /\ a.root.seq = candidate.seq + 1
            /\ job[id].req.kind # "EXPIRE" => job[id].req.seq = a.root.seq
  BY <1>4, <1>5, <1>6, MutationType
<1>8. CASE a.result # "OK"
  <2>1. job' = [job EXCEPT ![group[at]].result = a.result] /\ candidate' = candidate
    BY <1>3, <1>6, <1>8
  <2>2. Len(job') = Len(job) /\ \A k \in 1 .. Len(job) : Keeps(job[k], job'[k])
    BY <1>0, <1>2, <1>8, <2>1, ResultOnly
  <2>3. Len(job') \in Nat
    BY <1>0, <2>2, Numbers
  <2> QED BY <1>1, <1>2, <2>1, <2>2, <2>3, TilesKept
<1>9. CASE a.result = "OK"
  <2> DEFINE n == Len(candidate.log)
  <2>1. /\ candidate' = [a.root EXCEPT !.log = Append(candidate.log, id)]
        /\ job' = [job EXCEPT ![id].result = "OK", ![id].before = candidate, ![id].after = candidate']
    BY <1>6, <1>9
  <2>2. /\ candidate' \in Roots /\ candidate'.log = Append(candidate.log, id)
        /\ candidate'.seq = a.root.seq
    <3>1. PICK w : w = candidate.log
      OBVIOUS
    <3>2. PICK root : root = a.root
      OBVIOUS
    <3>3. /\ [root EXCEPT !.log = Append(w, id)] \in Roots
          /\ [root EXCEPT !.log = Append(w, id)].log = Append(w, id)
          /\ [root EXCEPT !.log = Append(w, id)].seq = root.seq
      BY <1>4, <1>5, <1>7, <3>1, <3>2, LoggedRoot
    <3>4. candidate' = [root EXCEPT !.log = Append(w, id)]
      BY <2>1, <3>1, <3>2
    <3> QED BY <3>1, <3>2, <3>3, <3>4
  <2>3. PICK j : j = [job[id] EXCEPT !.result = "OK", !.before = candidate, !.after = candidate']
    OBVIOUS
  <2>4. j \in JobRecords /\ j.before = candidate /\ j.after = candidate' /\ j.req = job[id].req
    BY <1>4, <1>5, <2>2, <2>3 DEF JobRecords, Results
  <2>5. /\ job' \in Seq(JobRecords) /\ Len(job') = Len(job)
        /\ job'[id] = j /\ \A k \in 1 .. Len(job) : k # id => job'[k] = job[k]
    <3>1. job \in Seq(JobRecords)
      BY <1>0 DEF Types
    <3>2. job' = [job EXCEPT ![id] = j]
      BY <2>1, <2>3
    <3> QED BY <1>4, <2>4, <3>1, <3>2, OneJob
  <2>6. /\ \A i \in 1 .. Len(Durable) : Durable[i] \in 1 .. Len(job) /\ Durable[i] # id
        /\ \A i \in 1 .. n : candidate.log[i] \in 1 .. Len(job) /\ candidate.log[i] # id
    <3>1. Handed \in Nat /\ at \in Nat \ {0} /\ Len(job) \in Nat
      BY <1>0, <1>2, Numbers DEF Types
    <3>2. \A i \in 1 .. Len(Durable) : Durable[i] \in 1 .. Len(job) /\ Durable[i] <= Handed
      BY <1>0, <1>1, LogMembers DEF History
    <3>3. \A i \in 1 .. n : candidate.log[i] \in 1 .. Len(job) /\ candidate.log[i] <= Handed + at - 1
      BY <1>2, LogMembers
    <3> QED BY <1>4, <3>1, <3>2, <3>3
  <2>7. Chain(Durable, durable)'
    <3>1. \A i \in 1 .. Len(Durable) : job'[Durable[i]] = job[Durable[i]]
      BY <2>5, <2>6
    <3>2. \A i \in 1 .. Len(Durable) : i # 1 => i - 1 \in 1 .. Len(Durable)
      BY <1>0, Numbers
    <3>3. Len(Durable) # 0 => Len(Durable) \in 1 .. Len(Durable)
      BY <1>0, Numbers
    <3>4. Chain(Durable, durable)
      BY DEF Tiles
    <3> QED BY <1>1, <3>1, <3>2, <3>3, <3>4 DEF Chain
  <2>8. Chain(candidate.log, candidate)'
    <3>1. /\ Len(candidate'.log) = n + 1 /\ candidate'.log[n + 1] = id
          /\ \A i \in 1 .. n : candidate'.log[i] = candidate.log[i]
      BY <1>4, <1>5, <2>2
    <3>2. Chain(candidate.log, candidate)
      BY <1>2 DEF Tiles
    <3>3. \A i \in 1 .. n : job'[candidate'.log[i]] = job[candidate.log[i]]
      BY <2>5, <2>6, <3>1
    <3>4. ASSUME NEW i \in 1 .. n + 1
          PROVE  job'[candidate'.log[i]].before
                    = IF i = 1 THEN EmptyRoot ELSE job'[candidate'.log[i - 1]].after
      <4>1. CASE i \in 1 .. n
        <5>1. i # 1 => i - 1 \in 1 .. n
          BY <1>5, <4>1
        <5>2. job[candidate.log[i]].before
                 = IF i = 1 THEN EmptyRoot ELSE job[candidate.log[i - 1]].after
          BY <3>2, <4>1 DEF Chain
        <5> QED BY <3>3, <4>1, <5>1, <5>2
      <4>2. CASE i = n + 1
        <5>1. job'[candidate'.log[i]].before = candidate
          BY <2>4, <2>5, <3>1, <4>2
        <5>2. candidate = IF n = 0 THEN EmptyRoot ELSE job[candidate.log[n]].after
          BY <3>2 DEF Chain
        <5>3. (i = 1 <=> n = 0) /\ i - 1 = n /\ (n # 0 => n \in 1 .. n)
          BY <1>5, <4>2
        <5> QED BY <3>3, <5>1, <5>2, <5>3
      <4> QED BY <1>5, <4>1, <4>2
    <3>5. candidate' = job'[candidate'.log[n + 1]].after /\ n + 1 # 0
      BY <1>5, <2>4, <2>5, <3>1
    <3> QED BY <3>1, <3>4, <3>5 DEF Chain
  <2>9. ASSUME NEW k \in 1 .. Len(job'), job'[k].result = "OK" PROVE Numbered(job'[k])
    <3>1. CASE k = id
      BY <1>7, <1>9, <2>2, <2>4, <2>5, <3>1 DEF Numbered
    <3>2. CASE k # id
      BY <2>5, <2>9, <3>2 DEF Tiles
    <3> QED BY <3>1, <3>2
  <2> QED BY <2>7, <2>8, <2>9 DEF Tiles
<1> QED BY <1>8, <1>9

LEMMA TilesBarrier ==
    ASSUME LedgerInvariant, Tiles, Barrier
    PROVE  Tiles'
<1>0. Types /\ Line
  BY DEF LedgerInvariant
<1>1. durable' = durable /\ candidate' = candidate /\ pc \in Preparing
  BY DEF Barrier, Preparing
<1>2. DOMAIN job = 1 .. Len(job) /\ (\A id \in 1 .. Len(job) : job[id] \in JobRecords)
      /\ Len(job) \in Nat
  BY <1>0, Members, Numbers
<1>3. CASE UNCHANGED job
  <2>1. \A id \in 1 .. Len(job) : Keeps(job[id], job'[id])
    BY <1>3 DEF Keeps
  <2> QED BY <1>1, <1>2, <1>3, <2>1, TilesKept
<1>4. CASE job' = [id \in DOMAIN job |->
                      [job[id] EXCEPT !.committing = @ \/ \E i \in GoodJobs : group[i] = id]]
  <2>1. ASSUME NEW id \in 1 .. Len(job)
        PROVE  Keeps(job[id], job'[id]) /\ job'[id] \in JobRecords
    <3>1. PICK c \in BOOLEAN : c <=> (job[id].committing \/ \E i \in GoodJobs : group[i] = id)
      OBVIOUS
    <3>2. job[id] \in JobRecords /\ job[id].committing \in BOOLEAN
      BY <1>2 DEF JobRecords
    <3>3. job'[id] = [job[id] EXCEPT !.committing = c]
      BY <1>2, <1>4, <3>1, <3>2
    <3> QED BY <3>1, <3>2, <3>3 DEF Keeps, JobRecords
  <2>2. Len(job') = Len(job)
    <3>1. job' \in [DOMAIN job -> JobRecords] /\ job \in Seq(JobRecords)
      BY <1>0, <1>2, <1>4, <2>1 DEF Types
    <3> QED BY <3>1, SameJobs
  <2> QED BY <1>1, <1>2, <2>1, <2>2, TilesKept
<1> QED BY <1>3, <1>4 DEF Barrier

LEMMA TilesWorks ==
    ASSUME LedgerInvariant, Tiles, Works \/ Breaks
    PROVE  Tiles'
<1>0. Types /\ Line /\ Phase
  BY DEF LedgerInvariant
<1>1. Len(job) \in Nat /\ at \in Nat /\ Len(group) \in Nat
  BY <1>0, Numbers DEF Types
<1>2. ASSUME UNCHANGED <<job, durable>>,
             pc' \in Preparing => pc \in Preparing /\ candidate' = candidate
      PROVE  Tiles'
  <2>1. \A id \in 1 .. Len(job) : Keeps(job[id], job'[id])
    BY <1>2 DEF Keeps
  <2> QED BY <1>1, <1>2, <2>1, TilesKept
<1>3. ASSUME NEW result, result # "OK", pc \in Preparing, at \in 1 .. Len(group),
             job' = [job EXCEPT ![group[at]].result = result], UNCHANGED <<candidate, durable>>
      PROVE  Tiles'
  <2>1. Len(job') = Len(job) /\ \A id \in 1 .. Len(job) : Keeps(job[id], job'[id])
    BY <1>0, <1>3, ResultOnly
  <2> QED BY <1>1, <1>3, <2>1, TilesKept
<1>4. CASE Check
  <2>1. pc \in Preparing /\ UNCHANGED <<candidate, durable>> /\ at \in 1 .. Len(group)
    BY <1>0, <1>1, <1>4 DEF Check, Preparing, Phase
  <2>2. CASE UNCHANGED job
    BY <1>2, <2>1, <2>2
  <2>3. CASE job' = [job EXCEPT ![group[at]].result = "BUSY"]
    BY <1>3, <2>1, <2>3
  <2> QED BY <1>4, <2>2, <2>3 DEF Check
<1>5. CASE PrepareFails
  <2>1. pc \in Preparing /\ UNCHANGED <<candidate, durable>> /\ at \in 1 .. Len(group)
    <3>1. pc = "prepare" /\ UNCHANGED <<candidate, durable>>
      BY <1>5 DEF PrepareFails
    <3>2. at \in 1 .. Len(group) + 1 /\ at <= Len(group)
      BY <1>0, <3>1 DEF Phase
    <3> QED BY <1>1, <3>1, <3>2 DEF Preparing
  <2>2. PICK result \in {"LIMIT", "ERROR"} : job' = [job EXCEPT ![group[at]].result = result]
    BY <1>5 DEF PrepareFails
  <2> QED BY <1>3, <2>1, <2>2
<1>6. CASE Continue \/ BarrierFails \/ CommitFails \/ Complete \/ CompleteFails \/ End
  <2>1. UNCHANGED <<job, durable>> /\ (pc' \in Preparing => pc \in Preparing /\ candidate' = candidate)
    BY <1>6 DEF Continue, BarrierFails, CommitFails, Complete, CompleteFails, End, writer, Preparing
  <2> QED BY <1>2, <2>1
<1> QED BY <1>4, <1>5, <1>6, TilesTake, TilesPrepare, TilesBarrier, TilesCommit, TilesInstall
        DEF Works, Breaks

LEMMA TilesMain ==
    ASSUME LedgerInvariant, Tiles, Main
    PROVE  Tiles'
<1>0. Types /\ Line
  BY DEF LedgerInvariant
<1>1. UNCHANGED <<pc, candidate, durable>>
  BY DEF Main, Reserve, SubmitDelivery, DropDelivery, Cancel, Authority, Pin, Release, Poll, JobFree,
         Shutdown, Close, writer
<1>2. Len(job) \in Nat
  BY <1>0, Numbers
<1>3. CASE SubmitDelivery
  <2>1. /\ Len(job') = Len(job) + 1 /\ \A id \in 1 .. Len(job) : job'[id] = job[id]
        /\ job'[Len(job) + 1].result = "none"
    BY <1>3, Submitted
  <2>2. \A id \in 1 .. Len(job) : Keeps(job[id], job'[id])
    BY <2>1 DEF Keeps
  <2>3. \A id \in 1 .. Len(job') : id \notin 1 .. Len(job) => id = Len(job) + 1
    BY <1>2, <2>1
  <2>4. Len(job') \in Nat
    BY <1>2, <2>1
  <2> QED BY <1>1, <2>1, <2>2, <2>3, <2>4, TilesKept
<1>4. CASE Cancel \/ Shutdown
  <2>1. PICK ids : job' = Cancelled(ids)
    BY <1>4 DEF Cancel, Shutdown
  <2>2. Len(job') = Len(job) /\ \A id \in 1 .. Len(job) : Keeps(job[id], job'[id])
    <3>1. /\ Len(job') = Len(job)
          /\ \A id \in 1 .. Len(job) :
                /\ job'[id].req = job[id].req /\ job'[id].result = job[id].result
                /\ job'[id].before = job[id].before /\ job'[id].after = job[id].after
      BY <1>0, <2>1, CancelledJobs
    <3> QED BY <3>1 DEF Keeps
  <2> QED BY <1>1, <1>2, <2>2, TilesKept
<1>5. CASE UNCHANGED job
  <2>1. \A id \in 1 .. Len(job) : Keeps(job[id], job'[id])
    BY <1>5 DEF Keeps
  <2> QED BY <1>1, <1>2, <1>5, <2>1, TilesKept
<1>6. SubmitDelivery \/ Cancel \/ Shutdown \/ UNCHANGED job
  BY DEF Main, Reserve, DropDelivery, Authority, Pin, Release, Poll, JobFree, Close
<1> QED BY <1>3, <1>4, <1>5, <1>6

LEMMA TilesStep == LedgerInvariant /\ Tiles /\ [Next]_vars => Tiles'
<1> SUFFICES ASSUME LedgerInvariant, Tiles, [Next]_vars PROVE Tiles'
  OBVIOUS
<1>1. CASE UNCHANGED vars
  <2>1. UNCHANGED <<pc, candidate, durable, job>>
    BY <1>1 DEF vars, writer
  <2>2. \A id \in 1 .. Len(job) : Keeps(job[id], job'[id])
    BY <2>1 DEF Keeps
  <2>3. Len(job') \in Nat
    BY <2>1, Numbers DEF LedgerInvariant
  <2> QED BY <2>1, <2>2, <2>3, TilesKept
<1> QED BY <1>1, TilesWorks, TilesMain DEF Next

LEMMA TilesInit == Init => Tiles
<1> SUFFICES ASSUME Init PROVE Tiles
  OBVIOUS
<1>1. Durable = <<>> /\ durable = EmptyRoot /\ Len(Durable) = 0 /\ Len(job) = 0 /\ pc \notin Preparing
  BY EmptyRootType, EmptySeq DEF Init, Durable, Preparing
<1> QED BY <1>1 DEF Tiles, Chain

LEMMA TilesEntail == LedgerInvariant /\ Tiles => ReceiptsTile
<1> SUFFICES ASSUME LedgerInvariant, Tiles, NEW i \in 1 .. Len(Durable)
             PROVE  LET j == job[Durable[i]]
                    IN  /\ j.before = (IF i = 1 THEN EmptyRoot ELSE job[Durable[i - 1]].after)
                        /\ i = Len(Durable) => j.after = durable
                        /\ j.req.kind \in Mutations \ {"BIND"} =>
                              /\ j.req.src = j.before.src /\ j.after.seq = j.before.seq + 1
                              /\ j.req.kind # "EXPIRE" => j.req.seq = j.after.seq
  BY DEF ReceiptsTile
<1>1. Chain(Durable, durable) /\ Len(Durable) \in Nat
  BY Numbers DEF Tiles, LedgerInvariant
<1>2. Numbered(job[Durable[i]])
  <2>1. Durable[i] \in 1 .. Len(job) /\ job[Durable[i]].result = "OK"
    BY LogMembers DEF LedgerInvariant, History
  <2> QED BY <2>1 DEF Tiles
<1> QED BY <1>1, <1>2 DEF Chain, Numbered

\* The receipts of the durable jobs tile the history of the store, whatever the groups
\* were, whichever jobs were refused in between and whichever groups failed to commit.
THEOREM ReceiptsAlwaysTile == Spec => []ReceiptsTile
<1> QED BY InitLedger, LedgerStep, TilesInit, TilesStep, TilesEntail, PTL DEF Spec
=============================================================================
