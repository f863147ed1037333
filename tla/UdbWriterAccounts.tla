-------------------------- MODULE UdbWriterAccounts --------------------------
(* Proofs about UdbWriter, on top of the order of jobs (UdbWriterProofs): the two  *)
(* accounts balance.  The room of the queue is what the deliveries and the jobs    *)
(* hold of it, and the references of a generation are its holders, so that a       *)
(* shutdown finds nothing left over.                                               *)
EXTENDS UdbWriterProofs

-----------------------------------------------------------------------------
(* The room of the queue.                                                     *)

Room ==
    /\ QueueExact
    /\ envelopes \subseteq 1 .. Len(job)

LEMMA Envelopes ==
    ASSUME Types, Line, envelopes \subseteq 1 .. Len(job)
    PROVE  IsFiniteSet(envelopes) /\ Cardinality(envelopes) \in Nat
<1>1. IsFiniteSet(1 .. Len(job))
  BY Numbers, FS_Interval
<1> QED BY <1>1, FS_Subset, FS_CardinalityType

LEMMA RoomNumbers ==
    ASSUME Types, Line, Room
    PROVE  /\ Len(buffered) \in Nat /\ Cardinality(envelopes) \in Nat
           /\ Len(pending) \in Nat /\ Len(group) \in Nat /\ Len(completed) \in Nat
           /\ queue \in Nat /\ delivery \in Nat
<1>1. Len(buffered) \in Nat
  BY LenProperties DEF Types
<1>2. Cardinality(envelopes) \in Nat
  BY Envelopes DEF Room
<1>3. Len(pending) \in Nat /\ Len(group) \in Nat /\ Len(completed) \in Nat
  BY Numbers
<1>4. delivery \in Nat
  BY <1>1, <1>2 DEF Room, QueueExact
<1>5. queue \in Nat
  <2>1. PICK d \in {0, 1} : d = IF detached = NoJob THEN 0 ELSE 1
    OBVIOUS
  <2> QED BY <1>3, <1>4, <2>1 DEF Room, QueueExact
<1> QED BY <1>1, <1>2, <1>3, <1>4, <1>5

LEMMA Twice ==
    ASSUME NEW n \in Nat
    PROVE  2 * n \in Nat /\ 2 * (n + 1) = 2 * n + 2 /\ 2 * (n - 1) = 2 * n - 2
OBVIOUS

LEMMA RoomInit == Init => Room
<1> SUFFICES ASSUME Init PROVE Room
  OBVIOUS
<1>1. Len(<<>>) = 0 /\ Cardinality({}) = 0
  BY EmptySeq, FS_EmptySet
<1>2. /\ Len(pending) = 0 /\ Len(group) = 0 /\ Len(completed) = 0 /\ Len(buffered) = 0
      /\ Cardinality(envelopes) = 0 /\ queue = 0 /\ delivery = 0 /\ detached = NoJob
  BY <1>1 DEF Init
<1>3. 0 <= QueueLimit
  BY WriterAssumption
<1> QED BY <1>2, <1>3 DEF Init, Room, QueueExact

\* Steps that move no job and no delivery.
LEMMA RoomAside ==
    ASSUME Types, Line, Room, Len(job') = Len(job),
           Len(pending') + Len(group') + Len(completed') = Len(pending) + Len(group) + Len(completed),
           Len(pending') \in Nat, Len(group') \in Nat, Len(completed') \in Nat,
           Len(buffered') = Len(buffered), UNCHANGED <<envelopes, queue, delivery, detached>>
    PROVE  Room'
<1>1. PICK d \in {0, 1} : d = IF detached = NoJob THEN 0 ELSE 1
  OBVIOUS
<1>2. queue = delivery + Len(pending) + Len(group) + Len(completed) + d
  BY <1>1 DEF Room, QueueExact
<1>3. queue' = delivery' + Len(pending') + Len(group') + Len(completed') + d
  <2>1. /\ Len(pending) \in Nat /\ Len(group) \in Nat /\ Len(completed) \in Nat
        /\ queue \in Nat /\ delivery \in Nat
    BY RoomNumbers
  <2> QED BY <1>2, <2>1
<1>4. d = IF detached' = NoJob THEN 0 ELSE 1
  BY <1>1
<1> QED BY <1>3, <1>4 DEF Room, QueueExact

LEMMA RoomTake ==
    ASSUME LedgerInvariant, Room, Take
    PROVE  Room'
<1>0. Types /\ Line /\ Phase
  BY DEF LedgerInvariant
<1>1. pc = "wait" /\ UNCHANGED <<job, completed, detached, buffered, envelopes, queue, delivery>>
  BY DEF Take, room
<1>2. PICK n \in 1 .. Len(pending) : Len(group') = n /\ Len(pending') = Len(pending) - n
  BY GroupTaken
<1>3. Len(group) = 0
  BY <1>0, <1>1, EmptySeq DEF Phase
<1>4. Len(pending) \in Nat /\ Len(completed) \in Nat
  BY <1>0, Numbers
<1>5. /\ Len(pending') + Len(group') + Len(completed') = Len(pending) + Len(group) + Len(completed)
      /\ Len(pending') \in Nat /\ Len(group') \in Nat /\ Len(completed') \in Nat
  BY <1>1, <1>2, <1>3, <1>4
<1> QED BY <1>0, <1>1, <1>5, RoomAside

LEMMA RoomComplete ==
    ASSUME LedgerInvariant, Room, Complete \/ CompleteFails
    PROVE  Room'
<1>0. Types /\ Line
  BY DEF LedgerInvariant
<1>1. /\ completed' = completed \o group /\ group' = <<>>
      /\ UNCHANGED <<pending, job, detached, buffered, envelopes, queue, delivery>>
  BY DEF Complete, CompleteFails, room
<1>2. Len(completed') = Len(completed) + Len(group) /\ Len(group') = 0
  <2>1. completed \in Seq(Nat) /\ group \in Seq(Nat)
    BY <1>0 DEF Types
  <2> QED BY <1>1, <2>1, ConcatProperties, EmptySeq
<1>3. Len(pending) \in Nat /\ Len(group) \in Nat /\ Len(completed) \in Nat
  BY <1>0, Numbers
<1>4. /\ Len(pending') + Len(group') + Len(completed') = Len(pending) + Len(group) + Len(completed)
      /\ Len(pending') \in Nat /\ Len(group') \in Nat /\ Len(completed') \in Nat
  BY <1>1, <1>2, <1>3
<1> QED BY <1>0, <1>1, <1>4, RoomAside

LEMMA RoomReserve ==
    ASSUME LedgerInvariant, Room, Reserve
    PROVE  Room'
<1>0. Types /\ Line
  BY DEF LedgerInvariant
<1>1. /\ queue + 2 <= QueueLimit /\ queue' = queue + 2 /\ delivery' = delivery + 2
      /\ UNCHANGED <<pending, group, completed, job, detached, envelopes>>
  BY DEF Reserve, writer
<1>2. Len(buffered') = Len(buffered) + 1
  <2>1. PICK r \in Asked : buffered' = Append(buffered, [req |-> r, rev |-> authority])
    BY DEF Reserve, Asked
  <2>2. PICK x : x = [req |-> r, rev |-> authority]
    OBVIOUS
  <2>3. buffered \in Seq([req : Asked, rev : Nat]) /\ x \in [req : Asked, rev : Nat]
    BY <1>0, <2>2, WriterAssumption DEF Types
  <2> QED BY <2>1, <2>2, <2>3, AppendProperties
<1>3. PICK d \in {0, 1} : d = IF detached = NoJob THEN 0 ELSE 1
  OBVIOUS
<1>4. /\ queue = delivery + Len(pending) + Len(group) + Len(completed) + d
      /\ delivery = 2 * Len(buffered) + Cardinality(envelopes)
      /\ envelopes \subseteq 1 .. Len(job)
  BY <1>3 DEF Room, QueueExact
<1>5. /\ queue' = delivery' + Len(pending) + Len(group) + Len(completed) + d /\ queue' <= QueueLimit
      /\ delivery' = 2 * Len(buffered') + Cardinality(envelopes)
  <2>1. /\ Cardinality(envelopes) \in Nat
        /\ Len(pending) \in Nat /\ Len(group) \in Nat /\ Len(completed) \in Nat
        /\ queue \in Nat /\ delivery \in Nat /\ QueueLimit \in Nat
    BY <1>0, RoomNumbers, WriterAssumption
  <2>2. PICK e \in Nat : /\ e = 2 * Len(buffered)
                         /\ 2 * (Len(buffered) + 1) = e + 2 /\ 2 * (Len(buffered) - 1) = e - 2
    BY <1>0, RoomNumbers, Twice
  <2>3. PICK f : f = 2 * Len(buffered')
    OBVIOUS
  <2>4. f = e + 2
    BY <1>2, <2>2, <2>3
  <2>5. delivery = e + Cardinality(envelopes)
    BY <1>4, <2>2
  <2>6. queue = delivery + Len(pending) + Len(group) + Len(completed) + d
    BY <1>4
  <2>7. delivery' = f + Cardinality(envelopes)
    BY <1>1, <2>1, <2>4, <2>5
  <2>8. queue' = delivery' + Len(pending) + Len(group) + Len(completed) + d /\ queue' <= QueueLimit
    BY <1>1, <2>1, <2>6
  <2> QED BY <2>3, <2>7, <2>8
<1> QED BY <1>1, <1>3, <1>4, <1>5 DEF Room, QueueExact

LEMMA RoomDrop ==
    ASSUME LedgerInvariant, Room, DropDelivery
    PROVE  Room'
<1>0. Types /\ Line
  BY DEF LedgerInvariant
<1>1. /\ queue' = queue - 2 /\ delivery' = delivery - 2
      /\ UNCHANGED <<pending, group, completed, job, detached, envelopes>>
  BY DEF DropDelivery, writer
<1>2. Len(buffered') = Len(buffered) - 1
  BY <1>0, Shorter DEF DropDelivery, Types
<1>3. PICK d \in {0, 1} : d = IF detached = NoJob THEN 0 ELSE 1
  OBVIOUS
<1>4. /\ queue = delivery + Len(pending) + Len(group) + Len(completed) + d /\ queue <= QueueLimit
      /\ delivery = 2 * Len(buffered) + Cardinality(envelopes)
      /\ envelopes \subseteq 1 .. Len(job)
  BY <1>3 DEF Room, QueueExact
<1>5. /\ queue' = delivery' + Len(pending) + Len(group) + Len(completed) + d /\ queue' <= QueueLimit
      /\ delivery' = 2 * Len(buffered') + Cardinality(envelopes)
  <2>1. /\ Cardinality(envelopes) \in Nat
        /\ Len(pending) \in Nat /\ Len(group) \in Nat /\ Len(completed) \in Nat
        /\ queue \in Nat /\ delivery \in Nat /\ QueueLimit \in Nat
    BY <1>0, RoomNumbers, WriterAssumption
  <2>2. PICK e \in Nat : /\ e = 2 * Len(buffered)
                         /\ 2 * (Len(buffered) + 1) = e + 2 /\ 2 * (Len(buffered) - 1) = e - 2
    BY <1>0, RoomNumbers, Twice
  <2>3. PICK f : f = 2 * Len(buffered')
    OBVIOUS
  <2>4. f = e - 2
    BY <1>2, <2>2, <2>3
  <2>5. delivery = e + Cardinality(envelopes)
    BY <1>4, <2>2
  <2>6. queue = delivery + Len(pending) + Len(group) + Len(completed) + d
    BY <1>4
  <2>7. delivery' = f + Cardinality(envelopes)
    BY <1>1, <2>1, <2>4, <2>5
  <2>9. queue <= QueueLimit
    BY <1>4
  <2>8. queue' = delivery' + Len(pending) + Len(group) + Len(completed) + d /\ queue' <= QueueLimit
    BY <1>1, <2>9, <2>1, <2>6
  <2> QED BY <2>3, <2>7, <2>8
<1> QED BY <1>1, <1>3, <1>4, <1>5 DEF Room, QueueExact

LEMMA RoomSubmit ==
    ASSUME LedgerInvariant, Room, SubmitDelivery
    PROVE  Room'
<1>0. Types /\ Line
  BY DEF LedgerInvariant
<1>1. /\ delivery' = delivery - 1
      /\ UNCHANGED <<queue, group, completed, detached>>
  BY DEF SubmitDelivery, Transfer, writer
<1>2. Len(buffered') = Len(buffered) - 1
  BY <1>0, Shorter DEF SubmitDelivery, Types
<1>3. Len(job') = Len(job) + 1 /\ pending' = Append(pending, Len(job) + 1) /\ Len(job) \in Nat
  BY <1>0, Submitted, Numbers
<1>4. Len(pending') = Len(pending) + 1
  BY <1>0, <1>3 DEF Types
<1>5. envelopes' = envelopes \cup {Len(job) + 1}
  <2>1. DOMAIN job = 1 .. Len(job) /\ Cardinality(1 .. Len(job)) = Len(job)
    <3>1. DOMAIN job = 1 .. Len(job)
      BY <1>0, Members
    <3>2. PICK n \in Nat : n = Len(job)
      BY <1>3
    <3>3. Cardinality(1 .. n) = n
      BY FS_Interval
    <3> QED BY <3>1, <3>2, <3>3
  <2> QED BY <2>1 DEF SubmitDelivery
<1>6. PICK d \in {0, 1} : d = IF detached = NoJob THEN 0 ELSE 1
  OBVIOUS
<1>7. /\ queue = delivery + Len(pending) + Len(group) + Len(completed) + d /\ queue <= QueueLimit
      /\ delivery = 2 * Len(buffered) + Cardinality(envelopes)
      /\ envelopes \subseteq 1 .. Len(job)
  BY <1>6 DEF Room, QueueExact
<1>8. Cardinality(envelopes') = Cardinality(envelopes) + 1
  <2>1. Len(job) + 1 \notin envelopes
    BY <1>3, <1>7
  <2>2. IsFiniteSet(envelopes)
    BY <1>0, <1>7, Envelopes
  <2> QED BY <1>5, <2>1, <2>2, FS_AddElement
<1>9. /\ queue' = delivery' + Len(pending') + Len(group) + Len(completed) + d /\ queue' <= QueueLimit
      /\ delivery' = 2 * Len(buffered') + Cardinality(envelopes')
  <2>1. /\ Cardinality(envelopes) \in Nat
        /\ Len(pending) \in Nat /\ Len(group) \in Nat /\ Len(completed) \in Nat
        /\ queue \in Nat /\ delivery \in Nat
    BY <1>0, RoomNumbers
  <2>2. PICK e \in Nat : /\ e = 2 * Len(buffered)
                         /\ 2 * (Len(buffered) + 1) = e + 2 /\ 2 * (Len(buffered) - 1) = e - 2
    BY <1>0, RoomNumbers, Twice
  <2>3. PICK f : f = 2 * Len(buffered')
    OBVIOUS
  <2>4. f = e - 2
    BY <1>2, <2>2, <2>3
  <2>5. delivery = e + Cardinality(envelopes)
    BY <1>7, <2>2
  <2>6. queue = delivery + Len(pending) + Len(group) + Len(completed) + d /\ queue <= QueueLimit
    BY <1>7
  <2>7. delivery' = f + Cardinality(envelopes')
    BY <1>1, <1>8, <2>1, <2>4, <2>5
  <2>8. queue' = delivery' + Len(pending') + Len(group) + Len(completed) + d /\ queue' <= QueueLimit
    BY <1>1, <1>4, <2>1, <2>6
  <2> QED BY <2>3, <2>7, <2>8
<1>10. envelopes' \subseteq 1 .. Len(job')
  <2>1. 1 .. Len(job) \subseteq 1 .. Len(job') /\ Len(job) + 1 \in 1 .. Len(job')
    BY <1>3
  <2>2. envelopes \subseteq 1 .. Len(job)
    BY <1>7
  <2> QED BY <1>5, <2>1, <2>2
<1> QED BY <1>1, <1>6, <1>9, <1>10 DEF Room, QueueExact

LEMMA RoomPoll ==
    ASSUME LedgerInvariant, Room, Poll
    PROVE  Room'
<1>0. Types /\ Line
  BY DEF LedgerInvariant
<1>1. /\ detached = NoJob /\ completed # <<>>
      /\ detached' = Head(completed) /\ completed' = Tail(completed)
      /\ UNCHANGED <<pending, group, job, buffered, envelopes, queue, delivery>>
  BY DEF Poll, writer, room
<1>2. Len(completed') = Len(completed) - 1
  <2>1. completed \in Seq(Nat)
    BY <1>0 DEF Types
  <2> QED BY <1>1, <2>1, HeadTailProperties
<1>3. detached' # NoJob
  <2>1. Seen \in Nat /\ detached' = Seen + 1
    BY <1>0, <1>1, Numbers, Polled
  <2> QED BY <2>1 DEF NoJob
<1>4. /\ queue = delivery + Len(pending) + Len(group) + Len(completed) + 0 /\ queue <= QueueLimit
      /\ delivery = 2 * Len(buffered) + Cardinality(envelopes)
      /\ envelopes \subseteq 1 .. Len(job)
  BY <1>1 DEF Room, QueueExact
<1>5. queue' = delivery' + Len(pending') + Len(group') + Len(completed') + 1
  <2>1. /\ Len(pending) \in Nat /\ Len(group) \in Nat /\ Len(completed) \in Nat
        /\ queue \in Nat /\ delivery \in Nat
    BY <1>0, RoomNumbers
  <2> QED BY <1>1, <1>2, <1>4, <2>1
<1> QED BY <1>1, <1>3, <1>4, <1>5 DEF Room, QueueExact

LEMMA RoomFree ==
    ASSUME LedgerInvariant, Room, JobFree
    PROVE  Room'
<1>0. Types /\ Line
  BY DEF LedgerInvariant
<1>1. PICK h \in {0, 1} :
         /\ h = IF detached \in envelopes THEN 1 ELSE 0
         /\ queue' = queue - 1 - h /\ delivery' = delivery - h
  BY DEF JobFree
<1>2. /\ detached # NoJob /\ detached' = NoJob /\ envelopes' = envelopes \ {detached}
      /\ UNCHANGED <<pending, group, completed, job, buffered>>
  BY DEF JobFree, writer
<1>3. /\ queue = delivery + Len(pending) + Len(group) + Len(completed) + 1 /\ queue <= QueueLimit
      /\ delivery = 2 * Len(buffered) + Cardinality(envelopes)
      /\ envelopes \subseteq 1 .. Len(job)
  BY <1>2 DEF Room, QueueExact
<1>4. Cardinality(envelopes') = Cardinality(envelopes) - h
  <2>1. IsFiniteSet(envelopes) /\ Cardinality(envelopes) \in Nat
    BY <1>0, <1>3, Envelopes
  <2>2. Cardinality(envelopes') = IF detached \in envelopes THEN Cardinality(envelopes) - 1
                                                            ELSE Cardinality(envelopes)
    BY <1>2, <2>1, FS_RemoveElement
  <2> QED BY <1>1, <2>1, <2>2
<1>5. /\ queue' = delivery' + Len(pending) + Len(group) + Len(completed) + 0 /\ queue' <= QueueLimit
      /\ delivery' = 2 * Len(buffered) + Cardinality(envelopes')
  <2>1. /\ Cardinality(envelopes) \in Nat
        /\ Len(pending) \in Nat /\ Len(group) \in Nat /\ Len(completed) \in Nat
        /\ queue \in Nat /\ delivery \in Nat /\ QueueLimit \in Nat
    BY <1>0, RoomNumbers, WriterAssumption
  <2>2. PICK e \in Nat : e = 2 * Len(buffered)
    BY <1>0, RoomNumbers, Twice
  <2>3. delivery = e + Cardinality(envelopes)
    BY <1>3, <2>2
  <2>4. queue = delivery + Len(pending) + Len(group) + Len(completed) + 1 /\ queue <= QueueLimit
    BY <1>3
  <2>5. delivery' = e + Cardinality(envelopes')
    BY <1>1, <1>4, <2>1, <2>3
  <2>6. queue' = delivery' + Len(pending) + Len(group) + Len(completed) + 0 /\ queue' <= QueueLimit
    BY <1>1, <2>1, <2>4
  <2> QED BY <2>2, <2>5, <2>6
<1>6. envelopes' \subseteq 1 .. Len(job')
  BY <1>2, <1>3
<1> QED BY <1>2, <1>5, <1>6 DEF Room, QueueExact

\* A shutdown gives all the room back.
LEMMA RoomClose ==
    ASSUME LedgerInvariant, Room, Close
    PROVE  Room' /\ queue' = 0
<1>0. Types /\ Line /\ Phase
  BY DEF LedgerInvariant
<1>1. /\ delivery' = delivery - RoomHeld /\ queue' = queue - RoomHeld - Len(completed)
      /\ buffered' = <<>> /\ envelopes' = {} /\ completed' = <<>>
      /\ pc = "ended" /\ life = "stopping"
      /\ UNCHANGED <<pending, group, job, detached>>
  BY DEF Close, writer
<1>2. Len(pending) = 0 /\ Len(group) = 0 /\ detached = NoJob
  BY <1>0, <1>1, EmptySeq DEF Phase, Line
<1>3. /\ queue = delivery + Len(pending) + Len(group) + Len(completed) + 0
      /\ delivery = 2 * Len(buffered) + Cardinality(envelopes)
  BY <1>2 DEF Room, QueueExact
<1>4. /\ Len(buffered) \in Nat /\ Cardinality(envelopes) \in Nat /\ Len(completed) \in Nat
  BY <1>0, RoomNumbers
<1>5. delivery' = 0 /\ queue' = 0
  <2>1. PICK e \in Nat : e = 2 * Len(buffered)
    BY <1>4, Twice
  <2>2. delivery = e + Cardinality(envelopes) /\ RoomHeld = e + Cardinality(envelopes)
    BY <1>3, <2>1 DEF RoomHeld
  <2>3. queue = delivery + Len(pending) + Len(group) + Len(completed) + 0
    BY <1>3
  <2>4. PICK h : h = RoomHeld
    OBVIOUS
  <2>5. delivery = h /\ h \in Nat
    BY <1>4, <2>1, <2>2, <2>4
  <2>6. delivery' = delivery - h /\ queue' = queue - h - Len(completed)
    BY <1>1, <2>4
  <2>7. queue = h + Len(completed)
    BY <1>2, <1>4, <2>3, <2>5
  <2> QED BY <1>4, <2>5, <2>6, <2>7
<1>6. Len(buffered') = 0 /\ Len(completed') = 0 /\ Cardinality(envelopes') = 0
  BY <1>1, EmptySeq, FS_EmptySet
<1>7. 0 <= QueueLimit
  BY WriterAssumption
<1> QED BY <1>1, <1>2, <1>5, <1>6, <1>7 DEF Room, QueueExact

\* The steps that submit no job leave their number alone.
LEMMA SameLength ==
    ASSUME LedgerInvariant, LedgerInvariant', DOMAIN job' = DOMAIN job
    PROVE  Len(job') = Len(job)
<1>1. job \in Seq(JobRecords) /\ job' \in Seq(JobRecords)
  BY DEF LedgerInvariant, Types
<1> QED BY <1>1, LenProperties

\* The steps of the main thread that touch neither a queue nor a result.
Hands == Cancel \/ Authority \/ Pin \/ Release \/ Shutdown

\* The steps of the writer that move no job to another list.
Labours == \/ End \/ Check \/ Continue \/ Prepare \/ Barrier \/ Commit \/ Install
           \/ PrepareFails \/ BarrierFails \/ CommitFails

LEMMA SameJobNumbers ==
    ASSUME LedgerInvariant, Hands \/ Labours
    PROVE  DOMAIN job' = DOMAIN job
<1>1. CASE Cancel \/ Shutdown
  BY <1>1 DEF Cancel, Shutdown, Cancelled
<1>2. CASE Authority \/ Pin \/ Release \/ End \/ Continue \/ Commit \/ BarrierFails \/ CommitFails
  BY <1>2 DEF Authority, Pin, Release, End, Continue, Commit, BarrierFails, CommitFails
<1>3. CASE Check
  BY <1>3 DEF Check
<1>4. CASE Prepare
  BY <1>4 DEF Prepare
<1>5. CASE PrepareFails
  BY <1>5 DEF PrepareFails
<1>6. CASE Barrier
  BY <1>6 DEF Barrier
<1>7. CASE Install
  BY <1>7 DEF Install
<1> QED BY <1>1, <1>2, <1>3, <1>4, <1>5, <1>6, <1>7 DEF Hands, Labours

LEMMA Unmoved ==
    ASSUME LedgerInvariant, Hands \/ Labours
    PROVE  /\ UNCHANGED <<pending, group, completed, detached, envelopes, queue, delivery>>
           /\ Len(buffered') = Len(buffered)
<1>1. CASE Cancel \/ Pin \/ Release \/ Shutdown
  BY <1>1 DEF Cancel, Pin, Release, Shutdown, writer, room
<1>2. CASE Authority
  <2>1. UNCHANGED <<pending, group, completed, detached, envelopes, queue, delivery>>
    BY <1>2 DEF Authority, writer
  <2>2. DOMAIN buffered' = DOMAIN buffered
    BY <1>2 DEF Authority
  <2>3. buffered' \in Seq([req : Asked, rev : Nat]) /\ buffered \in Seq([req : Asked, rev : Nat])
    BY <1>2, AuthorityKeeps DEF LedgerInvariant, Types
  <2>4. Len(buffered') = Len(buffered)
    BY <2>2, <2>3, LenProperties
  <2> QED BY <2>1, <2>4
<1>3. CASE End \/ Check \/ Continue
  BY <1>3 DEF End, Check, Continue, writer, room
<1>4. CASE Prepare \/ PrepareFails
  BY <1>4 DEF Prepare, PrepareFails, room
<1>5. CASE Barrier \/ BarrierFails \/ Commit \/ CommitFails \/ Install
  BY <1>5 DEF Barrier, BarrierFails, Commit, CommitFails, Install, writer, room
<1> QED BY <1>1, <1>2, <1>3, <1>4, <1>5 DEF Hands, Labours

LEMMA StepKinds ==
    ASSUME Next
    PROVE  \/ Take \/ Complete \/ CompleteFails \/ Reserve \/ SubmitDelivery \/ DropDelivery \/ Poll
           \/ JobFree \/ Close \/ Hands \/ Labours
BY DEF Next, Works, Breaks, Main, Hands, Labours

LEMMA RoomStep == LedgerInvariant /\ Room /\ [Next]_vars => Room'
<1> SUFFICES ASSUME LedgerInvariant, Room, [Next]_vars PROVE Room'
  OBVIOUS
<1>0. LedgerInvariant' /\ Types /\ Line
  BY LedgerStep DEF LedgerInvariant
<1>1. CASE Hands \/ Labours
  <2>1. Len(job') = Len(job)
    BY <1>0, <1>1, SameJobNumbers, SameLength
  <2>2. /\ UNCHANGED <<pending, group, completed, detached, envelopes, queue, delivery>>
        /\ Len(buffered') = Len(buffered)
    BY <1>1, Unmoved
  <2>3. Len(pending) \in Nat /\ Len(group) \in Nat /\ Len(completed) \in Nat
    BY <1>0, Numbers
  <2> QED BY <1>0, <2>1, <2>2, <2>3, RoomAside
<1>2. CASE UNCHANGED vars
  <2>1. UNCHANGED <<pending, group, job, completed, detached, envelopes, queue, delivery, buffered>>
    BY <1>2 DEF vars, writer, room
  <2> QED BY <2>1 DEF Room, QueueExact
<1> QED BY <1>1, <1>2, StepKinds, RoomTake, RoomComplete, RoomReserve, RoomSubmit, RoomDrop, RoomPoll,
           RoomFree, RoomClose

-----------------------------------------------------------------------------
(* The references of the generations.                                         *)

Generations == [root : Roots, refs : Nat]

\* Finished jobs that were not freed yet and succeeded: their receipts are live.
Owed == {id \in 1 .. Len(job) :
            /\ job[id].result = "OK"
            /\ \/ id = detached
               \/ Seen < id /\ id <= Handed
               \/ pc = "complete" /\ Seen < id /\ id <= Taken}

Slips(ids) == {Before(id) : id \in ids} \cup {After(id) : id \in ids}

Pinned == {g \in {readers[r] : r \in Readers} : g # NoGen}

Live == {current} \cup Pinned \cup Slips(Owed)

\* A receipt has one holder, the published generation one besides its readers.
Share(g) == IF g \in Slips(Owed) THEN 1
            ELSE (IF g = current THEN 1 ELSE 0) + Cardinality(Pinners(g))

Past(n) == {<<"current", k>> : k \in 0 .. n}

\* The published generation is the durable one, or the one before it until a group that
\* went through the journal is installed.
Latest ==
    IF pc = "install" /\ outcome = "OK" /\ GoodJobs # {}
    THEN candidate = durable /\ \E n \in Nat : n < Len(Durable) /\ current = <<"current", n>>
    ELSE current = Gen(Durable)

Reads == \E n \in Nat : /\ current = <<"current", n>>
                        /\ readers \in [Readers -> Past(n) \cup {NoGen}]

Counts ==
    /\ generations \in [Live -> Generations]
    /\ \A g \in Live : generations[g].refs = Share(g)

Pins == Latest /\ Reads /\ Counts /\ life # "abort"

LEMMA Names ==
    /\ \A id, n : Before(id) # <<"current", n>> /\ After(id) # <<"current", n>>
    /\ \A id, k : Before(id) # After(k) /\ (Before(id) = Before(k) => id = k)
                                        /\ (After(id) = After(k) => id = k)
    /\ \A id, n : Before(id) # NoGen /\ After(id) # NoGen /\ <<"current", n>> # NoGen
    /\ \A n, k : <<"current", n>> = <<"current", k>> => n = k
    /\ \A id : Before(id)[1] = "before" /\ After(id)[1] = "after"
                 /\ Before(id)[2] = id /\ After(id)[2] = id
BY DEF Before, After, NoGen

LEMMA SlipNames ==
    ASSUME NEW ids, NEW g \in Slips(ids)
    PROVE  /\ \A n : g # <<"current", n>>
           /\ g # NoGen
           /\ \E id \in ids : g \in {Before(id), After(id)}
BY Names DEF Slips

\* No reader holds a receipt, and it is not the published generation.
LEMMA SlipsUnpinned ==
    ASSUME Reads, NEW ids, NEW g \in Slips(ids)
    PROVE  g # current /\ g \notin Pinned /\ Pinners(g) = {}
<1>1. PICK n \in Nat : current = <<"current", n>> /\ readers \in [Readers -> Past(n) \cup {NoGen}]
  BY DEF Reads
<1>2. \A k : g # <<"current", k>>
  BY SlipNames
<1>3. g # NoGen
  BY SlipNames
<1>4. \A r \in Readers : readers[r] # g
  BY <1>1, <1>2, <1>3 DEF Past
<1> QED BY <1>1, <1>2, <1>4 DEF Pinned, Pinners

LEMMA PinnersFinite ==
    ASSUME NEW g
    PROVE  IsFiniteSet(Pinners(g)) /\ Cardinality(Pinners(g)) \in Nat
<1>1. IsFiniteSet(Readers) /\ Pinners(g) \in SUBSET Readers
  BY WriterAssumption DEF Pinners
<1> QED BY <1>1, FS_Subset, FS_CardinalityType

\* Any number of references above none has a holder.
LEMMA PinnersNone ==
    ASSUME NEW g
    PROVE  Cardinality(Pinners(g)) = 0 <=> (\A r \in Readers : readers[r] # g)
<1>1. Cardinality(Pinners(g)) = 0 <=> Pinners(g) = {}
  BY PinnersFinite, FS_EmptySet
<1> QED BY <1>1 DEF Pinners

\* Steps that neither pin nor publish nor end the reading of a receipt.
LEMMA PinsAside ==
    ASSUME Pins, Owed' = Owed, UNCHANGED pins, Latest', life' # "abort"
    PROVE  Pins'
<1>1. UNCHANGED <<generations, current, readers>>
  BY DEF pins
<1>2. Reads'
  BY <1>1 DEF Pins, Reads
<1>3. Live' = Live /\ \A g : Share(g)' = Share(g)
  BY <1>1 DEF Live, Share, Pinned, Slips, Pinners
<1>4. Counts'
  BY <1>1, <1>3 DEF Pins, Counts
<1> QED BY <1>2, <1>4 DEF Pins

LEMMA PinsInit == Init => Pins
<1> SUFFICES ASSUME Init PROVE Pins
  OBVIOUS
<1>1. Durable = <<>> /\ current = Gen(<<>>) /\ pc = "wait" /\ Len(<<>>) = 0 /\ life = "up"
  BY EmptyRootType, EmptySeq DEF Init, Durable
<1>2. Latest
  BY <1>1 DEF Latest
<1>3. current = <<"current", 0>>
  BY <1>1 DEF Gen
<1>4. Reads
  BY <1>3 DEF Init, Reads
<1>5. Owed = {} /\ Pinned = {}
  <2>1. Len(job) = 0
    BY <1>1 DEF Init
  <2>2. Owed = {}
    BY <2>1 DEF Owed
  <2>3. \A r \in Readers : readers[r] = NoGen
    BY DEF Init
  <2> QED BY <2>2, <2>3 DEF Pinned
<1>6. Slips(Owed) = {}
  BY <1>5 DEF Slips
<1>7. Live = {current}
  BY <1>5, <1>6 DEF Live
<1>8. generations \in [Live -> Generations] /\ generations[current].refs = 1
  <2>1. generations = [g \in {current} |-> [root |-> EmptyRoot, refs |-> 1]]
    BY <1>1 DEF Init
  <2> QED BY <1>7, <2>1, EmptyRootType DEF Generations
<1>9. Share(current) = 1
  <2>1. \A r \in Readers : readers[r] # current
    BY <1>3, Names DEF Init
  <2>2. Cardinality(Pinners(current)) = 0
    BY <2>1, PinnersNone
  <2> QED BY <1>6, <2>2 DEF Share
<1>10. Counts
  BY <1>7, <1>8, <1>9 DEF Counts
<1> QED BY <1>1, <1>2, <1>4, <1>10 DEF Pins

LEMMA PinKeepsCounts ==
    ASSUME LedgerInvariant, Pins, Pin
    PROVE  Pins'
<1>0. Latest /\ Reads /\ Counts /\ life # "abort"
  BY DEF Pins
<1>1. /\ generations' = [generations EXCEPT ![current].refs = @ + 1]
      /\ UNCHANGED <<pc, pending, group, candidate, outcome, durable, job, completed, detached,
                     current, life>>
  BY DEF Pin, writer, flags
<1>2. PICK r \in Readers : readers[r] = NoGen /\ readers' = [readers EXCEPT ![r] = current]
  BY DEF Pin
<1>3. PICK n \in Nat : current = <<"current", n>> /\ readers \in [Readers -> Past(n) \cup {NoGen}]
  BY <1>0 DEF Reads
<1>4. current # NoGen /\ current \in Past(n)
  BY <1>3, Names DEF Past
<1>5. Reads' /\ Latest'
  <2>1. readers' \in [Readers -> Past(n) \cup {NoGen}]
    BY <1>2, <1>3, <1>4
  <2>2. Durable' = Durable /\ GoodJobs' = GoodJobs
    BY <1>1 DEF Durable, GoodJobs
  <2> QED BY <1>0, <1>1, <1>3, <2>1, <2>2 DEF Reads, Latest
<1>6. Owed' = Owed
  BY <1>1 DEF Owed, Seen, Handed, Taken
<1>7. Slips(Owed)' = Slips(Owed)
  BY <1>6 DEF Slips
<1>8. Live' = Live /\ current \in Live
  <2>1. Pinned' \subseteq Pinned \cup {current}
    BY <1>2, <1>3 DEF Pinned
  <2>2. Pinned \subseteq Pinned'
    <3>1. ASSUME NEW g \in Pinned PROVE g \in Pinned'
      <4>1. PICK q \in Readers : readers[q] = g /\ g # NoGen
        BY DEF Pinned
      <4>2. q # r
        BY <1>2, <4>1
      <4>3. readers'[q] = g
        BY <1>2, <1>3, <4>1, <4>2
      <4> QED BY <4>1, <4>3 DEF Pinned
    <3> QED BY <3>1
  <2> QED BY <1>1, <1>7, <2>1, <2>2 DEF Live
<1>9. current \notin Slips(Owed)
  BY <1>0, SlipsUnpinned
<1>10. Cardinality(Pinners(current)') = Cardinality(Pinners(current)) + 1
  <2>1. Pinners(current)' = Pinners(current) \cup {r}
    BY <1>1, <1>2, <1>3 DEF Pinners
  <2>2. r \notin Pinners(current)
    BY <1>2, <1>4 DEF Pinners
  <2>3. IsFiniteSet(Pinners(current))
    BY PinnersFinite
  <2> QED BY <2>1, <2>2, <2>3, FS_AddElement
<1>11. \A g : g # current /\ g # NoGen => Pinners(g)' = Pinners(g)
  BY <1>1, <1>2, <1>3 DEF Pinners
<1>12. \A g \in Live : g # NoGen
  BY <1>4, SlipNames DEF Live, Pinned
<1>13. Share(current)' = Share(current) + 1
  <2>1. Cardinality(Pinners(current)) \in Nat
    BY PinnersFinite
  <2> QED BY <1>1, <1>7, <1>9, <1>10, <2>1 DEF Share
<1>14. \A g \in Live : g # current => Share(g)' = Share(g)
  BY <1>1, <1>7, <1>11, <1>12 DEF Share
<1>15. Counts'
  <2>1. generations \in [Live -> Generations] /\ \A g \in Live : generations[g].refs = Share(g)
    BY <1>0 DEF Counts
  <2>2. PICK x : x = [generations[current] EXCEPT !.refs = @ + 1]
    OBVIOUS
  <2>3. x \in Generations /\ x.refs = Share(current) + 1
    BY <1>8, <2>1, <2>2 DEF Generations
  <2>4. generations' = [generations EXCEPT ![current] = x]
    BY <1>1, <2>2
  <2>5. generations' \in [Live -> Generations]
    BY <1>8, <2>1, <2>3, <2>4
  <2>6. ASSUME NEW g \in Live PROVE generations'[g].refs = Share(g)'
    BY <1>1, <1>8, <1>13, <1>14, <2>1, <2>3, <2>4
  <2> QED BY <1>8, <2>5, <2>6 DEF Counts
<1> QED BY <1>0, <1>1, <1>5, <1>15 DEF Pins

LEMMA ReleaseKeepsCounts ==
    ASSUME LedgerInvariant, Pins, Release
    PROVE  Pins'
<1>0. Latest /\ Reads /\ Counts /\ life # "abort"
  BY DEF Pins
<1>1. UNCHANGED <<pc, pending, group, candidate, outcome, durable, job, completed, detached, current,
                  life>>
  BY DEF Release, writer, flags
<1>2. PICK r \in Readers : /\ readers[r] # NoGen /\ readers' = [readers EXCEPT ![r] = NoGen]
                           /\ generations' = Drop(generations, readers[r])
  BY DEF Release
<1>3. PICK n \in Nat : current = <<"current", n>> /\ readers \in [Readers -> Past(n) \cup {NoGen}]
  BY <1>0 DEF Reads
<1>4. PICK h : h = readers[r]
  OBVIOUS
<1>5. Reads' /\ Latest'
  <2>1. readers' \in [Readers -> Past(n) \cup {NoGen}]
    BY <1>2, <1>3
  <2>2. Durable' = Durable /\ GoodJobs' = GoodJobs
    BY <1>1 DEF Durable, GoodJobs
  <2> QED BY <1>0, <1>1, <1>3, <2>1, <2>2 DEF Reads, Latest
<1>6. Owed' = Owed
  BY <1>1 DEF Owed, Seen, Handed, Taken
<1>7. Slips(Owed)' = Slips(Owed)
  BY <1>6 DEF Slips
<1>8. h \in Live /\ h \in Pinned /\ h # NoGen
  BY <1>2, <1>4 DEF Live, Pinned
<1>9. h \notin Slips(Owed) /\ current \notin Slips(Owed)
  BY <1>0, <1>8, SlipsUnpinned
<1>10. /\ r \in Pinners(h) /\ Pinners(h)' = Pinners(h) \ {r}
       /\ \A g : g # h /\ g # NoGen => Pinners(g)' = Pinners(g)
  BY <1>2, <1>3, <1>4, <1>8 DEF Pinners
<1>11. /\ Cardinality(Pinners(h)') = Cardinality(Pinners(h)) - 1
       /\ Cardinality(Pinners(h)) \in Nat \ {0} /\ Cardinality(Pinners(h)') \in Nat
  <2>1. IsFiniteSet(Pinners(h)) /\ Cardinality(Pinners(h)) \in Nat
    BY PinnersFinite
  <2>2. Cardinality(Pinners(h)) # 0
    BY <1>2, <1>4, PinnersNone
  <2>3. Cardinality(Pinners(h) \ {r}) = Cardinality(Pinners(h)) - 1
    BY <1>10, <2>1, FS_RemoveElement
  <2> QED BY <1>10, <2>1, <2>2, <2>3
<1>12. \A g \in Live : g # NoGen
  BY <1>3, SlipNames, Names DEF Live, Pinned
<1>13. generations \in [Live -> Generations] /\ \A g \in Live : generations[g].refs = Share(g)
  BY <1>0 DEF Counts
<1>14. Share(h) = (IF h = current THEN 1 ELSE 0) + Cardinality(Pinners(h))
  BY <1>9 DEF Share
<1>15. \A g \in Live : g # h => Share(g)' = Share(g)
  BY <1>1, <1>7, <1>10, <1>12 DEF Share
<1>16. \A g \in Live' : g = h \/ g \in Live
  <2>1. Pinned' \subseteq Pinned
    BY <1>2, <1>3 DEF Pinned
  <2> QED BY <1>1, <1>7, <2>1 DEF Live
<1>17. \A g \in Live : g # h => g \in Live'
  <2>1. ASSUME NEW g \in Pinned, g # h PROVE g \in Pinned'
    <3>1. PICK q \in Readers : readers[q] = g /\ g # NoGen
      BY DEF Pinned
    <3>2. q # r
      BY <1>4, <2>1, <3>1
    <3>3. readers'[q] = g
      BY <1>2, <1>3, <3>1, <3>2
    <3> QED BY <3>1, <3>3 DEF Pinned
  <2> QED BY <1>1, <1>7, <2>1 DEF Live
<1>18. CASE generations[h].refs = 1
  <2>1. h # current /\ Cardinality(Pinners(h)') = 0
    BY <1>8, <1>11, <1>13, <1>14, <1>18
  <2>2. h \notin Pinned'
    <3>1. \A q \in Readers : readers'[q] # h
      <4>1. IsFiniteSet(Pinners(h)')
        BY <1>10, PinnersFinite, FS_RemoveElement
      <4>2. Pinners(h)' = {}
        BY <2>1, <4>1, FS_EmptySet
      <4> QED BY <4>2 DEF Pinners
    <3> QED BY <3>1 DEF Pinned
  <2>3. Live' = Live \ {h}
    BY <1>1, <1>7, <1>9, <1>16, <1>17, <2>1, <2>2 DEF Live
  <2>4. generations' = [g \in Live \ {h} |-> generations[g]]
    BY <1>2, <1>4, <1>13, <1>18 DEF Drop
  <2>5. Counts'
    BY <1>13, <1>15, <2>3, <2>4 DEF Counts
  <2> QED BY <1>0, <1>1, <1>5, <2>5 DEF Pins
<1>19. CASE generations[h].refs # 1
  <2>1. PICK x : x = [generations[h] EXCEPT !.refs = @ - 1]
    OBVIOUS
  <2>2. generations' = [generations EXCEPT ![h] = x]
    BY <1>2, <1>4, <1>19, <2>1 DEF Drop
  <2>3. generations[h] \in Generations /\ generations[h].refs = Share(h)
    BY <1>8, <1>13
  <2>4. Share(h)' = Share(h) - 1 /\ Share(h) \in Nat \ {0, 1}
    <3>1. Share(h)' = (IF h = current THEN 1 ELSE 0) + Cardinality(Pinners(h)')
      BY <1>1, <1>7, <1>9 DEF Share
    <3> QED BY <1>11, <1>14, <1>19, <2>3, <3>1
  <2>5. x \in Generations /\ x.refs = Share(h) - 1
    BY <2>1, <2>3, <2>4 DEF Generations
  <2>6. h \in Live'
    <3>1. CASE h = current
      BY <1>1, <3>1 DEF Live
    <3>2. CASE h # current
      <4>1. Cardinality(Pinners(h)') # 0
        BY <1>11, <1>14, <2>4, <3>2
      <4>2. Pinners(h)' # {}
        BY <4>1, FS_EmptySet
      <4>3. PICK q \in Readers : readers'[q] = h
        BY <4>2 DEF Pinners
      <4> QED BY <1>8, <4>3 DEF Live, Pinned
    <3> QED BY <3>1, <3>2
  <2>7. Live' = Live
    BY <1>8, <1>16, <1>17, <2>6
  <2>8. generations' \in [Live -> Generations]
    BY <1>8, <1>13, <2>2, <2>5
  <2>9. ASSUME NEW g \in Live PROVE generations'[g].refs = Share(g)'
    BY <1>8, <1>13, <1>15, <2>2, <2>4, <2>5
  <2>10. Counts'
    BY <2>7, <2>8, <2>9 DEF Counts
  <2> QED BY <1>0, <1>1, <1>5, <2>10 DEF Pins
<1> QED BY <1>18, <1>19

\* The job that was polled gives its receipts back.
LEMMA FreeKeepsCounts ==
    ASSUME LedgerInvariant, Pins, JobFree
    PROVE  Pins'
<1>0. Latest /\ Reads /\ Counts /\ life # "abort" /\ Types /\ Line
  BY DEF Pins, LedgerInvariant
<1>1. /\ detached # NoJob /\ detached' = NoJob
      /\ generations' = DropAll(generations, Receipts(detached))
      /\ UNCHANGED <<pc, pending, group, candidate, outcome, durable, job, completed, current, readers,
                     life>>
  BY DEF JobFree, FreeReceipts, writer, flags
<1>2. detached = Seen /\ detached \in Nat \ {0} /\ Len(job) \in Nat /\ detached <= Len(job)
  <2>1. detached = Seen /\ Seen \in Nat
    BY <1>0, <1>1, Numbers DEF Line
  <2>2. /\ Len(job) \in Nat /\ Len(pending) \in Nat /\ Len(group) \in Nat /\ Len(completed) \in Nat
        /\ Taken \in Nat /\ Handed \in Nat
        /\ Len(job) = Taken + Len(pending) /\ Taken = Handed + Len(group)
        /\ Handed = Seen + Len(completed)
    BY <1>0, Numbers
  <2> QED BY <1>1, <2>1, <2>2 DEF NoJob
<1>3. Reads' /\ Latest'
  <2>1. Durable' = Durable /\ GoodJobs' = GoodJobs
    BY <1>1 DEF Durable, GoodJobs
  <2> QED BY <1>0, <1>1, <2>1 DEF Reads, Latest
<1>4. Owed' = Owed \ {detached}
  <2>1. Seen' = Seen /\ Handed' = Handed /\ Taken' = Taken
    BY <1>1 DEF Owed, Seen, Handed, Taken
  <2>2. \A id \in 1 .. Len(job) : id # NoJob
    BY DEF NoJob
  <2>3. ~(Seen < detached)
    BY <1>2
  <2> QED BY <1>1, <2>1, <2>2, <2>3 DEF Owed
<1>5. detached \in Owed <=> job[detached].result = "OK"
  BY <1>2 DEF Owed
<1>6. PICK away : away = Receipts(detached)
  OBVIOUS
<1>7. /\ away \subseteq Slips(Owed) /\ Slips(Owed)' = Slips(Owed) \ away
  <2>1. CASE detached \in Owed
    <3>1. away = {Before(detached), After(detached)}
      BY <1>5, <1>6, <2>1 DEF Receipts
    <3>2. Slips(Owed)' = Slips(Owed \ {detached})
      BY <1>4 DEF Slips
    <3>3. Slips(Owed \ {detached}) = Slips(Owed) \ away
      BY <3>1, Names DEF Slips
    <3> QED BY <2>1, <3>1, <3>2, <3>3 DEF Slips
  <2>2. CASE detached \notin Owed
    <3>1. away = {} /\ Owed' = Owed
      BY <1>4, <1>5, <1>6, <2>2 DEF Receipts
    <3> QED BY <3>1 DEF Slips
  <2> QED BY <2>1, <2>2
<1>8. Pinned' = Pinned /\ \A g : Pinners(g)' = Pinners(g)
  BY <1>1 DEF Pinned, Pinners
<1>9. \A g \in away : g # current /\ g \notin Pinned
  BY <1>0, <1>7, SlipsUnpinned
<1>10. Live' = Live \ away
  BY <1>1, <1>7, <1>8, <1>9 DEF Live
<1>11. generations \in [Live -> Generations] /\ \A g \in Live : generations[g].refs = Share(g)
  BY <1>0 DEF Counts
<1>12. \A g \in away : generations[g].refs = 1 /\ g \in Live
  <2>1. \A g \in away : Share(g) = 1 /\ g \in Live
    BY <1>7 DEF Share, Live
  <2> QED BY <1>11, <2>1
<1>13. generations' = [g \in Live \ away |-> generations[g]]
  <2>1. {h \in DOMAIN generations : h \in away => generations[h].refs # 1} = Live \ away
    BY <1>11, <1>12
  <2>2. generations' = [g \in Live \ away |->
                          IF g \in away THEN [generations[g] EXCEPT !.refs = @ - 1] ELSE generations[g]]
    BY <1>1, <1>6, <2>1 DEF DropAll
  <2> QED BY <2>2
<1>14. \A g \in Live \ away : Share(g)' = Share(g)
  BY <1>1, <1>7, <1>8 DEF Share
<1>15. Counts'
  BY <1>10, <1>11, <1>13, <1>14 DEF Counts
<1> QED BY <1>0, <1>1, <1>3, <1>15 DEF Pins

\* The finished jobs, by their numbers, and the ones that are worked on.
LEMMA InCompleted ==
    ASSUME Types, Line
    PROVE  \A id : id \in ToSet(completed) <=> id \in 1 .. Len(job) /\ Seen < id /\ id <= Handed
<1>1. /\ Len(job) \in Nat /\ Seen \in Nat /\ Handed \in Nat /\ Taken \in Nat
      /\ Len(group) \in Nat /\ Len(completed) \in Nat /\ Len(pending) \in Nat
      /\ Handed = Seen + Len(completed) /\ Taken = Handed + Len(group)
      /\ Len(job) = Taken + Len(pending)
  BY Numbers
<1>2. completed \in Seq(Nat) /\ \A i \in 1 .. Len(completed) : completed[i] = Seen + i
  BY DEF Types, Line
<1>3. \A id : id \in ToSet(completed) <=> \E i \in 1 .. Len(completed) : id = completed[i]
  BY <1>2, LenProperties DEF ToSet
<1>4. \A id : (\E i \in 1 .. Len(completed) : id = Seen + i)
                 <=> id \in 1 .. Len(job) /\ Seen < id /\ id <= Handed
  <2>1. ASSUME NEW id \in 1 .. Len(job), Seen < id, id <= Handed
        PROVE  \E i \in 1 .. Len(completed) : id = Seen + i
    <3>1. id - Seen \in 1 .. Len(completed) /\ id = Seen + (id - Seen)
      BY <1>1, <2>1
    <3> QED BY <3>1
  <2>2. ASSUME NEW i \in 1 .. Len(completed)
        PROVE  Seen + i \in 1 .. Len(job) /\ Seen < Seen + i /\ Seen + i <= Handed
    BY <1>1
  <2> QED BY <2>1, <2>2
<1> QED BY <1>2, <1>3, <1>4

LEMMA InGroup ==
    ASSUME Types, Line
    PROVE  \A id : id \in ToSet(group) <=> id \in 1 .. Len(job) /\ Handed < id /\ id <= Taken
<1>1. /\ Len(job) \in Nat /\ Seen \in Nat /\ Handed \in Nat /\ Taken \in Nat
      /\ Len(group) \in Nat /\ Len(completed) \in Nat /\ Len(pending) \in Nat
      /\ Handed = Seen + Len(completed) /\ Taken = Handed + Len(group)
      /\ Len(job) = Taken + Len(pending)
  BY Numbers
<1>2. group \in Seq(Nat) /\ \A i \in 1 .. Len(group) : group[i] = Handed + i
  BY DEF Types, Line
<1>3. \A id : id \in ToSet(group) <=> \E i \in 1 .. Len(group) : id = group[i]
  BY <1>2, LenProperties DEF ToSet
<1>4. \A id : (\E i \in 1 .. Len(group) : id = Handed + i)
                 <=> id \in 1 .. Len(job) /\ Handed < id /\ id <= Taken
  <2>1. ASSUME NEW id \in 1 .. Len(job), Handed < id, id <= Taken
        PROVE  \E i \in 1 .. Len(group) : id = Handed + i
    <3>1. id - Handed \in 1 .. Len(group) /\ id = Handed + (id - Handed)
      BY <1>1, <2>1
    <3> QED BY <3>1
  <2>2. ASSUME NEW i \in 1 .. Len(group)
        PROVE  Handed + i \in 1 .. Len(job) /\ Handed < Handed + i /\ Handed + i <= Taken
    BY <1>1
  <2> QED BY <2>1, <2>2
<1> QED BY <1>2, <1>3, <1>4

\* A shutdown leaves the published generation, and nothing but its own reference.
LEMMA CloseKeepsCounts ==
    ASSUME LedgerInvariant, Room, Pins, Close
    PROVE  Pins'
<1>0. Latest /\ Reads /\ Counts /\ Types /\ Line
  BY DEF Pins, LedgerInvariant
<1>1. /\ generations' = DropAll(Unpinned, UNION {Receipts(id) : id \in ToSet(completed)})
      /\ readers' = [r \in Readers |-> NoGen] /\ completed' = <<>>
      /\ life = "stopping" /\ pc = "ended"
      /\ life' = IF queue' = 0 /\ DOMAIN generations' = {current} /\ generations'[current].refs = 1
                 THEN "closed" ELSE "abort"
      /\ UNCHANGED <<pc, pending, group, candidate, outcome, durable, job, detached, current>>
  BY DEF Close, writer
<1>2. detached = NoJob
  BY <1>0, <1>1 DEF Line
<1>3. Owed = {id \in 1 .. Len(job) : job[id].result = "OK" /\ Seen < id /\ id <= Handed}
  BY <1>1, <1>2 DEF Owed, NoJob
<1>4. PICK away : away = UNION {Receipts(id) : id \in ToSet(completed)}
  OBVIOUS
<1>5. away = Slips(Owed)
  <2>1. \A id : id \in ToSet(completed) <=> id \in 1 .. Len(job) /\ Seen < id /\ id <= Handed
    BY <1>0, InCompleted
  <2>2. \A id : id \in Owed <=> id \in ToSet(completed) /\ job[id].result = "OK"
    BY <1>3, <2>1
  <2>3. \A g : g \in away <=> \E id \in ToSet(completed) : g \in Receipts(id)
    BY <1>4
  <2>4. \A g : g \in Slips(Owed) <=> \E id \in Owed : g = Before(id) \/ g = After(id)
    BY DEF Slips
  <2>5. \A id, g : g \in Receipts(id) <=> job[id].result = "OK" /\ (g = Before(id) \/ g = After(id))
    BY DEF Receipts
  <2>6. \A g : g \in away <=> g \in Slips(Owed)
    BY <2>2, <2>3, <2>4, <2>5
  <2> QED BY <2>6
<1>6. generations \in [Live -> Generations] /\ \A g \in Live : generations[g].refs = Share(g)
  BY <1>0 DEF Counts
<1>7. \A g : g \in Slips(Owed) => /\ g # current /\ g \notin Pinned /\ g \in Live
                                  /\ Share(g) = 1 /\ Cardinality(Pinners(g)) = 0
  <2>1. ASSUME NEW g \in Slips(Owed)
        PROVE  g # current /\ g \notin Pinned /\ Pinners(g) = {}
    BY <1>0, SlipsUnpinned
  <2> QED BY <2>1, FS_EmptySet DEF Share, Live
<1>8. Share(current) = 1 + Cardinality(Pinners(current)) /\ Cardinality(Pinners(current)) \in Nat
  BY <1>7, PinnersFinite DEF Share
<1>9. \A g \in Live : g # current /\ g \notin Slips(Owed) =>
         Share(g) = Cardinality(Pinners(g)) /\ Cardinality(Pinners(g)) \in Nat
  BY PinnersFinite DEF Share
<1>10. /\ DOMAIN Unpinned = {current} \cup Slips(Owed)
       /\ \A g \in DOMAIN Unpinned : Unpinned[g].refs = 1 /\ Unpinned[g] \in Generations
  <2>1. \A g \in Live : generations[g].refs # Cardinality(Pinners(g))
                           <=> g = current \/ g \in Slips(Owed)
    <3>1. ASSUME NEW g \in Live
          PROVE  generations[g].refs # Cardinality(Pinners(g)) <=> g = current \/ g \in Slips(Owed)
      <4>1. generations[g].refs = Share(g)
        BY <1>6
      <4> QED BY <1>7, <1>8, <1>9, <4>1
    <3> QED BY <3>1
  <2>2. current \in Live /\ Slips(Owed) \subseteq Live /\ DOMAIN generations = Live
    BY <1>6 DEF Live
  <2>3. DOMAIN Unpinned = {h \in Live : generations[h].refs # Cardinality(Pinners(h))}
    BY <2>2 DEF Unpinned
  <2>4. DOMAIN Unpinned = {current} \cup Slips(Owed)
    BY <2>1, <2>2, <2>3
  <2>5. ASSUME NEW g \in DOMAIN Unpinned
        PROVE  Unpinned[g].refs = 1 /\ Unpinned[g] \in Generations
    <3>1. Unpinned[g] = [generations[g] EXCEPT !.refs = @ - Cardinality(Pinners(g))]
      BY <2>5 DEF Unpinned
    <3>2. generations[g] \in Generations /\ generations[g].refs = Share(g)
      BY <1>6, <2>2, <2>4
    <3>3. Share(g) = 1 + Cardinality(Pinners(g)) /\ Cardinality(Pinners(g)) \in Nat
      BY <1>7, <1>8, <2>4
    <3> QED BY <3>1, <3>2, <3>3 DEF Generations
  <2> QED BY <2>4, <2>5
<1>11. generations' = [g \in {current} |-> Unpinned[g]]
  <2>1. current \notin away
    BY <1>5, <1>7
  <2>2. {h \in DOMAIN Unpinned : h \in away => Unpinned[h].refs # 1} = {current}
    BY <1>5, <1>10, <2>1
  <2>3. generations' = [g \in {current} |->
                          IF g \in away THEN [Unpinned[g] EXCEPT !.refs = @ - 1] ELSE Unpinned[g]]
    BY <1>1, <1>4, <2>2 DEF DropAll
  <2> QED BY <2>1, <2>3
<1>12. DOMAIN generations' = {current} /\ generations'[current].refs = 1
       /\ generations'[current] \in Generations
  BY <1>10, <1>11
<1>13. life' = "closed"
  <2>1. queue' = 0
    BY RoomClose
  <2> QED BY <1>1, <1>12, <2>1
<1>14. Owed' = {}
  <2>1. Seen' = Handed' /\ Handed' \in Nat
    <3>1. Len(<<>>) = 0 /\ Handed' = Handed /\ Handed \in Nat
      BY <1>0, <1>1, Numbers, EmptySeq DEF Handed, Taken
    <3> QED BY <1>1, <3>1 DEF Seen
  <2>2. ASSUME NEW id \in Owed' PROVE FALSE
    <3>1. id \in 1 .. Len(job) /\ (id = detached \/ (Seen' < id /\ id <= Handed'))
      BY <1>1, <2>2 DEF Owed
    <3> QED BY <1>2, <2>1, <3>1 DEF NoJob
  <2> QED BY <2>2
<1>15. Slips(Owed)' = {} /\ Pinned' = {}
  BY <1>1, <1>14 DEF Slips, Pinned
<1>16. PICK n \in Nat : current = <<"current", n>>
  BY <1>0 DEF Reads
<1>17. Cardinality(Pinners(current)') = 0
  <2>1. Pinners(current)' = {}
    BY <1>1, <1>16, Names DEF Pinners
  <2> QED BY <2>1, FS_EmptySet
<1>18. Live' = {current} /\ Share(current)' = 1
  BY <1>1, <1>15, <1>17 DEF Live, Share
<1>19. Counts'
  <2>1. generations' \in [{current} -> Generations]
    BY <1>11, <1>12
  <2>2. PICK g : g = current /\ g = current'
    BY <1>1
  <2>3. generations'[g].refs = Share(g)'
    BY <1>12, <1>18, <2>2
  <2> QED BY <1>18, <2>1, <2>2, <2>3 DEF Counts
<1>20. Reads' /\ Latest'
  <2>1. Durable' = Durable /\ GoodJobs' = GoodJobs
    BY <1>1 DEF Durable, GoodJobs
  <2> QED BY <1>0, <1>1, <1>16, <2>1 DEF Reads, Latest
<1> QED BY <1>13, <1>19, <1>20 DEF Pins

\* Publication: the receipts of the group and the new generation, each with its holder,
\* and the reference of the one that was published.
LEMMA InstallKeepsCounts ==
    ASSUME LedgerInvariant, Pins, Install, outcome = "OK", GoodJobs # {}
    PROVE  Pins'
<1>0. Latest /\ Reads /\ Counts /\ Types /\ Line /\ life # "abort"
  BY DEF Pins, LedgerInvariant
<1> DEFINE good == {group[i] : i \in GoodJobs}
           receipts == {Before(id) : id \in good} \cup {After(id) : id \in good}
           pinned == [g \in DOMAIN generations \cup receipts |->
                        IF g \in receipts
                        THEN [root |-> IF g[1] = "before" THEN job[g[2]].before ELSE job[g[2]].after,
                              refs |-> 1]
                        ELSE generations[g]]
<1>1. /\ pc = "install" /\ pc' = "complete"
      /\ current' = Gen(candidate.log)
      /\ generations' = Drop(Hold(pinned, Gen(candidate.log), candidate), current)
      /\ UNCHANGED <<pending, group, candidate, outcome, durable, completed, detached, readers, life>>
  <2>1. /\ pc = "install" /\ pc' = "complete"
        /\ UNCHANGED <<pending, group, candidate, outcome, durable, completed, detached, readers, life>>
    BY DEF Install, writer
  <2>2. good # {}
    OBVIOUS
  <2>3. /\ current' = Gen(candidate.log)
        /\ generations' = Drop(Hold(pinned, Gen(candidate.log), candidate), current)
    BY <2>2 DEF Install
  <2> QED BY <2>1, <2>3
<1>2. candidate = durable
  BY <1>0, <1>1 DEF Latest
<1>3. PICK n \in Nat : /\ n < Len(Durable) /\ current = <<"current", n>>
                       /\ readers \in [Readers -> Past(n) \cup {NoGen}]
  <2>1. PICK n \in Nat : n < Len(Durable) /\ current = <<"current", n>>
    BY <1>0, <1>1 DEF Latest
  <2>2. PICK k \in Nat : current = <<"current", k>> /\ readers \in [Readers -> Past(k) \cup {NoGen}]
    BY <1>0 DEF Reads
  <2>3. k = n
    BY <2>1, <2>2, Names
  <2> QED BY <2>1, <2>2, <2>3
<1>4. PICK m \in Nat : m = Len(Durable) /\ n < m
  BY <1>0, <1>3, Numbers
<1>5. PICK new : new = <<"current", m>>
  OBVIOUS
<1>6. current' = new /\ new = Gen(candidate.log)
  BY <1>1, <1>2, <1>4, <1>5 DEF Gen, Durable
<1>7. /\ Len(job') = Len(job) /\ \A id \in 1 .. Len(job) : job'[id] = job[id]
  BY Installed
<1>8. Reads' /\ Latest'
  <2>1. Past(n) \subseteq Past(m)
    BY <1>4 DEF Past
  <2>2. readers' \in [Readers -> Past(m) \cup {NoGen}]
    BY <1>1, <1>3, <2>1
  <2>3. Durable' = Durable
    BY <1>1 DEF Durable
  <2> QED BY <1>1, <1>4, <1>5, <1>6, <2>2, <2>3 DEF Reads, Latest, Gen
<1>9. \A id : id \in good <=> /\ id \in 1 .. Len(job) /\ Handed < id /\ id <= Taken
                              /\ job[id].result = "OK"
  <2>1. /\ Len(job) \in Nat /\ Handed \in Nat /\ Taken \in Nat /\ Len(group) \in Nat
        /\ Taken = Handed + Len(group) /\ Taken <= Len(job)
    <3>1. /\ Len(job) \in Nat /\ Handed \in Nat /\ Taken \in Nat /\ Len(group) \in Nat
          /\ Len(pending) \in Nat
          /\ Taken = Handed + Len(group) /\ Len(job) = Taken + Len(pending)
      BY <1>0, Numbers
    <3> QED BY <3>1
  <2>2. \A i \in 1 .. Len(group) : group[i] = Handed + i
    BY <1>0 DEF Line
  <2>3. ASSUME NEW i \in GoodJobs
        PROVE  /\ group[i] \in 1 .. Len(job) /\ Handed < group[i] /\ group[i] <= Taken
               /\ job[group[i]].result = "OK"
    BY <2>1, <2>2 DEF GoodJobs
  <2>4. ASSUME NEW id \in 1 .. Len(job), Handed < id, id <= Taken, job[id].result = "OK"
        PROVE  \E i \in GoodJobs : id = group[i]
    <3>1. id - Handed \in 1 .. Len(group) /\ Handed + (id - Handed) = id
      BY <2>1, <2>4
    <3>2. group[id - Handed] = id
      BY <2>2, <3>1
    <3>3. id - Handed \in GoodJobs
      BY <2>4, <3>1, <3>2 DEF GoodJobs
    <3> QED BY <3>2, <3>3
  <2> QED BY <2>3, <2>4
<1>10. Owed' = Owed \cup good /\ good \cap Owed = {}
  <2>1. Seen' = Seen /\ Handed' = Handed /\ Taken' = Taken
    BY <1>1, <1>7 DEF Seen, Handed, Taken
  <2>2. Owed = {id \in 1 .. Len(job) : /\ job[id].result = "OK"
                                       /\ id = detached \/ (Seen < id /\ id <= Handed)}
    BY <1>1 DEF Owed
  <2>3. Owed' = {id \in 1 .. Len(job) : /\ job[id].result = "OK"
                                        /\ \/ id = detached
                                           \/ Seen < id /\ id <= Handed
                                           \/ Seen < id /\ id <= Taken}
    BY <1>1, <1>7, <2>1 DEF Owed
  <2>4. /\ Seen \in Nat /\ Handed \in Nat /\ Taken \in Nat /\ Seen <= Handed /\ Handed <= Taken
        /\ detached \in Nat /\ detached <= Handed
    <3>1. /\ Len(group) \in Nat /\ Len(completed) \in Nat
          /\ Taken \in Nat /\ Handed \in Nat /\ Seen \in Nat
          /\ Taken = Handed + Len(group) /\ Handed = Seen + Len(completed)
      BY <1>0, Numbers
    <3>2. detached \in {0, Seen}
      BY <1>0 DEF Line, NoJob
    <3> QED BY <3>1, <3>2
  <2>5. ASSUME NEW id \in 1 .. Len(job), job[id].result = "OK"
        PROVE  /\ id \in Owed' <=> id \in Owed \/ id \in good
               /\ ~(id \in good /\ id \in Owed)
    BY <1>9, <2>2, <2>3, <2>4, <2>5
  <2>6. \A id : (id \in Owed' \/ id \in Owed \/ id \in good) => id \in 1 .. Len(job) /\ job[id].result = "OK"
    BY <1>9, <2>2, <2>3
  <2> QED BY <2>5, <2>6
<1>11. PICK slips : slips = receipts
  OBVIOUS
<1>12. slips = Slips(good) /\ Slips(Owed)' = Slips(Owed) \cup slips /\ slips \cap Slips(Owed) = {}
  <2>1. slips = Slips(good)
    BY <1>11 DEF Slips
  <2>2. Slips(Owed)' = Slips(Owed \cup good)
    BY <1>10 DEF Slips
  <2>3. Slips(Owed \cup good) = Slips(Owed) \cup Slips(good)
    BY DEF Slips
  <2>4. Slips(good) \cap Slips(Owed) = {}
    BY <1>10, Names DEF Slips
  <2> QED BY <2>1, <2>2, <2>3, <2>4
<1>13. /\ \A g \in slips : g # current /\ g \notin Pinned /\ g # new /\ g \notin Live
                           /\ Cardinality(Pinners(g)) = 0
  <2>1. ASSUME NEW g \in slips PROVE g # current /\ g \notin Pinned /\ Pinners(g) = {} /\ g # new
    BY <1>0, <1>5, <1>12, SlipsUnpinned, SlipNames
  <2> QED BY <1>12, <2>1, FS_EmptySet DEF Live
<1>14. new \notin Live /\ new # current /\ new # NoGen /\ Cardinality(Pinners(new)) = 0
  <2>1. new \notin Past(n)
    BY <1>4, <1>5, Names DEF Past
  <2>2. new # NoGen
    BY <1>5, Names
  <2>3. \A r \in Readers : readers[r] # new
    BY <1>3, <2>1, <2>2
  <2>4. new # current
    BY <1>3, <1>4, <1>5, Names
  <2>5. new \notin Slips(Owed)
    BY <1>5, SlipNames
  <2> QED BY <2>2, <2>3, <2>4, <2>5, PinnersNone DEF Live, Pinned
<1>15. generations \in [Live -> Generations] /\ \A g \in Live : generations[g].refs = Share(g)
  BY <1>0 DEF Counts
<1>16. PICK p : p = pinned
  OBVIOUS
<1>17. /\ p \in [Live \cup slips -> Generations]
       /\ \A g \in Live : p[g] = generations[g]
       /\ \A g \in slips : p[g].refs = 1
  <2>1. p = [g \in Live \cup slips |->
               IF g \in slips
               THEN [root |-> IF g[1] = "before" THEN job[g[2]].before ELSE job[g[2]].after, refs |-> 1]
               ELSE generations[g]]
    BY <1>11, <1>15, <1>16
  <2>2. ASSUME NEW g \in slips PROVE p[g] \in Generations /\ p[g].refs = 1
    <3>1. PICK id \in good : g \in {Before(id), After(id)}
      BY <1>12, SlipNames
    <3>2. id \in 1 .. Len(job)
      BY <1>9
    <3>3. job[id] \in JobRecords
      BY <1>0, <3>2, Members
    <3>4. g[2] = id
      BY <3>1, Names
    <3>5. PICK x : x = IF g[1] = "before" THEN job[g[2]].before ELSE job[g[2]].after
      OBVIOUS
    <3>6. x \in Roots
      BY <3>3, <3>4, <3>5 DEF JobRecords
    <3>7. p[g] = [root |-> x, refs |-> 1]
      BY <2>1, <3>5
    <3> QED BY <3>6, <3>7 DEF Generations
  <2>3. ASSUME NEW g \in Live PROVE p[g] = generations[g] /\ p[g] \in Generations
    <3>1. g \notin slips
      BY <1>13
    <3> QED BY <1>15, <2>1, <3>1
  <2> QED BY <2>1, <2>2, <2>3
<1>18. PICK h : h = Hold(p, new, candidate)
  OBVIOUS
<1>19. /\ h \in [Live \cup slips \cup {new} -> Generations]
       /\ \A g \in Live : h[g] = generations[g]
       /\ \A g \in slips : h[g].refs = 1
       /\ h[new].refs = 1
  <2>1. h = [g \in (Live \cup slips) \cup {new} |->
               IF g = new THEN [root |-> candidate, refs |-> 1] ELSE p[g]]
    BY <1>17, <1>18 DEF Hold
  <2>2. [root |-> candidate, refs |-> 1] \in Generations
    BY <1>0 DEF Types, Generations
  <2>3. \A g \in Live \cup slips : g # new
    BY <1>13, <1>14
  <2> QED BY <1>17, <2>1, <2>2, <2>3
<1>20. generations' = Drop(h, current)
  BY <1>1, <1>6, <1>16, <1>18
<1>21. Pinned' = Pinned /\ \A g : Pinners(g)' = Pinners(g)
  BY <1>1 DEF Pinned, Pinners
<1>22. Live' = {new} \cup Pinned \cup Slips(Owed) \cup slips
  BY <1>6, <1>12, <1>21 DEF Live
<1>23. current \notin Slips(Owed) /\ current \notin slips
  BY <1>0, <1>13, SlipsUnpinned
<1>24. PICK old : old = current
  OBVIOUS
<1>25. Share(new)' = 1 /\ \A g \in slips : Share(g)' = 1
  <2>1. new \notin Slips(Owed)'
    BY <1>12, <1>13, <1>14 DEF Live
  <2> QED BY <1>6, <1>12, <1>14, <1>21, <2>1 DEF Share
<1>26. \A g \in Live : g # old => Share(g)' = Share(g)
  <2>1. ASSUME NEW g \in Live, g # old PROVE Share(g)' = Share(g)
    <3>1. g \in Slips(Owed)' <=> g \in Slips(Owed)
      BY <1>12, <1>13
    <3>2. g # new
      BY <1>14
    <3> QED BY <1>6, <1>21, <1>24, <2>1, <3>1, <3>2 DEF Share
  <2> QED BY <2>1
<1>27. PICK k \in Nat : k = Cardinality(Pinners(old)) /\ Share(old) = 1 + k /\ Share(old)' = k
  <2>1. PICK k \in Nat : k = Cardinality(Pinners(old))
    BY PinnersFinite
  <2>2. Share(old) = 1 + k
    BY <1>23, <1>24, <2>1 DEF Share
  <2>3. old \notin Slips(Owed)' /\ old # current'
    BY <1>6, <1>12, <1>14, <1>23, <1>24
  <2>4. Share(old)' = k
    BY <1>21, <2>1, <2>3 DEF Share
  <2> QED BY <2>1, <2>2, <2>4
<1>28. old \in Live /\ h[old].refs = 1 + k /\ generations' = Drop(h, old) /\ h[old] \in Generations
  <2>1. old \in Live
    BY <1>24 DEF Live
  <2> QED BY <1>15, <1>19, <1>20, <1>24, <1>27, <2>1
<1>29. (\E r \in Readers : readers[r] = old) <=> k # 0
  BY <1>27, PinnersNone
<1>30. \A g : g # old => (g \in Live' <=> g \in Live \cup slips \cup {new})
  BY <1>22, <1>24 DEF Live
<1>31. old \in Live' <=> k # 0
  <2>1. old \in Pinned <=> k # 0
    BY <1>3, <1>24, <1>29, Names DEF Pinned
  <2> QED BY <1>14, <1>22, <1>23, <1>24, <2>1
<1>32. \A g \in Live' : g # old => h[g].refs = Share(g)'
  <2>1. ASSUME NEW g \in Live', g # old PROVE h[g].refs = Share(g)'
    <3>1. g \in Live \/ g \in slips \/ g = new
      BY <1>30, <2>1
    <3> QED BY <1>15, <1>19, <1>25, <1>26, <2>1, <3>1
  <2> QED BY <2>1
<1>33. Counts'
  <2>1. CASE k = 0
    <3>1. Live' = (Live \cup slips \cup {new}) \ {old}
      BY <1>30, <1>31, <2>1
    <3>2. generations' = [g \in Live' |-> h[g]]
      BY <1>19, <1>28, <2>1, <3>1 DEF Drop
    <3>3. \A g \in Live' : g # old
      BY <3>1
    <3>4. generations' \in [Live' -> Generations]
      BY <1>19, <3>1, <3>2
    <3>5. \A g \in Live' : generations'[g].refs = Share(g)'
      BY <1>32, <3>2, <3>3
    <3> QED BY <3>4, <3>5 DEF Counts
  <2>2. CASE k # 0
    <3>1. Live' = Live \cup slips \cup {new}
      BY <1>28, <1>30, <1>31, <2>2
    <3>2. PICK x : x = [h[old] EXCEPT !.refs = @ - 1]
      OBVIOUS
    <3>3. x \in Generations /\ x.refs = k
      BY <1>27, <1>28, <3>2 DEF Generations
    <3>4. generations' = [h EXCEPT ![old] = x]
      BY <1>27, <1>28, <2>2, <3>2 DEF Drop
    <3>5. generations' \in [Live' -> Generations]
      BY <1>19, <1>28, <3>1, <3>3, <3>4
    <3>6. \A g \in Live' : generations'[g].refs = Share(g)'
      BY <1>19, <1>27, <1>32, <3>1, <3>3, <3>4
    <3> QED BY <3>5, <3>6 DEF Counts
  <2> QED BY <2>1, <2>2
<1> QED BY <1>0, <1>1, <1>8, <1>33 DEF Pins

\* A group that did not go through the journal publishes nothing and has no receipts.
LEMMA TurnedAwayKeepsCounts ==
    ASSUME LedgerInvariant, Pins, Install, ~(outcome = "OK" /\ GoodJobs # {})
    PROVE  Pins'
<1>0. Latest /\ Types /\ Line /\ life # "abort"
  BY DEF Pins, LedgerInvariant
<1> DEFINE good == {group[i] : i \in GoodJobs}
<1>1. /\ pc = "install" /\ pc' = "complete"
      /\ UNCHANGED <<pending, group, candidate, outcome, durable, completed, detached, readers, life>>
  BY DEF Install, writer
<1>2. UNCHANGED <<current, generations>>
  <2>1. ~(good # {} /\ outcome = "OK")
    BY DEF GoodJobs
  <2> QED BY <2>1 DEF Install
<1>3. Latest'
  <2>1. current = Gen(Durable) /\ Durable' = Durable
    BY <1>0, <1>1 DEF Latest, Durable
  <2> QED BY <1>1, <1>2, <2>1 DEF Latest
<1>4. Len(job') = Len(job)
  BY Installed
<1>5. Seen' = Seen /\ Handed' = Handed /\ Taken' = Taken
  BY <1>1, <1>4 DEF Seen, Handed, Taken
<1>6. /\ Len(job) \in Nat /\ Handed \in Nat /\ Taken \in Nat /\ Len(group) \in Nat /\ Seen \in Nat
      /\ Taken = Handed + Len(group) /\ Seen <= Handed
  <2>1. /\ Len(job) \in Nat /\ Handed \in Nat /\ Taken \in Nat /\ Len(group) \in Nat /\ Seen \in Nat
        /\ Len(completed) \in Nat /\ Taken = Handed + Len(group) /\ Handed = Seen + Len(completed)
    BY <1>0, Numbers
  <2> QED BY <2>1
<1>7. \A i \in 1 .. Len(group) : group[i] = Handed + i
  BY <1>0 DEF Line
<1>8. \A id \in good : Handed < id
  BY <1>6, <1>7 DEF GoodJobs
<1>9. \A id \in 1 .. Len(job) : id <= Handed => job'[id] = job[id]
  <2>1. ASSUME NEW id \in 1 .. Len(job), id <= Handed PROVE job'[id] = job[id]
    <3>1. ~(Handed < id)
      BY <1>6, <2>1
    <3>2. id \notin good
      BY <1>8, <3>1
    <3> QED BY <3>2, Installed
  <2> QED BY <2>1
<1>10. \A id \in 1 .. Len(job) : Handed < id /\ id <= Taken => job'[id].result # "OK"
  <2>1. ASSUME NEW id \in 1 .. Len(job), Handed < id, id <= Taken
        PROVE  job'[id].result # "OK"
    <3>1. id - Handed \in 1 .. Len(group) /\ Handed + (id - Handed) = id
      BY <1>6, <2>1
    <3>2. group[id - Handed] = id
      BY <1>7, <3>1
    <3>3. CASE job[id].result = "OK"
      <4>1. id - Handed \in GoodJobs
        BY <3>1, <3>2, <3>3 DEF GoodJobs
      <4>2. id \in good /\ outcome # "OK"
        BY <3>2, <4>1
      <4> QED BY <4>2, Installed
    <3>4. CASE job[id].result # "OK"
      <4>1. id \notin good
        BY <3>4 DEF GoodJobs
      <4>2. job'[id] = job[id]
        BY <4>1, Installed
      <4> QED BY <3>4, <4>2
    <3> QED BY <3>3, <3>4
  <2> QED BY <2>1
<1>11. Owed' = Owed
  <2>1. detached \in Nat /\ detached <= Handed
    BY <1>0, <1>6 DEF Line, NoJob
  <2>2. \A id \in 1 .. Len(job) : id \in Owed' <=> id \in Owed
    BY <1>1, <1>4, <1>5, <1>6, <1>9, <1>10, <2>1 DEF Owed
  <2> QED BY <1>4, <2>2 DEF Owed
<1>12. UNCHANGED pins
  BY <1>1, <1>2 DEF pins
<1> QED BY <1>0, <1>1, <1>3, <1>11, <1>12, PinsAside

-----------------------------------------------------------------------------
(* The steps that leave the receipts that are owed and the published generation   *)
(* alone.                                                                         *)

\* Jobs up to this number have been answered for good.
Answers == IF pc = "complete" THEN Taken ELSE Handed

LEMMA AnswersNumber ==
    ASSUME Types, Line
    PROVE  /\ Len(job) \in Nat /\ Seen \in Nat /\ Handed \in Nat /\ Taken \in Nat /\ Answers \in Nat
           /\ Seen <= Handed /\ Handed <= Answers /\ Answers <= Taken /\ Taken <= Len(job)
           /\ detached \in Nat /\ detached <= Handed
<1>1. /\ Len(job) \in Nat /\ Handed \in Nat /\ Taken \in Nat /\ Len(group) \in Nat /\ Seen \in Nat
      /\ Len(completed) \in Nat /\ Taken = Handed + Len(group) /\ Handed = Seen + Len(completed)
      /\ Len(pending) \in Nat /\ Len(job) = Taken + Len(pending)
  BY Numbers
<1>2. detached \in {0, Seen}
  BY DEF Line, NoJob
<1> QED BY <1>1, <1>2 DEF Answers

\* What is owed is a matter of the jobs that were answered.
LEMMA OwedKept ==
    ASSUME Types, Line, Types', Line', Len(job') >= Len(job), Seen' = Seen, Answers' = Answers,
           detached' = detached,
           \A id \in 1 .. Len(job) : id <= Answers => job'[id].result = job[id].result
    PROVE  Owed' = Owed
<1>1. /\ Len(job) \in Nat /\ Seen \in Nat /\ Handed \in Nat /\ Taken \in Nat /\ Answers \in Nat
      /\ Seen <= Handed /\ Handed <= Answers /\ Answers <= Taken /\ Taken <= Len(job)
      /\ detached \in Nat /\ detached <= Handed
  BY AnswersNumber
<1>2. Len(job') \in Nat /\ Handed' \in Nat /\ Taken' \in Nat /\ Handed' <= Taken'
  <2>1. Len(job') \in Nat
    BY LenProperties DEF Types
  <2>2. Len(pending') \in Nat /\ Len(group') \in Nat /\ Len(completed') \in Nat
    BY LenProperties DEF Types
  <2>3. /\ Taken' = Len(job') - Len(pending') /\ Handed' = Taken' - Len(group')
        /\ Seen' = Handed' - Len(completed')
    BY DEF Taken, Handed, Seen
  <2> QED BY <1>1, <2>1, <2>2, <2>3
<1>3. Owed = {id \in 1 .. Len(job) :
                 job[id].result = "OK" /\ (id = detached \/ (Seen < id /\ id <= Answers))}
  BY <1>1 DEF Owed, Answers
<1>4. Owed' = {id \in 1 .. Len(job') :
                 job'[id].result = "OK" /\ (id = detached' \/ (Seen' < id /\ id <= Answers'))}
  BY <1>2 DEF Owed, Answers
<1>5. ASSUME NEW id, id = detached \/ (Seen < id /\ id <= Answers)
      PROVE  id \in Owed' <=> id \in Owed
  <2>1. id \in 1 .. Len(job') <=> id \in 1 .. Len(job)
    BY <1>1, <1>2, <1>5
  <2>2. ASSUME id \in 1 .. Len(job) PROVE job'[id].result = job[id].result
    BY <1>1, <1>5, <2>2
  <2> QED BY <1>3, <1>4, <1>5, <2>1, <2>2
<1> QED BY <1>3, <1>4, <1>5

\* The results that are not the writer's current one stay.
LEMMA EarlierResults ==
    ASSUME LedgerInvariant, Labours, ~Install
    PROVE  /\ pc # "complete" /\ pc' # "complete"
           /\ \A id \in 1 .. Len(job) : id <= Handed => job'[id].result = job[id].result
<1>0. Types /\ Line /\ Phase
  BY DEF LedgerInvariant
<1>1. pc # "complete" /\ pc' # "complete"
  BY DEF Labours, End, Check, Continue, Prepare, Barrier, Commit, PrepareFails, BarrierFails, CommitFails
<1>2. CASE End \/ Continue \/ Commit \/ BarrierFails \/ CommitFails
  <2>1. job' = job
    BY <1>2 DEF End, Continue, Commit, BarrierFails, CommitFails
  <2> QED BY <1>1, <2>1
<1>3. CASE Barrier
  <2>1. CASE job' = job
    BY <1>1, <2>1
  <2>2. CASE job' = [id \in DOMAIN job |->
                        [job[id] EXCEPT !.committing = @ \/ \E i \in GoodJobs : group[i] = id]]
    <3>1. \A id \in 1 .. Len(job) : id \in DOMAIN job /\ job[id] \in JobRecords
      BY <1>0, Members
    <3>2. ASSUME NEW id \in 1 .. Len(job) PROVE job'[id].result = job[id].result
      <4>1. job'[id] = [job[id] EXCEPT !.committing = @ \/ \E i \in GoodJobs : group[i] = id]
        BY <2>2, <3>1
      <4>2. job[id] \in JobRecords
        BY <3>1
      <4> QED BY <4>1, <4>2 DEF JobRecords
    <3> QED BY <1>1, <3>2
  <2> QED BY <1>3, <2>1, <2>2 DEF Barrier
<1>4. CASE Check \/ Prepare \/ PrepareFails
  <2>1. at <= Len(group) /\ at \in 1 .. Len(group)
    <3>1. pc \in {"check", "prepare"} /\ at <= Len(group)
      BY <1>0, <1>4 DEF Check, Prepare, PrepareFails, Phase
    <3>2. at \in Nat \ {0} /\ Len(group) \in Nat
      <4>1. Len(group) \in Nat
        BY <1>0, Numbers
      <4> QED BY <1>0, <3>1, <4>1 DEF Phase
    <3> QED BY <3>1, <3>2
  <2>2. PICK w : w = group[at] /\ w \notin 1 .. Handed
    <3>1. group[at] = Handed + at /\ Handed \in Nat /\ Len(group) \in Nat
      BY <1>0, <2>1, Numbers DEF Line
    <3>2. Handed + at \notin 1 .. Handed
      BY <2>1, <3>1
    <3> QED BY <3>1, <3>2
  <2>3. \A id \in DOMAIN job : id # w => job'[id] = job[id]
    <3>1. CASE Check
      BY <2>2, <3>1 DEF Check
    <3>2. CASE Prepare
      BY <2>2, <3>2 DEF Prepare
    <3>3. CASE PrepareFails
      BY <2>2, <3>3 DEF PrepareFails
    <3> QED BY <1>4, <3>1, <3>2, <3>3
  <2>4. \A id \in 1 .. Len(job) : id <= Handed => id \in DOMAIN job /\ id # w
    <3>1. Handed \in Nat /\ DOMAIN job = 1 .. Len(job)
      BY <1>0, Numbers, Members
    <3> QED BY <2>2, <3>1
  <2> QED BY <1>1, <2>3, <2>4
<1> QED BY <1>2, <1>3, <1>4 DEF Labours

LEMMA LaboursKeepLatest ==
    ASSUME LedgerInvariant, Latest, Labours, ~Install
    PROVE  Latest' /\ UNCHANGED pins /\ life' = life
<1>0. Types /\ Line /\ Phase /\ Private
  BY DEF LedgerInvariant
<1>1. UNCHANGED <<pins, life>>
  BY DEF Labours, End, Check, Continue, Prepare, Barrier, Commit, PrepareFails, BarrierFails,
         CommitFails, flags
<1>2. current' = current
  BY <1>1 DEF pins
<1>3. CASE End \/ Check \/ Continue \/ Prepare \/ PrepareFails
  <2>1. pc # "install" /\ pc' # "install" /\ durable' = durable
    BY <1>3 DEF End, Check, Continue, Prepare, PrepareFails, writer
  <2> QED BY <1>1, <1>2, <2>1 DEF Latest, Durable
<1>4. CASE Barrier
  <2>1. pc = "check" /\ durable' = durable /\ group' = group
    BY <1>4 DEF Barrier
  <2>2. \/ pc' = "commit"
        \/ outcome' = "BUSY"
        \/ GoodJobs = {} /\ job' = job
    BY <1>4 DEF Barrier
  <2>3. current = Gen(Durable) /\ Durable' = Durable
    BY <2>1 DEF Latest, Durable
  <2>4. pc' = "install" /\ outcome' = "OK" => GoodJobs' = {}
    BY <2>1, <2>2 DEF GoodJobs
  <2> QED BY <1>1, <1>2, <2>3, <2>4 DEF Latest
<1>5. CASE BarrierFails \/ CommitFails
  <2>1. pc \in {"check", "commit"} /\ durable' = durable /\ outcome' # "OK"
    BY <1>5 DEF BarrierFails, CommitFails
  <2> QED BY <1>1, <1>2, <2>1 DEF Latest, Durable
<1>6. CASE Commit
  <2>1. pc = "commit" /\ durable' = candidate /\ candidate' = candidate
    BY <1>6 DEF Commit
  <2>2. current = Gen(Durable)
    BY <2>1 DEF Latest
  <2>3. Durable' = candidate.log
    BY <2>1 DEF Durable
  <2>4. GoodJobs # {} /\ at = Len(group) + 1
    BY <1>0, <2>1 DEF Private, Phase
  <2>5. PICK i \in GoodJobs : i \in 1 .. Len(group) /\ job[group[i]].result = "OK"
    BY <2>4 DEF GoodJobs
  <2>6. /\ group[i] = Handed + i /\ Handed \in Nat /\ Len(group) \in Nat
        /\ Len(Durable) \in Nat /\ Len(candidate.log) \in Nat
    BY <1>0, <2>5, Numbers DEF Line
  <2>7. group[i] \in Handed + 1 .. Handed + at - 1
    BY <2>4, <2>5, <2>6
  <2>8. \E k \in Len(Durable) + 1 .. Len(candidate.log) : candidate.log[k] = group[i]
    BY <1>0, <2>1, <2>5, <2>7 DEF Private, Preparing
  <2>9. Len(Durable) < Len(Durable')
    BY <2>3, <2>6, <2>8
  <2>10. current = <<"current", Len(Durable)>>
    BY <2>2 DEF Gen
  <2>11. candidate' = durable'
    BY <2>1
  <2>12. \E n \in Nat : n < Len(Durable') /\ current' = <<"current", n>>
    BY <1>2, <2>6, <2>9, <2>10
  <2>13. pc' = "install" /\ outcome' = "OK" /\ GoodJobs' # {}
    <3>1. outcome = "OK" /\ UNCHANGED <<group, job, outcome>> /\ pc' = "install"
      BY <1>0, <1>6 DEF Commit, Phase, Preparing
    <3> QED BY <2>4, <3>1 DEF GoodJobs
  <2> QED BY <1>1, <2>11, <2>12, <2>13 DEF Latest
<1> QED BY <1>3, <1>4, <1>5, <1>6 DEF Labours

LEMMA LaboursKeepPins ==
    ASSUME LedgerInvariant, Pins, Labours
    PROVE  Pins'
<1>0. Types /\ Line /\ LedgerInvariant' /\ Latest /\ life # "abort"
  BY LedgerStep DEF LedgerInvariant, Pins, Next, Works, Breaks, Labours
<1>1. CASE Install
  BY <1>1, InstallKeepsCounts, TurnedAwayKeepsCounts
<1>2. CASE ~Install
  <2>1. Latest' /\ UNCHANGED pins /\ life' = life
    BY <1>0, <1>2, LaboursKeepLatest
  <2>2. /\ pc # "complete" /\ pc' # "complete"
        /\ \A id \in 1 .. Len(job) : id <= Handed => job'[id].result = job[id].result
    BY <1>2, EarlierResults
  <2>3. UNCHANGED <<pending, group, completed, detached>>
    BY Unmoved
  <2>4. Len(job') = Len(job)
    BY <1>0, SameJobNumbers, SameLength
  <2>5. Seen' = Seen /\ Handed' = Handed
    BY <2>3, <2>4 DEF Seen, Handed, Taken
  <2>6. Answers' = Answers /\ Answers = Handed
    BY <2>2, <2>5 DEF Answers
  <2>7. Len(job') >= Len(job)
    BY <1>0, <2>4, AnswersNumber
  <2>8. Types' /\ Line'
    BY <1>0 DEF LedgerInvariant
  <2>9. Owed' = Owed
    BY <1>0, <2>2, <2>3, <2>5, <2>6, <2>7, <2>8, OwedKept
  <2> QED BY <1>0, <2>1, <2>9, PinsAside
<1> QED BY <1>1, <1>2

\* The steps that leave the published generation and every pin alone.
LEMMA LatestAside ==
    ASSUME Latest, UNCHANGED <<candidate, outcome, durable, group, current>>,
           \/ pc' = pc
           \/ pc # "install" /\ pc' # "install",
           \A i \in 1 .. Len(group) : job'[group[i]].result = job[group[i]].result
    PROVE  Latest'
<1>1. GoodJobs' = GoodJobs /\ Durable' = Durable
  BY DEF GoodJobs, Durable
<1> QED BY <1>1 DEF Latest

LEMMA HandsKeepPins ==
    ASSUME LedgerInvariant, Pins, Cancel \/ Authority \/ Shutdown
    PROVE  Pins'
<1>0. /\ Types /\ Line /\ LedgerInvariant' /\ Types' /\ Line' /\ Latest /\ life # "abort"
  BY CancelKeeps, AuthorityKeeps DEF LedgerInvariant, Pins
<1>1. /\ UNCHANGED <<pc, pending, group, candidate, outcome, durable, completed, detached, pins>>
      /\ life' # "abort"
  BY <1>0 DEF Cancel, Authority, Shutdown, writer, flags
<1>2. Len(job') = Len(job) /\ \A id \in 1 .. Len(job) : job'[id].result = job[id].result
  <2>1. CASE Authority
    <3>1. job' = job
      BY <2>1 DEF Authority
    <3> QED BY <3>1
  <2>2. CASE Cancel \/ Shutdown
    <3>1. PICK ids : job' = Cancelled(ids)
      BY <2>2 DEF Cancel, Shutdown
    <3> QED BY <1>0, <3>1, CancelledJobs
  <2> QED BY <2>1, <2>2
<1>3. Taken' = Taken /\ Handed' = Handed /\ Seen' = Seen
  BY <1>1, <1>2 DEF Taken, Handed, Seen
<1>4. Answers' = Answers
  BY <1>1, <1>3 DEF Answers
<1>5. Len(job') >= Len(job)
  BY <1>0, <1>2, AnswersNumber
<1>6. Owed' = Owed
  BY <1>0, <1>1, <1>2, <1>3, <1>4, <1>5, OwedKept
<1>7. Latest'
  <2>1. \A i \in 1 .. Len(group) : group[i] \in 1 .. Len(job)
    BY <1>0, Members
  <2>2. current' = current
    BY <1>1 DEF pins
  <2> QED BY <1>0, <1>1, <1>2, <2>1, <2>2, LatestAside
<1> QED BY <1>1, <1>6, <1>7, PinsAside

LEMMA DeliveriesKeepPins ==
    ASSUME LedgerInvariant, Pins, Reserve \/ DropDelivery \/ SubmitDelivery
    PROVE  Pins'
<1>0. /\ Types /\ Line /\ LedgerInvariant' /\ Types' /\ Line' /\ Latest /\ life # "abort"
  BY ReserveKeeps, SubmitKeeps DEF LedgerInvariant, Pins
<1>1. UNCHANGED <<pc, group, candidate, outcome, durable, completed, detached, pins, life>>
  BY DEF Reserve, DropDelivery, SubmitDelivery, writer, flags
<1>2. /\ \A id \in 1 .. Len(job) : job'[id].result = job[id].result
      /\ Len(job') >= Len(job) /\ Taken' = Taken
  <2>1. CASE Reserve \/ DropDelivery
    <3>1. job' = job /\ pending' = pending
      BY <2>1 DEF Reserve, DropDelivery
    <3>2. Len(job) \in Nat
      BY <1>0, Numbers
    <3> QED BY <3>1, <3>2 DEF Taken
  <2>2. CASE SubmitDelivery
    <3>1. /\ Len(job') = Len(job) + 1 /\ \A id \in 1 .. Len(job) : job'[id] = job[id]
          /\ pending' = Append(pending, Len(job) + 1)
      BY <2>2, Submitted
    <3>2. Len(job) \in Nat /\ Len(pending) \in Nat /\ pending \in Seq(Nat)
      BY <1>0, Numbers DEF Types
    <3>3. Len(pending') = Len(pending) + 1
      BY <3>1, <3>2
    <3> QED BY <3>1, <3>2, <3>3 DEF Taken
  <2> QED BY <2>1, <2>2
<1>3. Handed' = Handed /\ Seen' = Seen
  BY <1>1, <1>2 DEF Handed, Seen
<1>4. Answers' = Answers
  BY <1>1, <1>2, <1>3 DEF Answers
<1>5. Owed' = Owed
  BY <1>0, <1>1, <1>2, <1>3, <1>4, OwedKept
<1>6. Latest'
  <2>1. \A i \in 1 .. Len(group) : group[i] \in 1 .. Len(job)
    BY <1>0, Members
  <2>2. current' = current
    BY <1>1 DEF pins
  <2> QED BY <1>0, <1>1, <1>2, <2>1, <2>2, LatestAside
<1> QED BY <1>0, <1>1, <1>5, <1>6, PinsAside

LEMMA TakeKeepsPins ==
    ASSUME LedgerInvariant, Pins, Take
    PROVE  Pins'
<1>0. /\ Types /\ Line /\ Phase /\ LedgerInvariant' /\ Types' /\ Line' /\ Latest /\ life # "abort"
  BY TakeKeeps DEF LedgerInvariant, Pins
<1>1. /\ pc = "wait" /\ pc' = "check"
      /\ UNCHANGED <<durable, job, completed, detached, pins, life>>
  BY DEF Take, flags
<1>2. PICK n \in 1 .. Len(pending) : Len(group') = n /\ Len(pending') = Len(pending) - n
  BY GroupTaken
<1>3. Len(group) = 0
  BY <1>0, <1>1, EmptySeq DEF Phase
<1>4. Handed' = Handed
  <2>1. Len(job) \in Nat /\ Len(pending) \in Nat
    BY <1>0, Numbers
  <2> QED BY <1>1, <1>2, <1>3, <2>1 DEF Handed, Taken
<1>5. Seen' = Seen /\ Answers' = Answers
  BY <1>1, <1>4 DEF Seen, Answers
<1>6. Len(job') >= Len(job)
  BY <1>0, <1>1, AnswersNumber
<1>7. Owed' = Owed
  BY <1>0, <1>1, <1>5, <1>6, OwedKept
<1>8. Latest'
  <2>1. current' = current /\ Durable' = Durable
    BY <1>1 DEF pins, Durable
  <2> QED BY <1>0, <1>1, <2>1 DEF Latest
<1> QED BY <1>0, <1>1, <1>7, <1>8, PinsAside

LEMMA CompleteKeepsPins ==
    ASSUME LedgerInvariant, Pins, Complete \/ CompleteFails
    PROVE  Pins'
<1>0. /\ Types /\ Line /\ LedgerInvariant' /\ Types' /\ Line' /\ Latest /\ life # "abort"
  BY CompleteKeeps DEF LedgerInvariant, Pins
<1>1. /\ pc = "complete" /\ pc' = "wait" /\ completed' = completed \o group /\ group' = <<>>
      /\ UNCHANGED <<pending, durable, job, detached, pins, life>>
  BY DEF Complete, CompleteFails, flags
<1>2. Len(completed') = Len(completed) + Len(group) /\ Len(group') = 0
  <2>1. completed \in Seq(Nat) /\ group \in Seq(Nat)
    BY <1>0 DEF Types
  <2> QED BY <1>1, <2>1, ConcatProperties, EmptySeq
<1>3. /\ Len(job) \in Nat /\ Len(pending) \in Nat /\ Len(group) \in Nat /\ Len(completed) \in Nat
      /\ Taken \in Nat
  BY <1>0, Numbers
<1>4. Taken' = Taken /\ Handed' = Taken /\ Seen' = Seen
  <2>1. Taken' = Taken
    BY <1>1 DEF Taken
  <2>2. Handed' = Taken
    BY <1>2, <1>3, <2>1 DEF Handed
  <2>3. Seen' = Taken - (Len(completed) + Len(group))
    BY <1>2, <2>2 DEF Seen
  <2>4. Seen = (Taken - Len(group)) - Len(completed)
    BY DEF Seen, Handed
  <2> QED BY <1>3, <2>1, <2>2, <2>3, <2>4
<1>5. Answers' = Answers
  BY <1>1, <1>4 DEF Answers
<1>6. Len(job') >= Len(job)
  BY <1>1, <1>3
<1>7. Owed' = Owed
  BY <1>0, <1>1, <1>4, <1>5, <1>6, OwedKept
<1>8. Latest'
  <2>1. current' = current /\ Durable' = Durable
    BY <1>1 DEF pins, Durable
  <2> QED BY <1>0, <1>1, <2>1 DEF Latest
<1> QED BY <1>0, <1>1, <1>7, <1>8, PinsAside

\* A job that is polled keeps its receipts until it is freed.
LEMMA PollKeepsPins ==
    ASSUME LedgerInvariant, Pins, Poll
    PROVE  Pins'
<1>0. Types /\ Line /\ Latest /\ life # "abort"
  BY DEF LedgerInvariant, Pins
<1>1. /\ detached = NoJob /\ completed # <<>>
      /\ detached' = Head(completed) /\ completed' = Tail(completed)
      /\ UNCHANGED <<pc, pending, group, candidate, outcome, durable, job, pins, life>>
  BY DEF Poll, writer, flags
<1>2. Len(completed') = Len(completed) - 1
  <2>1. completed \in Seq(Nat)
    BY <1>0 DEF Types
  <2> QED BY <1>1, <2>1, HeadTailProperties
<1>3. detached' = Seen + 1 /\ Len(completed) > 0
  BY <1>1, Polled
<1>4. /\ Len(completed) \in Nat /\ Seen \in Nat /\ Handed \in Nat /\ Handed = Seen + Len(completed)
      /\ Len(job) \in Nat /\ Taken \in Nat /\ Len(group) \in Nat /\ Taken = Handed + Len(group)
  BY <1>0, Numbers
<1>5. Taken' = Taken /\ Handed' = Handed /\ Seen' = Seen + 1
  <2>1. Taken' = Taken /\ Handed' = Handed
    BY <1>1 DEF Taken, Handed
  <2> QED BY <1>2, <1>4, <2>1 DEF Seen
<1>6. Owed' = Owed
  <2>1. Owed = {id \in 1 .. Len(job) : /\ job[id].result = "OK"
                                       /\ \/ id = 0
                                          \/ Seen < id /\ id <= Handed
                                          \/ pc = "complete" /\ Seen < id /\ id <= Taken}
    BY <1>1 DEF Owed, NoJob
  <2>2. Owed' = {id \in 1 .. Len(job) : /\ job[id].result = "OK"
                                        /\ \/ id = Seen + 1
                                           \/ Seen + 1 < id /\ id <= Handed
                                           \/ pc = "complete" /\ Seen + 1 < id /\ id <= Taken}
    BY <1>1, <1>3, <1>5 DEF Owed
  <2>3. ASSUME NEW id \in 1 .. Len(job)
        PROVE  id \in Owed' <=> id \in Owed
    BY <1>3, <1>4, <2>1, <2>2
  <2> QED BY <2>1, <2>2, <2>3
<1>7. Latest'
  <2>1. current' = current
    BY <1>1 DEF pins
  <2> QED BY <1>0, <1>1, <2>1, LatestAside
<1> QED BY <1>0, <1>1, <1>6, <1>7, PinsAside

LEMMA PinsStep == LedgerInvariant /\ Room /\ Pins /\ [Next]_vars => Pins'
<1> SUFFICES ASSUME LedgerInvariant, Room, Pins, [Next]_vars PROVE Pins'
  OBVIOUS
<1>1. CASE Hands
  BY <1>1, HandsKeepPins, PinKeepsCounts, ReleaseKeepsCounts DEF Hands
<1>2. CASE UNCHANGED vars
  <2>1. /\ UNCHANGED <<pc, pending, group, candidate, outcome, durable, job, completed, detached, life>>
        /\ UNCHANGED pins
    BY <1>2 DEF vars, writer, flags
  <2>2. Latest /\ life # "abort"
    BY DEF Pins
  <2>3. Latest'
    <3>1. current' = current
      BY <2>1 DEF pins
    <3> QED BY <2>1, <2>2, <3>1, LatestAside
  <2>4. Owed' = Owed
    BY <2>1 DEF Owed, Seen, Handed, Taken
  <2> QED BY <2>1, <2>2, <2>3, <2>4, PinsAside
<1> QED BY <1>1, <1>2, StepKinds, TakeKeepsPins, CompleteKeepsPins, DeliveriesKeepPins, PollKeepsPins,
           FreeKeepsCounts, CloseKeepsCounts, LaboursKeepPins

-----------------------------------------------------------------------------
(* What the two accounts say.                                                 *)

AccountsInvariant == LedgerInvariant /\ Room /\ Pins

\* In every state of the writer: the room of the queue is what deliveries and jobs hold of
\* it, and the references of each generation are those of its readers, of the unread
\* receipts and of the publication.
THEOREM AccountsInvariantHolds == Spec => []AccountsInvariant
<1>1. Init => AccountsInvariant
  BY InitLedger, RoomInit, PinsInit DEF AccountsInvariant
<1>2. AccountsInvariant /\ [Next]_vars => AccountsInvariant'
  BY LedgerStep, RoomStep, PinsStep DEF AccountsInvariant
<1> QED BY <1>1, <1>2, PTL DEF Spec

\* The receipts that are owed are those of the jobs that were not read.
LEMMA UnreadIsOwed ==
    ASSUME Types, Line
    PROVE  Unread = Owed
<1>1. /\ Len(job) \in Nat /\ Seen \in Nat /\ Handed \in Nat /\ Taken \in Nat
      /\ Len(group) \in Nat /\ Len(completed) \in Nat /\ Len(pending) \in Nat
      /\ Handed = Seen + Len(completed) /\ Taken = Handed + Len(group)
      /\ Len(job) = Taken + Len(pending)
  BY Numbers
<1>2. \A id : id \in ToSet(completed) <=> id \in 1 .. Len(job) /\ Seen < id /\ id <= Handed
  BY InCompleted
<1>3. \A id : id \in ToSet(group) <=> id \in 1 .. Len(job) /\ Handed < id /\ id <= Taken
  BY InGroup
<1>4. detached # NoJob => detached \in 1 .. Len(job)
  <2>1. detached \in {0, Seen}
    BY DEF Line, NoJob
  <2> QED BY <1>1, <2>1 DEF NoJob
<1>5. \A id : id \in ToSet(completed) \/ id \in ToSet(group) => id # NoJob
  BY <1>2, <1>3 DEF NoJob
<1>6. NoJob \notin 1 .. Len(job)
  BY DEF NoJob
<1>7. \A id : id \in Unread <=>
                /\ job[id].result = "OK"
                /\ \/ id \in ToSet(completed)
                   \/ id = detached /\ id # NoJob
                   \/ pc = "complete" /\ id \in ToSet(group)
  BY <1>5 DEF Unread, IsGood
<1>8. \A id : id \in Owed <=>
                /\ id \in 1 .. Len(job) /\ job[id].result = "OK"
                /\ \/ id = detached
                   \/ Seen < id /\ id <= Handed
                   \/ pc = "complete" /\ Seen < id /\ id <= Taken
  BY DEF Owed
<1>9. \A id \in 1 .. Len(job) : Seen < id /\ id <= Taken <=>
                                   \/ Seen < id /\ id <= Handed
                                   \/ Handed < id /\ id <= Taken
  BY <1>1
<1>10. \A id : id \in Unread <=> id \in Owed
  BY <1>2, <1>3, <1>4, <1>6, <1>7, <1>8, <1>9
<1> QED BY <1>10

\* A slip is the one of a single job.
LEMMA OneSlip ==
    ASSUME NEW ids, NEW g
    PROVE  Cardinality({id \in ids : g \in {Before(id), After(id)}}) = IF g \in Slips(ids) THEN 1 ELSE 0
<1>1. CASE g \in Slips(ids)
  <2>1. PICK id \in ids : g \in {Before(id), After(id)}
    BY <1>1, SlipNames
  <2>2. {k \in ids : g \in {Before(k), After(k)}} = {id}
    BY <2>1, Names
  <2> QED BY <1>1, <2>2, FS_Singleton
<1>2. CASE g \notin Slips(ids)
  <2>1. {k \in ids : g \in {Before(k), After(k)}} = {}
    BY <1>2 DEF Slips
  <2> QED BY <1>2, <2>1, FS_EmptySet
<1> QED BY <1>1, <1>2

LEMMA PinsEntail == LedgerInvariant /\ Pins => RefsExact
<1> SUFFICES ASSUME LedgerInvariant, Pins PROVE RefsExact
  OBVIOUS
<1>0. Types /\ Line /\ Reads /\ Counts
  BY DEF LedgerInvariant, Pins
<1>1. Unread = Owed
  BY <1>0, UnreadIsOwed
<1>2. \A id \in Owed : Receipts(id) = {Before(id), After(id)}
  BY DEF Owed, Receipts
<1>3. UNION {Receipts(id) : id \in Owed} = Slips(Owed)
  <2>1. \A g : g \in UNION {Receipts(id) : id \in Owed} <=> \E id \in Owed : g \in {Before(id), After(id)}
    BY <1>2
  <2>2. \A g : g \in Slips(Owed) <=> \E id \in Owed : g \in {Before(id), After(id)}
    BY DEF Slips
  <2> QED BY <2>1, <2>2
<1>4. {readers[r] : r \in {q \in Readers : readers[q] # NoGen}} = Pinned
  BY DEF Pinned
<1>5. DOMAIN generations = Live /\ \A g \in Live : generations[g].refs = Share(g)
  BY <1>0 DEF Counts
<1>6. DOMAIN generations = {current} \cup {readers[r] : r \in {q \in Readers : readers[q] # NoGen}}
                             \cup UNION {Receipts(id) : id \in Unread}
  BY <1>1, <1>3, <1>4, <1>5 DEF Live
<1>7. ASSUME NEW g \in Live PROVE Holders(g) = Share(g)
  <2>1. PICK c : c = Cardinality({id \in Unread : g \in {Before(id), After(id)}})
    OBVIOUS
  <2>2. PICK k \in Nat : k = Cardinality(Pinners(g))
    BY PinnersFinite
  <2>3. c = IF g \in Slips(Owed) THEN 1 ELSE 0
    BY <1>1, <2>1, OneSlip
  <2>4. Holders(g) = (IF g = current THEN 1 ELSE 0) + k + c
    BY <2>1, <2>2 DEF Holders
  <2>5. CASE g \in Slips(Owed)
    <3>1. g # current /\ Pinners(g) = {}
      BY <1>0, <2>5, SlipsUnpinned
    <3>2. k = 0 /\ c = 1
      BY <2>2, <2>3, <2>5, <3>1, FS_EmptySet
    <3> QED BY <2>4, <2>5, <3>1, <3>2 DEF Share
  <2>6. CASE g \notin Slips(Owed)
    BY <2>2, <2>3, <2>4, <2>6 DEF Share
  <2> QED BY <2>5, <2>6
<1> QED BY <1>5, <1>6, <1>7 DEF RefsExact

\* Nothing a reader or an unread receipt can reach is ever given to the reclaimer and
\* nothing stays pinned for good; the queue is never overdrawn and no room in it is lost.
THEOREM AccountsAlwaysBalance == Spec => []Accounts
<1>1. AccountsInvariant => Accounts
  BY PinsEntail DEF AccountsInvariant, Room, Accounts
<1> QED BY <1>1, AccountsInvariantHolds, PTL

\* A shutdown finds nothing left over, whatever was queued, held or pinned when it began.
THEOREM ShutdownNeverAborts == Spec => []NeverAborts
<1>1. AccountsInvariant => NeverAborts
  BY DEF AccountsInvariant, Pins, NeverAborts
<1> QED BY <1>1, AccountsInvariantHolds, PTL

\* Every live generation has a holder.
LEMMA Held ==
    ASSUME Pins, NEW g \in Live
    PROVE  Share(g) \in Nat \ {0}
<1>1. PICK k \in Nat : k = Cardinality(Pinners(g))
  BY PinnersFinite
<1>2. CASE g \in Slips(Owed) \/ g = current
  BY <1>1, <1>2 DEF Share
<1>3. CASE g \notin Slips(Owed) /\ g # current
  <2>1. PICK r \in Readers : readers[r] = g
    BY <1>3 DEF Live, Pinned
  <2>2. k # 0
    BY <1>1, <2>1, PinnersNone
  <2> QED BY <1>1, <1>3, <2>2 DEF Share
<1> QED BY <1>2, <1>3

LEMMA InvariantTypes == AccountsInvariant => TypeOK
<1> SUFFICES ASSUME AccountsInvariant PROVE TypeOK
  OBVIOUS
<1>0. Types /\ Line /\ Telling /\ Withdrawals /\ LedgerInvariant /\ Room /\ Pins /\ Reads /\ Counts
  BY DEF AccountsInvariant, LedgerInvariant, Pins
<1>1. DOMAIN job = 1 .. Len(job) /\ \A id \in 1 .. Len(job) : job[id] \in JobRecords
  BY <1>0, Members
<1>2. /\ Len(job) \in Nat /\ Seen \in Nat /\ Handed \in Nat /\ Taken \in Nat
      /\ Len(group) \in Nat /\ Len(completed) \in Nat /\ Len(pending) \in Nat
      /\ Handed = Seen + Len(completed) /\ Taken = Handed + Len(group)
      /\ Len(job) = Taken + Len(pending)
  BY <1>0, Numbers
<1>3. ASSUME NEW w \in Seq(Nat), \A i \in 1 .. Len(w) : w[i] \in 1 .. Len(job)
      PROVE  w \in Seq(DOMAIN job)
  <2>1. w \in [1 .. Len(w) -> DOMAIN job] /\ Len(w) \in Nat
    BY <1>1, <1>3, LenProperties
  <2> QED BY <2>1, FunctionSeq
<1>4. pending \in Seq(DOMAIN job)
  <2>1. pending \in Seq(Nat) /\ \A i \in 1 .. Len(pending) : pending[i] = Taken + i
    BY <1>0 DEF Types, Line
  <2>2. \A i \in 1 .. Len(pending) : pending[i] \in 1 .. Len(job)
    BY <1>2, <2>1
  <2> QED BY <1>3, <2>1, <2>2
<1>5. group \in Seq(DOMAIN job)
  <2>1. group \in Seq(Nat) /\ \A i \in 1 .. Len(group) : group[i] \in 1 .. Len(job)
    BY <1>0, Members DEF Types
  <2> QED BY <1>3, <2>1
<1>6. completed \in Seq(DOMAIN job)
  <2>1. completed \in Seq(Nat) /\ \A i \in 1 .. Len(completed) : completed[i] = Seen + i
    BY <1>0 DEF Types, Line
  <2>2. \A i \in 1 .. Len(completed) : completed[i] \in 1 .. Len(job)
    BY <1>2, <2>1
  <2> QED BY <1>3, <2>1, <2>2
<1>7. polled.told \in Seq(DOMAIN job)
  <2>1. /\ polled.told \in Seq(Nat) /\ Len(polled.told) <= Len(Durable)
        /\ \A i \in 1 .. Len(polled.told) : polled.told[i] = Durable[i]
    BY <1>0 DEF Types, Telling
  <2>2. \A i \in 1 .. Len(Durable) : Durable[i] \in 1 .. Len(job)
    BY <1>0, LogMembers
  <2>3. Len(polled.told) \in Nat /\ Len(Durable) \in Nat
    BY <1>0, <2>1, Numbers, LenProperties
  <2>4. \A i \in 1 .. Len(polled.told) : polled.told[i] \in 1 .. Len(job)
    BY <2>1, <2>2, <2>3
  <2> QED BY <1>3, <2>1, <2>4
<1>8. polled.refused \subseteq DOMAIN job
  BY <1>0, <1>1, <1>2 DEF Telling
<1>9. \A id \in DOMAIN job : job[id].req \in Requests /\ job[id].result \in Results
  BY <1>1 DEF JobRecords, Asked
<1>10. detached \in DOMAIN job \cup {NoJob}
  <2>1. detached \in {0, Seen}
    BY <1>0 DEF Line, NoJob
  <2> QED BY <1>1, <1>2, <2>1 DEF NoJob
<1>11. generations \in [Live -> Generations] /\ \A g \in Live : generations[g].refs \in Nat \ {0}
  BY <1>0, Held DEF Counts
<1>12. current \in DOMAIN generations
  BY <1>11 DEF Live
<1>13. \A r \in Readers : readers[r] \in DOMAIN generations \cup {NoGen}
  BY <1>11 DEF Live, Pinned
<1>14. envelopes \subseteq DOMAIN job /\ queue \in Nat /\ delivery \in Nat
  BY <1>0, <1>1, RoomNumbers DEF Room
<1>15. revoked \subseteq DOMAIN job
  BY <1>0, <1>1 DEF Withdrawals
<1>16. /\ pc \in {"wait", "check", "prepare", "commit", "install", "complete", "ended"}
       /\ at \in Nat /\ spins \in 0 .. MaxContinue
       /\ outcome \in {"OK", "BUSY", "LIMIT", "ERROR"}
       /\ authority \in 1 .. MaxAuthority + 1
       /\ {admission, failed, stopping} \subseteq BOOLEAN
       /\ life \in {"up", "stopping", "closed", "abort"}
  BY <1>0 DEF Types
<1>17. {pending, group, completed, polled.told} \subseteq Seq(DOMAIN job)
  BY <1>4, <1>5, <1>6, <1>7
<1>18. \A g \in DOMAIN generations : generations[g].refs \in Nat \ {0}
  BY <1>11
<1> QED BY <1>8, <1>9, <1>10, <1>12, <1>13, <1>14, <1>15, <1>16, <1>17, <1>18 DEF TypeOK

\* Every variable of the writer keeps its type.
THEOREM WriterTypeCorrect == Spec => []TypeOK
<1> QED BY InvariantTypes, AccountsInvariantHolds, PTL
=============================================================================
