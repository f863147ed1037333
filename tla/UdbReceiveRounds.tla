-------------------------- MODULE UdbReceiveRounds --------------------------
(* Further proofs about UdbReceive, on the invariant of UdbReceiveProofs: what the *)
(* receipts of a round stand for.  A block that was acknowledged is durable; READY  *)
(* is served from exactly one complete round; a round that is over has left         *)
(* nothing behind; a controller is ready with exactly its durable pending roots.    *)
(*                                                                                *)
(* The builders of a round come before its PROMOTE and both before its ABORTs, of   *)
(* which one is under way at a time; every revision of the authority has one round  *)
(* that may still build.                                                          *)
EXTENDS UdbReceiveProofs

-----------------------------------------------------------------------------
(* Jobs and their receipts.                                                   *)

Builders == {"BEGIN", "PUT", "END", "REUSE"}
Deliverers == {"END", "REUSE"}
Closers == {"PROMOTE", "ABORT"}

Kind(id) == job[id].req.kind
Owner(id) == job[id].req.owner

\* The result closes the controller of its round.
Takes(id) == job[id].result \in {"OK", "STAGED"}

\* Jobs up to these numbers were reported to the main thread, were prepared, and are in
\* the durable root set or will never be.
Told == Handed - Len(completed)
Worked == IF pc \in Preparing THEN Handed + at - 1 ELSE Taken
Known == IF Recorded \/ pc = "complete" THEN Taken ELSE Handed

\* Receipts wait in the order of their jobs; nothing is known of a job before its turn.
Receiving ==
    /\ completed \in Seq(Nat) /\ 0 <= Told
    /\ \A i \in 1 .. Len(completed) : completed[i] = Told + i
    /\ \A id \in 1 .. Len(job) :
          /\ id > Worked => job[id].result = "none"
          /\ id > Taken => ~job[id].committing
    /\ pc = "commit" => at = Len(group) + 1
    /\ {admission, failed} \subseteq BOOLEAN /\ stopping = FALSE /\ admission = ~failed

-----------------------------------------------------------------------------
(* Rounds and their jobs.                                                     *)

\* PROMOTE is asked for once, when every block is durable; ABORT once at a time, of a
\* round that has been given up.
Pointed(id) ==
    LET o == Owner(id)
        b == job[id].req.block
    IN  /\ Kind(id) # "ABORT" /\ rounds[o].phase = "live" => job[id].rev = rounds[o].rev
        /\ Kind(id) = "PROMOTE" => rounds[o].promote = id
        /\ Kind(id) = "ABORT" => /\ rounds[o].phase \in {"abandoned", "gone"}
                                 /\ id > Told => rounds[o].abort = id
        /\ Kind(id) \in Deliverers =>
              rounds[o].step[b] \in (IF id > Told THEN {"end", "reuse"} ELSE {"end", "reuse", "durable"})

\* Of two jobs of a round: builders come first, ABORTs last, and one job delivers a block.
Ordered(id, other) ==
    Owner(id) = Owner(other) =>
        /\ Kind(id) \in Builders /\ Kind(other) = "PROMOTE" => id < other
        /\ Kind(id) # "ABORT" /\ Kind(other) = "ABORT" => id < other
        /\ Kind(id) \in Deliverers /\ Kind(other) \in Deliverers /\ job[id].req.block = job[other].req.block
              => id = other

\* A durable block was reported by the job that delivered it.
Delivered(o, b) ==
    \E id \in 1 .. Told : /\ Kind(id) \in Deliverers /\ Owner(id) = o /\ job[id].req.block = b
                          /\ job[id].result = "OK"

Course ==
    /\ \A id \in 1 .. Len(job) : Pointed(id)
    /\ \A id, other \in 1 .. Len(job) : Ordered(id, other)
    /\ \A o \in Owners, b \in Blocks :
          /\ rounds[o].promote # NoJob => rounds[o].step[b] = "durable"
          /\ rounds[o].step[b] = "durable" => Delivered(o, b)

-----------------------------------------------------------------------------
(* Authority.                                                                 *)

\* The round that may still build.
Speaking(o) == rounds[o].phase = "live" /\ rounds[o].wire = reconcile /\ rounds[o].rev = authority

Current(id) == Kind(id) # "ABORT" /\ job[id].rev = authority

Revisions ==
    /\ \A id, other \in 1 .. Len(job) : id <= other => job[id].rev <= job[other].rev
    /\ \A id \in 1 .. Len(job) : job[id].rev <= authority
    /\ \A o, p \in Owners : Speaking(o) /\ Speaking(p) => o = p
    /\ \A id \in 1 .. Len(job) : Current(id) /\ reconcile # 0 => Speaking(Owner(id))
    /\ \A id \in 1 .. Len(job) :
          Current(id) /\ reconcile = 0 /\ id > Handed => job[id].cancelled \/ job[id].committing

\* In the group of an ABORT no other job of its round does anything.
Idle(id) ==
    /\ job[id].result \in {"none", "BUSY"}
    /\ job[id].cancelled \/ job[id].rev < authority
    /\ pc = "prepare" => id # Handed + at

Apart ==
    \A id, other \in Handed + 1 .. Taken :
        Owner(id) = Owner(other) /\ Kind(id) # "ABORT" /\ Kind(other) = "ABORT" => Idle(id)

-----------------------------------------------------------------------------
(* Root sets and what the jobs up to number n made of them.                   *)

Good(id) == job[id].result = "OK"

\* The blocks a live round delivered are there until its promotion ...
Covers(root, n) ==
    \A id \in 1 .. n :
        /\ Kind(id) \in Deliverers /\ Good(id) /\ rounds[Owner(id)].phase = "live"
        /\ rounds[Owner(id)].promote \notin ToSet(root.log)
        => job[id].req.block \in Mask(root.stages[Owner(id)])

\* ... a round that was closed has none ...
Closed(root, n) ==
    \A id \in 1 .. n : Kind(id) \in Closers /\ Takes(id) => root.stages[Owner(id)] = NoStage

\* ... and the store is what the last promotion announced.
Promotion(id) == Kind(id) = "PROMOTE" /\ Good(id)

Announces(root, o) ==
    root.blocks = AnnouncedBlocks(rounds[o].wire) /\ Lineage(root) = Lineage(Promise(o))

Served(root, n) ==
    \A id \in 1 .. n :
        Promotion(id) /\ (\A other \in id + 1 .. n : ~Promotion(other)) => Announces(root, Owner(id))

Holds(root, n) == Covers(root, n) /\ Closed(root, n) /\ Served(root, n)

\* Jobs of the group that were prepared, and those of round o among them.
Tried == Handed + 1 .. Worked
Of(o) == {id \in Tried : Owner(id) = o}

\* How the candidate of a group differs from the root set it started from.
Differs ==
    /\ \A o \in Owners :
          /\ (\A id \in Of(o) : ~Good(id)) => candidate.stages[o] = durable.stages[o]
          /\ (\A id \in Of(o) : Good(id) => Kind(id) \notin Builders) =>
                candidate.stages[o] \in {durable.stages[o], NoStage}
    /\ (\A id \in Tried : ~Promotion(id)) =>
          candidate.blocks = durable.blocks /\ Lineage(candidate) = Lineage(durable)

Sets ==
    /\ Holds(durable, Known)
    /\ pc \in Preparing => Holds(candidate, Worked) /\ Differs
    /\ \A id \in 1 .. Len(job) :
          /\ Promotion(id) => Exact(id)
          /\ Kind(id) \in Closers /\ job[id].result = "STAGED" => durable.stages[Owner(id)] = NoStage

-----------------------------------------------------------------------------
(* Controllers.                                                               *)

Healthy(c) == c # NoStage /\ ~c.failed

\* The jobs of the group leave the controller of o as it is.
Leaves(o) ==
    \A id \in Of(o) : /\ ~(Kind(id) \in Closers /\ Takes(id))
                      /\ job[id].result \notin Negative
                      /\ pc = "install" /\ outcome # "OK" => ~Good(id)

Control ==
    /\ \A o \in Owners :
          /\ own[o] = NoStage => /\ durable.stages[o] = NoStage
                                 /\ pc \in Preparing => candidate.stages[o] = NoStage
          /\ pc \in Preparing /\ Healthy(own[o]) /\ (\A id \in Of(o) : ~(Kind(id) \in Closers /\ Good(id)))
                => own[o].ready = Mask(candidate.stages[o])
          /\ pc \notin Preparing /\ Healthy(own[o]) /\ Leaves(o) => own[o].ready = Mask(durable.stages[o])
    /\ \A id \in 1 .. Handed : Kind(id) \in Closers /\ Takes(id) => own[Owner(id)] = NoStage

\* Nothing builds for a round that is over.
Over ==
    ~failed => \A o \in Owners :
        rounds[o].phase = "gone" =>
            own[o] = NoStage /\ \A id \in Handed + 1 .. Len(job) : Owner(id) = o => Kind(id) = "ABORT"

-----------------------------------------------------------------------------
(* READY.                                                                     *)

Bell ==
    ready =>
        /\ reconcile = 0
        /\ \A id \in Handed + 1 .. Len(job) : Kind(id) # "PROMOTE"
        /\ view = Lineage(durable)
        /\ \E o \in Owners : rounds[o].phase = "gone" /\ Born(o) /\ Announces(durable, o)

RoundsInvariant == Receiving /\ Course /\ Revisions /\ Apart /\ Sets /\ Control /\ Over /\ Bell

-----------------------------------------------------------------------------
(* Facts every step needs.                                                    *)

LEMMA Places ==
    ASSUME FullInvariant, Receiving
    PROVE  /\ ReceiveInvariant /\ Types /\ Line /\ Logs /\ Words /\ Room /\ Opened
           /\ Len(job) \in Nat /\ Len(group) \in Nat /\ Len(completed) \in Nat /\ at \in Nat
           /\ DOMAIN job = 1 .. Len(job) /\ authority \in Nat
           /\ Told \in Nat /\ Handed \in Nat /\ Worked \in Nat /\ Taken \in Nat /\ Known \in {Handed, Taken}
           /\ Told <= Handed /\ Handed <= Worked /\ Worked <= Taken /\ Taken <= Len(job)
           /\ Taken = Handed + Len(group) /\ Handed = Told + Len(completed)
<1>1. ReceiveInvariant /\ Types /\ Line /\ Logs /\ Words /\ Room /\ Opened
  BY DEF FullInvariant, ReceiveInvariant, Words
<1>2. /\ Len(job) \in Nat /\ Len(pending) \in Nat /\ Len(group) \in Nat /\ Taken \in Nat /\ Handed \in Nat
      /\ Len(job) = Taken + Len(pending) /\ Taken = Handed + Len(group) /\ DOMAIN job = 1 .. Len(job)
  BY <1>1, Numbers
<1>3. Len(completed) \in Nat /\ at \in Nat /\ authority \in Nat
  BY <1>1, RoomNumbers DEF Types
<1>4. 0 <= Told /\ Told = Handed - Len(completed)
  BY DEF Receiving, Told
<1>5. pc \in Preparing => at \in 1 .. Len(group) + 1
  BY <1>1 DEF Line
<1>6. Worked = (IF pc \in Preparing THEN Handed + at - 1 ELSE Taken)
  BY DEF Worked
<1>7. Worked \in Nat /\ Handed <= Worked /\ Worked <= Taken
  BY <1>2, <1>3, <1>5, <1>6
<1>8. Told \in Nat /\ Told <= Handed /\ Taken <= Len(job) /\ Handed = Told + Len(completed)
  BY <1>2, <1>3, <1>4
<1>9. Known \in {Handed, Taken}
  BY DEF Known
<1> QED BY <1>1, <1>2, <1>3, <1>7, <1>8, <1>9

LEMMA Speech ==
    ASSUME ReceiveInvariant, NEW id \in 1 .. Len(job)
    PROVE  /\ job[id] \in JobRecords /\ Kind(id) \in StageKinds /\ Owner(id) \in Owners /\ Born(Owner(id))
           /\ job[id].rev \in Nat
           /\ Kind(id) \in Builders => job[id].req.block \in Blocks
<1>1. Types /\ Line /\ Words
  BY DEF ReceiveInvariant
<1>2. job[id] \in JobRecords /\ job[id].req \in Asked /\ Speaks(job[id].req)
  BY <1>1, Members, RequestsSpeak
<1>3. job[id].rev \in Nat
  BY <1>2 DEF JobRecords
<1> QED BY <1>2, <1>3, Request DEF Speaks, Kind, Owner, Builders

-----------------------------------------------------------------------------
(* The writer: what is asked for and by whom is not its business.             *)

Pursued(id) ==
    /\ job'[id].req = job[id].req /\ job'[id].rev = job[id].rev /\ job'[id].cancelled = job[id].cancelled
    /\ job[id].committing => job'[id].committing
    /\ id <= Handed => job'[id].result = job[id].result

WriterWork ==
    /\ UNCHANGED <<rounds, reconcile, ready, view, authority>> /\ Len(job') = Len(job)
    /\ \A id \in 1 .. Len(job) : Pursued(id)
    /\ Told' = Told /\ Handed <= Handed' /\ Handed' \in Nat

LEMMA CourseWriter ==
    ASSUME FullInvariant, RoundsInvariant, WriterWork
    PROVE  Course'
<1>0. Receiving /\ Course
  BY DEF RoundsInvariant
<1>1. /\ \A id \in 1 .. Len(job) : Kind(id)' = Kind(id) /\ Owner(id)' = Owner(id)
                                   /\ job'[id].req = job[id].req /\ job'[id].rev = job[id].rev
      /\ UNCHANGED rounds /\ Told' = Told /\ Len(job') = Len(job)
  BY DEF WriterWork, Pursued, Kind, Owner
<1>2. Told \in Nat /\ Handed \in Nat /\ Told <= Handed /\ Len(job) \in Nat /\ Handed <= Len(job)
  BY <1>0, Places
<1>3. \A id \in 1 .. Told : job'[id].result = job[id].result
  BY <1>2 DEF WriterWork, Pursued
<1>4. ASSUME NEW id \in 1 .. Len(job) PROVE Pointed(id)'
  <2>1. Pointed(id)
    BY <1>0 DEF Course
  <2> QED BY <1>1, <2>1 DEF Pointed
<1>5. ASSUME NEW id \in 1 .. Len(job), NEW other \in 1 .. Len(job) PROVE Ordered(id, other)'
  <2>1. Ordered(id, other)
    BY <1>0 DEF Course
  <2> QED BY <1>1, <2>1 DEF Ordered
<1>6. ASSUME NEW o \in Owners, NEW b \in Blocks, Delivered(o, b) PROVE Delivered(o, b)'
  <2>1. PICK id \in 1 .. Told : /\ Kind(id) \in Deliverers /\ Owner(id) = o /\ job[id].req.block = b
                                /\ job[id].result = "OK"
    BY <1>6 DEF Delivered
  <2>2. id \in 1 .. Len(job)
    BY <1>2
  <2>3. id \in 1 .. Told' /\ Kind(id)' = Kind(id) /\ Owner(id)' = Owner(id)
        /\ job'[id].req = job[id].req /\ job'[id].result = job[id].result
    BY <1>1, <1>3, <2>2
  <2> QED BY <2>1, <2>3 DEF Delivered, Deliverers
<1>7. \A o \in Owners, b \in Blocks :
          /\ rounds'[o].promote # NoJob => rounds'[o].step[b] = "durable"
          /\ rounds'[o].step[b] = "durable" => Delivered(o, b)'
  BY <1>0, <1>1, <1>6 DEF Course
<1> QED BY <1>1, <1>4, <1>5, <1>7 DEF Course

LEMMA RevisionsWriter ==
    ASSUME FullInvariant, RoundsInvariant, WriterWork
    PROVE  Revisions'
<1>0. Receiving /\ Revisions
  BY DEF RoundsInvariant
<1>1. /\ \A id \in 1 .. Len(job) : /\ Kind(id)' = Kind(id) /\ Owner(id)' = Owner(id)
                                   /\ job'[id].rev = job[id].rev /\ job'[id].cancelled = job[id].cancelled
                                   /\ job[id].committing => job'[id].committing
      /\ UNCHANGED <<rounds, reconcile, authority>> /\ Len(job') = Len(job)
      /\ Handed <= Handed' /\ Handed' \in Nat
  BY DEF WriterWork, Pursued, Kind, Owner
<1>2. Handed \in Nat /\ Len(job) \in Nat
  BY <1>0, Places
<1>3. \A o : Speaking(o)' <=> Speaking(o)
  BY <1>1 DEF Speaking
<1>4. \A id \in 1 .. Len(job) : Current(id)' <=> Current(id)
  BY <1>1 DEF Current
<1>5. /\ \A id, other \in 1 .. Len(job) : id <= other => job'[id].rev <= job'[other].rev
      /\ \A id \in 1 .. Len(job) : job'[id].rev <= authority
  BY <1>0, <1>1 DEF Revisions
<1>6. \A o, p \in Owners : Speaking(o)' /\ Speaking(p)' => o = p
  BY <1>0, <1>3 DEF Revisions
<1>7. \A id \in 1 .. Len(job) : Current(id)' /\ reconcile # 0 => Speaking(Owner(id))'
  BY <1>0, <1>1, <1>3, <1>4 DEF Revisions
<1>8. ASSUME NEW id \in 1 .. Len(job), Current(id)', reconcile = 0, id > Handed'
      PROVE  job'[id].cancelled \/ job'[id].committing
  BY <1>0, <1>1, <1>2, <1>4, <1>8 DEF Revisions
<1> QED BY <1>1, <1>5, <1>6, <1>7, <1>8 DEF Revisions

-----------------------------------------------------------------------------
(* What a job does to the pending roots and to the controller of its round.   *)

Owned == [Owners -> Controllers \cup {NoStage}]
Ready(c) == IF c = NoStage THEN {} ELSE c.ready

LEMMA Stage == NoStage \notin Heads /\ NoStage \notin Controllers
BY ReceiveAssumption

\* The outcome a of request r, on the root set base and the controllers owners.
Shape(r, base, owners, a) ==
    LET o == r.owner
    IN  /\ \A p \in Owners : p # o => a.root.stages[p] = base.stages[p] /\ a.own[p] = owners[p]
        /\ a.result # "OK" => a.root = base
        /\ a.result = "OK" => r.kind \in Deliverers \cup Closers
        /\ a.result = "OK" /\ r.kind \in Deliverers =>
              /\ \A x : x \in Mask(a.root.stages[o]) <=> x \in Mask(base.stages[o]) \cup {r.block}
              /\ owners[o] = NoStage \/ Healthy(owners[o])
              /\ a.own[o] # NoStage /\ a.own[o].ready = Ready(owners[o]) \cup {r.block}
        /\ a.result = "OK" /\ r.kind \in Closers => a.root.stages[o] = NoStage /\ a.own = owners
        /\ a.result = "STAGED" /\ r.kind \in Closers => r.kind = "ABORT" /\ base.stages[o] = NoStage
        /\ a.result # "OK" /\ Healthy(a.own[o]) =>
              /\ owners[o] = NoStage \/ Healthy(owners[o])
              /\ a.own[o].ready = Ready(owners[o])
        /\ a.own[o] = NoStage => owners[o] = NoStage
        /\ a.own[o] # NoStage /\ owners[o] = NoStage => r.kind \in {"BEGIN", "REUSE"}

LEMMA SpoiledShape ==
    ASSUME NEW owners \in Owned, NEW o \in Owners
    PROVE  LET next == Spoiled(owners, o)
           IN  /\ next \in Owned /\ \A p \in Owners : p # o => next[p] = owners[p]
               /\ next[o] = NoStage <=> owners[o] = NoStage
               /\ ~Healthy(next[o])
<1> DEFINE next == Spoiled(owners, o)
<1>1. CASE owners[o] = NoStage
  BY <1>1 DEF Spoiled, Healthy
<1>2. CASE owners[o] # NoStage
  <2> DEFINE c == [owners[o] EXCEPT !.failed = TRUE]
  <2>1. owners[o] \in Controllers
    BY <1>2 DEF Owned
  <2>2. c \in Controllers /\ c.failed = TRUE
    BY <2>1 DEF Controllers
  <2>3. next = [owners EXCEPT ![o] = c]
    BY <1>2 DEF Spoiled
  <2> HIDE DEF c, next
  <2>4. next \in Owned /\ next[o] = c /\ \A p \in Owners : p # o => next[p] = owners[p]
    BY <2>2, <2>3 DEF Owned
  <2>5. c # NoStage
    BY <2>2, Stage
  <2>6. next \in Owned /\ (\A p \in Owners : p # o => next[p] = owners[p])
        /\ (next[o] = NoStage <=> owners[o] = NoStage) /\ ~Healthy(next[o])
    BY <1>2, <2>2, <2>4, <2>5 DEF Healthy
  <2> QED BY <2>6 DEF next
<1> QED BY <1>1, <1>2

\* A refusal spoils the controller, whatever was entered there before it.
LEMMA RefusalShape ==
    ASSUME NEW r \in Asked, NEW base, NEW owners \in Owned, NEW made \in Owned,
           \A p \in Owners : p # r.owner => made[p] = owners[p],
           made[r.owner] = NoStage => owners[r.owner] = NoStage,
           made[r.owner] # NoStage /\ owners[r.owner] = NoStage => r.kind \in {"BEGIN", "REUSE"},
           NEW a \in Failing("REJECTED", base, made, r.owner)
    PROVE  Shape(r, base, owners, a)
<1>1. a.result = "REJECTED" /\ a.root = base /\ a.own = Spoiled(made, r.owner)
  BY DEF Failing, Answer
<1>2. r.owner \in Owners
  BY Request
<1>3. /\ \A p \in Owners : p # r.owner => a.own[p] = made[p]
      /\ a.own[r.owner] = NoStage <=> made[r.owner] = NoStage
      /\ ~Healthy(a.own[r.owner])
  BY <1>1, <1>2, SpoiledShape
<1> QED BY <1>1, <1>3 DEF Shape

LEMMA AdmittedShape ==
    ASSUME Opened, NEW r \in Asked, Speaks(r), NEW owners, Instructed(owners), Admits(owners, r)
    PROVE  LET made == Admitted(owners, r)
           IN  /\ made \in Owned /\ \A p \in Owners : p # r.owner => made[p] = owners[p]
               /\ made[r.owner] \in Controllers /\ Healthy(made[r.owner])
               /\ owners[r.owner] = NoStage \/ Healthy(owners[r.owner])
               /\ made[r.owner].ready = Ready(owners[r.owner])
<1> DEFINE made == Admitted(owners, r)
<1>1. Instructed(made) /\ ControllerOf(r.owner, made[r.owner]) /\ r.owner \in Owners /\ owners \in Owned
  BY Admission, Request DEF Instructed, Owned
<1>2. made \in Owned /\ made[r.owner] \in Controllers /\ made[r.owner] # NoStage
  BY <1>1, Stage DEF Instructed, Owned, ControllerOf
<1>3. CASE owners[r.owner] # NoStage
  <2>1. made = owners /\ ~owners[r.owner].failed
    BY <1>3 DEF Admitted, Admits
  <2> QED BY <1>2, <1>3, <2>1 DEF Healthy, Ready
<1>4. CASE owners[r.owner] = NoStage
  <2>1. made = [owners EXCEPT ![r.owner] = Controller(r)]
    BY <1>4 DEF Admitted
  <2>2. made[r.owner] = Controller(r) /\ \A p \in Owners : p # r.owner => made[p] = owners[p]
    BY <1>1, <2>1 DEF Owned
  <2>3. Controller(r).failed = FALSE /\ Controller(r).ready = {}
    BY DEF Controller
  <2> QED BY <1>2, <1>4, <2>2, <2>3 DEF Healthy, Ready
<1> QED BY <1>3, <1>4

\* A block saved joins the pending roots of its round.
LEMMA SavedMask ==
    ASSUME Opened, NEW base, Faithful(base), NEW o \in Owners, Born(o), NEW b \in Blocks,
           NEW lineage, lineage = Lineage(Promise(o)), NEW digest, digest = Promise(o).blocks[b].digest,
           NEW root, root = Saved(base, o, lineage, b, digest)
    PROVE  /\ \A c : c \in Mask(root.stages[o]) <=> c \in Mask(base.stages[o]) \cup {b}
           /\ \A p \in Owners : p # o => root.stages[p] = base.stages[p]
<1>1. root = Saved(base, o, Lineage(Promise(o)), b, Promise(o).blocks[b].digest)
  OBVIOUS
<1>2. /\ HeadOf(o, root.stages[o]) /\ root = [base EXCEPT !.stages[o] = root.stages[o]]
      /\ \A c : c \in DOMAIN root.stages[o].roots <=> c \in Mask(base.stages[o]) \cup {b}
  BY <1>1, SavedHead
<1>3. base.stages \in [Owners -> Heads \cup {NoStage}] /\ root.stages = [base.stages EXCEPT ![o] = root.stages[o]]
  BY <1>2 DEF Faithful, Roots
<1>4. \A p \in Owners : p # o => root.stages[p] = base.stages[p]
  BY <1>3
<1>5. root.stages[o] # NoStage
  BY <1>2, Stage DEF HeadOf
<1> QED BY <1>2, <1>4, <1>5 DEF Mask

LEMMA BeginShape ==
    ASSUME Opened, NEW r \in Asked, Speaks(r), NEW base, Faithful(base), NEW owners, Instructed(owners),
           r.kind \in {"BEGIN", "REUSE"}, NEW a \in BeginOutcomes(r, base, owners)
    PROVE  Shape(r, base, owners, a)
<1> DEFINE made == Admitted(owners, r)
           c == made[r.owner]
           spec == With(c.spec, r.block, [count |-> r.count, digest |-> r.digest])
           next == [made EXCEPT ![r.owner].spec = spec]
           opened == [c EXCEPT !.spec = spec]
<1>1. r.owner \in Owners /\ r.block \in Blocks /\ owners \in Owned /\ Born(r.owner)
      /\ r.digest = Promise(r.owner).blocks[r.block].digest /\ "BEGIN" # "REUSE"
  BY Request DEF Speaks, Instructed, Owned
<1>2. CASE ~Admits(owners, r)
  <2>1. a \in Failing("REJECTED", base, owners, r.owner)
    BY <1>2 DEF BeginOutcomes
  <2> QED BY <1>1, <2>1, RefusalShape
<1>3. CASE Admits(owners, r)
  <2>1. /\ made \in Owned /\ c \in Controllers /\ Healthy(c) /\ \A p \in Owners : p # r.owner => made[p] = owners[p]
        /\ owners[r.owner] = NoStage \/ Healthy(owners[r.owner])
        /\ c.ready = Ready(owners[r.owner])
    BY <1>3, AdmittedShape
  <2>2. ControllerOf(r.owner, c)
    BY Admission
  <2>3. ControllerOf(r.owner, opened)
    BY <2>2, Opens
  <2>4. /\ opened \in Controllers /\ opened.ready = c.ready /\ opened.failed = c.failed /\ opened.rows = c.rows
        /\ r.block \in DOMAIN opened.spec
    <3>1. opened \in Controllers
      BY <2>3 DEF ControllerOf
    <3>2. opened.ready = c.ready /\ opened.failed = c.failed /\ opened.rows = c.rows /\ opened.spec = spec
      BY <2>1 DEF Controllers
    <3>3. r.block \in DOMAIN spec
      BY DEF With
    <3> QED BY <3>1, <3>2, <3>3
  <2>5. next = [made EXCEPT ![r.owner] = opened]
    OBVIOUS
  <2> HIDE DEF made, opened
  <2>6. next \in Owned /\ next[r.owner] = opened /\ \A p \in Owners : p # r.owner => next[p] = owners[p]
    BY <1>1, <2>1, <2>4, <2>5 DEF Owned
  <2> HIDE DEF next
  <2>7. CASE a \in Failing("REJECTED", base, made, r.owner)
    BY <1>1, <2>1, <2>7, RefusalShape, Stage
  <2>8. CASE a \in Failing("REJECTED", base, next, r.owner)
    BY <1>1, <2>4, <2>6, <2>8, RefusalShape, Stage
  <2>9. CASE r.kind = "BEGIN" /\ a = Answer("STAGED", base, [next EXCEPT ![r.owner].rows = With(c.rows, r.block, 0)])
    <3> DEFINE d == [opened EXCEPT !.rows = With(opened.rows, r.block, 0)]
    <3>1. ControllerOf(r.owner, d)
      BY <2>3, <2>4, Counts0
    <3>2. d \in Controllers /\ d.ready = c.ready
      BY <2>4, <3>1 DEF ControllerOf, Controllers
    <3>3. [next EXCEPT ![r.owner].rows = With(c.rows, r.block, 0)] = [next EXCEPT ![r.owner] = d]
      BY <2>4, <2>6
    <3> HIDE DEF d
    <3>4. a.result = "STAGED" /\ a.root = base /\ a.own = [next EXCEPT ![r.owner] = d]
      BY <2>9, <3>3 DEF Answer
    <3>5. a.own[r.owner] = d /\ \A p \in Owners : p # r.owner => a.own[p] = owners[p]
      BY <1>1, <2>6, <3>4 DEF Owned
    <3>6. r.kind \notin Closers
      BY <2>9 DEF Closers
    <3> QED BY <1>1, <2>1, <2>9, <3>2, <3>4, <3>5, <3>6, Stage DEF Shape
  <2>10. CASE r.kind = "REUSE" /\ a = Answer("OK", Saved(base, r.owner, c.lineage, r.block, r.digest),
                                            [next EXCEPT ![r.owner].ready = @ \cup {r.block}])
    <3> DEFINE d == [opened EXCEPT !.ready = @ \cup {r.block}]
               root == Saved(base, r.owner, c.lineage, r.block, r.digest)
    <3>1. ControllerOf(r.owner, d)
      BY <2>3, <2>4, Counts0
    <3>2. d \in Controllers /\ d.ready = c.ready \cup {r.block}
      BY <2>4, <3>1 DEF ControllerOf, Controllers
    <3>3. [next EXCEPT ![r.owner].ready = @ \cup {r.block}] = [next EXCEPT ![r.owner] = d]
      BY <2>6
    <3>4. c.lineage = Lineage(Promise(r.owner))
      BY <2>2 DEF ControllerOf
    <3>5. /\ \A x : x \in Mask(root.stages[r.owner]) <=> x \in Mask(base.stages[r.owner]) \cup {r.block}
          /\ \A p \in Owners : p # r.owner => root.stages[p] = base.stages[p]
      <4>1. PICK s, o, b, lineage, digest : s = root /\ o = r.owner /\ b = r.block /\ lineage = c.lineage /\ digest = r.digest
        OBVIOUS
      <4>2. s = Saved(base, o, lineage, b, digest)
        BY <4>1
      <4> HIDE DEF root
      <4>3. /\ o \in Owners /\ Born(o) /\ b \in Blocks /\ lineage = Lineage(Promise(o))
            /\ digest = Promise(o).blocks[b].digest
        BY <1>1, <3>4, <4>1
      <4>4. /\ \A x : x \in Mask(s.stages[o]) <=> x \in Mask(base.stages[o]) \cup {b}
            /\ \A p \in Owners : p # o => s.stages[p] = base.stages[p]
        BY <4>2, <4>3, SavedMask
      <4> QED BY <4>1, <4>4
    <3> HIDE DEF d, root
    <3>6. a.result = "OK" /\ a.root = root /\ a.own = [next EXCEPT ![r.owner] = d]
      BY <2>10, <3>3 DEF Answer, root
    <3>7. a.own[r.owner] = d /\ \A p \in Owners : p # r.owner => a.own[p] = owners[p]
      BY <1>1, <2>6, <3>6 DEF Owned
    <3>8. r.kind \in Deliverers /\ r.kind \notin Closers
      BY <2>10 DEF Deliverers, Closers
    <3> QED BY <1>1, <2>1, <2>10, <3>2, <3>5, <3>6, <3>7, <3>8, Stage DEF Shape
  <2>11. \/ a \in Failing("REJECTED", base, made, r.owner) \/ a \in Failing("REJECTED", base, next, r.owner)
         \/ r.kind = "BEGIN" /\ a = Answer("STAGED", base, [next EXCEPT ![r.owner].rows = With(c.rows, r.block, 0)])
         \/ r.kind # "BEGIN" /\ a = Answer("OK", Saved(base, r.owner, c.lineage, r.block, r.digest),
                                           [next EXCEPT ![r.owner].ready = @ \cup {r.block}])
    BY <1>3 DEF BeginOutcomes, next, made
  <2> QED BY <2>7, <2>8, <2>9, <2>10, <2>11
<1> QED BY <1>2, <1>3

LEMMA PutShape ==
    ASSUME NEW r \in Asked, NEW base, NEW owners, Instructed(owners), r.kind = "PUT",
           NEW a \in PutOutcomes(r, base, owners)
    PROVE  Shape(r, base, owners, a)
<1> DEFINE c == owners[r.owner]
           next == [owners EXCEPT ![r.owner].rows[r.block] = @ + 1]
           d == [c EXCEPT !.rows[r.block] = @ + 1]
<1>1. r.owner \in Owners /\ owners \in Owned
  BY Request DEF Instructed, Owned
<1>2. CASE a \in Failing("REJECTED", base, owners, r.owner)
  BY <1>1, <1>2, RefusalShape
<1>3. CASE c # NoStage /\ ~c.failed /\ r.block \in DOMAIN c.rows /\ a = Answer("STAGED", base, next)
  <2>1. ControllerOf(r.owner, c)
    BY <1>1, <1>3 DEF Instructed
  <2>2. ControllerOf(r.owner, d)
    BY <1>3, <2>1, Counts1
  <2>3. d \in Controllers /\ d.ready = c.ready
    BY <2>1, <2>2 DEF ControllerOf, Controllers
  <2>4. next = [owners EXCEPT ![r.owner] = d]
    OBVIOUS
  <2> HIDE DEF d
  <2>5. a.result = "STAGED" /\ a.root = base /\ a.own = [owners EXCEPT ![r.owner] = d]
    BY <1>3, <2>4 DEF Answer
  <2>6. a.own[r.owner] = d /\ \A p \in Owners : p # r.owner => a.own[p] = owners[p]
    BY <1>1, <2>5 DEF Owned
  <2>7. r.kind \notin Closers
    BY DEF Closers
  <2> QED BY <1>3, <2>3, <2>5, <2>6, <2>7, Stage DEF Shape, Healthy, Ready
<1> QED BY <1>2, <1>3 DEF PutOutcomes

LEMMA EndShape ==
    ASSUME Opened, NEW r \in Asked, Speaks(r), r.kind = "END",
           NEW base, Faithful(base), NEW owners, Instructed(owners), NEW a \in EndOutcomes(r, base, owners)
    PROVE  Shape(r, base, owners, a)
<1> DEFINE c == owners[r.owner]
           shut == [c EXCEPT !.sealed = @ \cup {r.block}]
           sealed == [owners EXCEPT ![r.owner].sealed = @ \cup {r.block}]
           root == Saved(base, r.owner, c.lineage, r.block, c.spec[r.block].digest)
           after == [sealed EXCEPT ![r.owner].ready = @ \cup {r.block}]
<1>1. r.owner \in Owners /\ owners \in Owned
  BY Request DEF Instructed, Owned
<1>2. CASE a \in Failing("REJECTED", base, owners, r.owner)
  BY <1>1, <1>2, RefusalShape
<1>3. CASE /\ c # NoStage /\ ~c.failed /\ r.block \in DOMAIN c.rows
           /\ a \in Failing("REJECTED", base, sealed, r.owner) \/ a = Answer("OK", root, after)
  <2>1. ControllerOf(r.owner, c)
    BY <1>1, <1>3 DEF Instructed
  <2>2. r.block \in DOMAIN c.spec /\ r.block \in Blocks
    BY <1>3, <2>1, Request DEF ControllerOf
  <2>3. ControllerOf(r.owner, shut) /\ shut.spec = c.spec /\ shut.ready = c.ready
    BY <2>1, <2>2, Counts0 DEF ControllerOf, Controllers
  <2>4. sealed = [owners EXCEPT ![r.owner] = shut] /\ shut \in Controllers
    BY <2>3 DEF ControllerOf
  <2> HIDE DEF shut
  <2>5. sealed \in Owned /\ sealed[r.owner] = shut /\ \A p \in Owners : p # r.owner => sealed[p] = owners[p]
    BY <1>1, <2>4 DEF Owned
  <2> HIDE DEF sealed
  <2>6. CASE a \in Failing("REJECTED", base, sealed, r.owner)
    BY <1>1, <1>3, <2>4, <2>5, <2>6, RefusalShape, Stage
  <2>7. CASE a = Answer("OK", root, after)
    <3> DEFINE d == [shut EXCEPT !.ready = @ \cup {r.block}]
    <3>1. ControllerOf(r.owner, d)
      BY <2>2, <2>3, Counts0
    <3>2. d \in Controllers /\ d.ready = c.ready \cup {r.block}
      BY <2>3, <2>4, <3>1 DEF ControllerOf, Controllers
    <3>3. after = [sealed EXCEPT ![r.owner] = d]
      BY <2>5
    <3>4. /\ c.lineage = Lineage(Promise(r.owner)) /\ Born(r.owner)
          /\ c.spec[r.block].digest = Promise(r.owner).blocks[r.block].digest
      BY <2>1, <2>2 DEF ControllerOf
    <3>5. /\ \A x : x \in Mask(root.stages[r.owner]) <=> x \in Mask(base.stages[r.owner]) \cup {r.block}
          /\ \A p \in Owners : p # r.owner => root.stages[p] = base.stages[p]
      <4>1. PICK s, o, b, lineage, digest : s = root /\ o = r.owner /\ b = r.block /\ lineage = c.lineage /\ digest = c.spec[r.block].digest
        OBVIOUS
      <4>2. s = Saved(base, o, lineage, b, digest)
        BY <4>1
      <4> HIDE DEF root
      <4>3. /\ o \in Owners /\ Born(o) /\ b \in Blocks /\ lineage = Lineage(Promise(o))
            /\ digest = Promise(o).blocks[b].digest
        BY <1>1, <2>2, <3>4, <4>1
      <4>4. /\ \A x : x \in Mask(s.stages[o]) <=> x \in Mask(base.stages[o]) \cup {b}
            /\ \A p \in Owners : p # o => s.stages[p] = base.stages[p]
        BY <4>2, <4>3, SavedMask
      <4> QED BY <4>1, <4>4
    <3> HIDE DEF d, root, after
    <3>6. a.result = "OK" /\ a.root = root /\ a.own = [sealed EXCEPT ![r.owner] = d]
      BY <2>7, <3>3 DEF Answer
    <3>7. a.own[r.owner] = d /\ \A p \in Owners : p # r.owner => a.own[p] = owners[p]
      BY <1>1, <2>5, <3>6 DEF Owned
    <3>8. r.kind \in Deliverers /\ r.kind \notin Closers
      BY DEF Deliverers, Closers
    <3> QED BY <1>3, <3>2, <3>5, <3>6, <3>7, <3>8, Stage DEF Shape, Healthy, Ready
  <2> QED BY <1>3, <2>6, <2>7
<1> QED BY <1>2, <1>3 DEF EndOutcomes

LEMMA PromoteShape ==
    ASSUME Opened, NEW r \in Asked, r.kind = "PROMOTE",
           NEW base, Faithful(base), NEW owners, Instructed(owners), NEW a \in PromoteOutcomes(r, base, owners)
    PROVE  Shape(r, base, owners, a)
<1>1. r.owner \in Owners /\ owners \in Owned /\ r.kind \in Closers /\ r.kind \notin Deliverers
  BY Request DEF Instructed, Owned, Closers, Deliverers
<1>2. CASE a \in Failing("REJECTED", base, owners, r.owner)
  BY <1>1, <1>2, RefusalShape
<1>3. CASE a = Answer("NOT_FOUND", base, owners)
  <2>1. a.result = "NOT_FOUND" /\ a.root = base /\ a.own = owners
    BY <1>3 DEF Answer
  <2> QED BY <2>1 DEF Shape, Ready, Healthy
<1>4. CASE a = Answer("OK", Promoted(base, r.owner), owners) /\ base.stages[r.owner] # NoStage
           /\ Mask(base.stages[r.owner]) = Blocks
  <2> DEFINE root == Promoted(base, r.owner)
  <2>1. a.result = "OK" /\ a.root = root /\ a.own = owners
    BY <1>4 DEF Answer
  <2>2. root.stages[r.owner] = NoStage
    BY <1>1, <1>4, Promotes
  <2>3. root.stages = Dropped(base, r.owner).stages /\ Dropped(base, r.owner).stages = [base.stages EXCEPT ![r.owner] = NoStage]
    <3>1. base \in Roots
      BY DEF Faithful
    <3> QED BY <3>1 DEF Promoted, Dropped, Roots
  <2>4. base.stages \in [Owners -> Heads \cup {NoStage}]
    BY DEF Faithful, Roots
  <2> HIDE DEF root
  <2>5. \A p \in Owners : p # r.owner => root.stages[p] = base.stages[p]
    BY <2>3, <2>4
  <2> QED BY <1>1, <2>1, <2>2, <2>5 DEF Shape
<1> QED BY <1>2, <1>3, <1>4 DEF PromoteOutcomes

LEMMA AbortShape ==
    ASSUME NEW r \in Asked, r.kind = "ABORT",
           NEW base, Faithful(base), NEW owners, Instructed(owners), NEW a \in AbortOutcomes(r, base, owners)
    PROVE  Shape(r, base, owners, a)
<1>1. r.owner \in Owners /\ r.kind \in Closers /\ r.kind \notin Deliverers
  BY Request DEF Closers, Deliverers
<1>2. CASE base.stages[r.owner] = NoStage /\ a = Answer("STAGED", base, owners)
  <2>1. a.result = "STAGED" /\ a.root = base /\ a.own = owners
    BY <1>2 DEF Answer
  <2> QED BY <1>2, <2>1 DEF Shape, Ready, Healthy
<1>3. CASE a = Answer("OK", Dropped(base, r.owner), owners)
  <2> DEFINE root == Dropped(base, r.owner)
  <2>1. a.result = "OK" /\ a.root = root /\ a.own = owners
    BY <1>3 DEF Answer
  <2>2. root.stages = [base.stages EXCEPT ![r.owner] = NoStage] /\ base.stages \in [Owners -> Heads \cup {NoStage}]
    BY DEF Faithful, Roots, Dropped
  <2> HIDE DEF root
  <2>3. root.stages[r.owner] = NoStage /\ \A p \in Owners : p # r.owner => root.stages[p] = base.stages[p]
    BY <1>1, <2>2
  <2> QED BY <1>1, <2>1, <2>3 DEF Shape
<1> QED BY <1>2, <1>3 DEF AbortOutcomes

LEMMA OutcomeShape ==
    ASSUME Opened, NEW r \in Asked, Speaks(r), NEW base, Faithful(base), NEW owners, Instructed(owners),
           NEW id, NEW a \in Outcomes(r, base, owners, id)
    PROVE  Shape(r, base, owners, a)
<1>1. r.kind \in StageKinds /\ a \in StageOutcomes(r, base, owners)
  BY Request DEF Outcomes
<1>2. CASE r.kind \in {"BEGIN", "REUSE"}
  BY <1>1, <1>2, BeginShape DEF StageOutcomes
<1>3. CASE r.kind = "PUT"
  BY <1>1, <1>3, PutShape DEF StageOutcomes
<1>4. CASE r.kind = "END"
  BY <1>1, <1>4, EndShape DEF StageOutcomes
<1>5. CASE r.kind = "PROMOTE"
  BY <1>1, <1>5, PromoteShape DEF StageOutcomes
<1>6. CASE r.kind = "ABORT"
  BY <1>1, <1>6, AbortShape DEF StageOutcomes
<1> QED BY <1>1, <1>2, <1>3, <1>4, <1>5, <1>6 DEF StageKinds

\* A result that closes nothing and is not good spoils the controller or leaves it.
LEMMA NegativeShape ==
    ASSUME NEW r \in Asked, NEW result \in Negative, NEW owners \in Owned
    PROVE  LET next == Finished(r, result, owners)
           IN  /\ next \in Owned /\ \A p \in Owners : p # r.owner => next[p] = owners[p]
               /\ next[r.owner] = NoStage <=> owners[r.owner] = NoStage
               /\ ~Healthy(next[r.owner])
<1>1. r.owner \in Owners /\ r.kind \notin Mutations
  BY Request
<1>2. result \notin {"OK", "STAGED"}
  BY DEF Negative
<1>3. CASE owners[r.owner] = NoStage
  <2>1. Finished(r, result, owners) = owners
    BY <1>3 DEF Finished
  <2> QED BY <1>3, <2>1 DEF Healthy
<1>4. CASE owners[r.owner] # NoStage
  <2>1. Finished(r, result, owners) = Spoiled(owners, r.owner)
    BY <1>1, <1>2, <1>4 DEF Finished
  <2> QED BY <1>1, <2>1, SpoiledShape
<1> QED BY <1>3, <1>4

\* What the preparation that ran out of something left, before it is spoiled.
LEMMA BegunShape ==
    ASSUME Opened, NEW r \in Asked, Speaks(r), NEW owners, Instructed(owners), NEW begun \in Begun(r, owners)
    PROVE  /\ begun \in Owned /\ \A p \in Owners : p # r.owner => begun[p] = owners[p]
           /\ begun[r.owner] = NoStage => owners[r.owner] = NoStage
           /\ begun[r.owner] # NoStage /\ owners[r.owner] = NoStage => r.kind \in {"BEGIN", "REUSE"}
<1>1. CASE begun = owners
  BY <1>1 DEF Instructed, Owned
<1>2. CASE begun # owners
  <2>1. r.kind \in {"BEGIN", "REUSE"} /\ Admits(owners, r) /\ begun = Admitted(owners, r)
    BY <1>2 DEF Begun
  <2> QED BY <2>1, AdmittedShape, Stage
<1> QED BY <1>1, <1>2

-----------------------------------------------------------------------------
(* The steps of the writer.                                                   *)

\* The job the writer has got to has the outcome a.
Tries(a) ==
    LET id == Handed + at
    IN  /\ pc \in {"check", "prepare"} /\ at <= Len(group) /\ pc' = "check" /\ at' = at + 1
        /\ pc = "check" => a.result = "BUSY"
        /\ UNCHANGED <<pending, group, completed, durable, outcome>>
        /\ Len(job') = Len(job) /\ \A k \in 1 .. Len(job) : k # id => job'[k] = job[k]
        /\ job'[id].req = job[id].req /\ job'[id].rev = job[id].rev
        /\ job'[id].cancelled = job[id].cancelled /\ job'[id].committing = job[id].committing
        /\ job'[id].result = a.result
        /\ own' = a.own /\ candidate'.stages = a.root.stages
        /\ a.result # "OK" => candidate' = candidate
        /\ a.result = "OK" => /\ candidate'.log = Append(candidate.log, id)
                              /\ Moves(job[id].req, candidate, candidate')
                              /\ job'[id].before = candidate /\ job'[id].after = candidate'
        /\ Shape(job[id].req, candidate, own, a)

LEMMA FinishedShape ==
    ASSUME NEW r \in Asked, NEW base, NEW owners, NEW a, Shape(r, base, owners, a),
           a.result \in Negative, a.own \in Owned
    PROVE  Shape(r, base, owners, Answer(a.result, a.root, Finished(r, a.result, a.own)))
<1> DEFINE next == Finished(r, a.result, a.own)
           final == Answer(a.result, a.root, next)
<1>1. /\ \A p \in Owners : p # r.owner => next[p] = a.own[p]
      /\ next[r.owner] = NoStage <=> a.own[r.owner] = NoStage
      /\ ~Healthy(next[r.owner])
  BY NegativeShape
<1> HIDE DEF next
<1>2. final.result = a.result /\ final.root = a.root /\ final.own = next
  BY DEF Answer
<1>3. a.result # "OK" /\ a.result # "STAGED"
  BY DEF Negative
<1> HIDE DEF final
<1>4. Shape(r, base, owners, final)
  BY <1>1, <1>2, <1>3 DEF Shape
<1> QED BY <1>4 DEF final, next

\* The job the writer has got to.
LEMMA Next1 ==
    ASSUME ReceiveInvariant, pc \in {"check", "prepare"}, at <= Len(group)
    PROVE  /\ Handed + at \in 1 .. Len(job) /\ group[at] = Handed + at
           /\ job[Handed + at] \in JobRecords
           /\ job[Handed + at].req \in Asked /\ Speaks(job[Handed + at].req)
           /\ Opened /\ Instructed(own) /\ own \in Owned /\ Faithful(candidate) /\ pc \in Preparing
<1>1. Types /\ Line /\ Words /\ pc \in Preparing
  BY DEF ReceiveInvariant, Preparing
<1>2. at \in 1 .. Len(group)
  <2>1. Len(group) \in Nat /\ at \in 1 .. Len(group) + 1
    BY <1>1, Numbers DEF Line
  <2> QED BY <2>1
<1>3. group[at] = Handed + at /\ group[at] \in 1 .. Len(job)
  BY <1>1, <1>2, Members
<1> QED BY <1>1, <1>3, Members, AtWork DEF Words, Instructed, Owned

\* It gets a result and nothing else.
LEMMA Resulting ==
    ASSUME ReceiveInvariant, pc \in {"check", "prepare"}, at <= Len(group), NEW result \in Results,
           job' = [job EXCEPT ![group[at]].result = result]
    PROVE  LET id == Handed + at
           IN  /\ Len(job') = Len(job) /\ \A k \in 1 .. Len(job) : k # id => job'[k] = job[k]
               /\ job'[id].req = job[id].req /\ job'[id].rev = job[id].rev
               /\ job'[id].cancelled = job[id].cancelled /\ job'[id].committing = job[id].committing
               /\ job'[id].result = result
<1> DEFINE id == Handed + at
<1>1. id \in 1 .. Len(job) /\ group[at] = id /\ job[id] \in JobRecords
  BY Next1
<1> HIDE DEF id
<1>2. job \in Seq(JobRecords)
  BY DEF ReceiveInvariant, Types
<1>3. PICK j : j = [job[id] EXCEPT !.result = result]
  OBVIOUS
<1>4. /\ j \in JobRecords /\ j.result = result /\ j.req = job[id].req /\ j.rev = job[id].rev
      /\ j.cancelled = job[id].cancelled /\ j.committing = job[id].committing
  BY <1>1, <1>3 DEF JobRecords
<1>5. job' = [job EXCEPT ![id] = j]
  BY <1>1, <1>3
<1>6. Len(job') = Len(job) /\ job'[id] = j /\ \A k \in 1 .. Len(job) : k # id => job'[k] = job[k]
  BY <1>1, <1>2, <1>4, <1>5, OneJob
<1> QED BY <1>4, <1>6 DEF id

LEMMA CheckTries ==
    ASSUME ReceiveInvariant, Check, ~Valid(group[at])
    PROVE  \E a : Tries(a)
<1> DEFINE id == Handed + at
           a == Answer("BUSY", candidate, own')
<1>1. /\ pc = "check" /\ pc' = "check" /\ at <= Len(group) /\ at' = at + 1
      /\ UNCHANGED <<pending, group, completed, durable, outcome, candidate>>
      /\ job' = [job EXCEPT ![group[at]].result = "BUSY"] /\ own' = Finished(job[group[at]].req, "BUSY", own)
  BY DEF Check
<1>2. /\ id \in 1 .. Len(job) /\ group[at] = id /\ job[id].req \in Asked /\ own \in Owned
      /\ "BUSY" \in Results /\ "BUSY" \in Negative
  BY <1>1, Next1 DEF Results, Negative
<1>3. /\ Len(job') = Len(job) /\ \A k \in 1 .. Len(job) : k # id => job'[k] = job[k]
      /\ job'[id].req = job[id].req /\ job'[id].rev = job[id].rev
      /\ job'[id].cancelled = job[id].cancelled /\ job'[id].committing = job[id].committing
      /\ job'[id].result = "BUSY"
  BY <1>1, <1>2, Resulting
<1>4. a.result = "BUSY" /\ a.root = candidate /\ a.own = own'
  BY DEF Answer
<1> HIDE DEF id, a
<1>5. PICK r \in Asked : r = job[id].req
  BY <1>2
<1>6. /\ \A p \in Owners : p # r.owner => own'[p] = own[p]
      /\ own'[r.owner] = NoStage <=> own[r.owner] = NoStage
      /\ ~Healthy(own'[r.owner])
  <2>1. own' = Finished(r, "BUSY", own)
    BY <1>1, <1>2, <1>5
  <2> QED BY <1>2, <2>1, NegativeShape
<1>7. Shape(r, candidate, own, a)
  BY <1>4, <1>6 DEF Shape
<1>8. Tries(a)
  BY <1>1, <1>3, <1>4, <1>5, <1>7 DEF Tries, id
<1> QED BY <1>8

LEMMA FailsTries ==
    ASSUME ReceiveInvariant, PrepareFails
    PROVE  \E a : Tries(a)
<1> DEFINE id == Handed + at
           a(result) == Answer(result, candidate, own')
<1>1. /\ pc = "prepare" /\ pc' = "check" /\ at' = at + 1
      /\ UNCHANGED <<pending, group, completed, durable, outcome, candidate>>
  BY DEF PrepareFails
<1>2. at <= Len(group)
  BY <1>1 DEF ReceiveInvariant, Line
<1>3. /\ id \in 1 .. Len(job) /\ group[at] = id /\ job[id].req \in Asked /\ own \in Owned
      /\ Opened /\ Speaks(job[id].req) /\ Instructed(own)
  BY <1>1, <1>2, Next1
<1>4. PICK result \in {"LIMIT", "ERROR"}, begun \in Begun(job[group[at]].req, own) :
         /\ job' = [job EXCEPT ![group[at]].result = result]
         /\ own' = Finished(job[group[at]].req, result, begun)
  BY DEF PrepareFails
<1>5. result \in Results /\ result \in Negative
  BY DEF Results, Negative
<1>6. /\ Len(job') = Len(job) /\ \A k \in 1 .. Len(job) : k # id => job'[k] = job[k]
      /\ job'[id].req = job[id].req /\ job'[id].rev = job[id].rev
      /\ job'[id].cancelled = job[id].cancelled /\ job'[id].committing = job[id].committing
      /\ job'[id].result = result
  BY <1>1, <1>2, <1>4, <1>5, Resulting
<1>7. a(result).result = result /\ a(result).root = candidate /\ a(result).own = own'
  BY DEF Answer
<1> HIDE DEF id, a
<1>8. PICK r \in Asked : r = job[id].req
  BY <1>3
<1>9. begun \in Begun(r, own) /\ own' = Finished(r, result, begun) /\ Speaks(r)
  BY <1>3, <1>4, <1>8
<1>10. /\ begun \in Owned /\ \A p \in Owners : p # r.owner => begun[p] = own[p]
       /\ begun[r.owner] = NoStage => own[r.owner] = NoStage
       /\ begun[r.owner] # NoStage /\ own[r.owner] = NoStage => r.kind \in {"BEGIN", "REUSE"}
  BY <1>3, <1>9, BegunShape
<1>11. /\ \A p \in Owners : p # r.owner => own'[p] = begun[p]
       /\ own'[r.owner] = NoStage <=> begun[r.owner] = NoStage
       /\ ~Healthy(own'[r.owner])
  BY <1>5, <1>9, <1>10, NegativeShape
<1>12. result # "OK" /\ result # "STAGED"
  OBVIOUS
<1>13. Shape(r, candidate, own, a(result))
  BY <1>7, <1>10, <1>11, <1>12 DEF Shape
<1>14. Tries(a(result))
  BY <1>1, <1>2, <1>6, <1>7, <1>8, <1>12, <1>13 DEF Tries, id
<1> QED BY <1>14

LEMMA PrepareTries ==
    ASSUME ReceiveInvariant, Prepare
    PROVE  \E a : Tries(a)
<1> DEFINE id == Handed + at
<1>1. /\ pc = "prepare" /\ pc' = "check" /\ at' = at + 1
      /\ UNCHANGED <<pending, group, completed, durable, outcome>>
  BY DEF Prepare
<1>2. at <= Len(group)
  BY <1>1 DEF ReceiveInvariant, Line
<1>3. /\ id \in 1 .. Len(job) /\ group[at] = id /\ job[id].req \in Asked /\ job[id] \in JobRecords
      /\ Opened /\ Speaks(job[id].req) /\ Instructed(own) /\ Faithful(candidate)
  BY <1>1, <1>2, Next1
<1>4. PICK a \in Outcomes(job[group[at]].req, candidate, own, group[at]) :
         LET root == [a.root EXCEPT !.log = Append(candidate.log, group[at])]
         IN  /\ own' = IF a.result \in Negative
                       THEN Finished(job[group[at]].req, a.result, a.own) ELSE a.own
             /\ IF a.result = "OK"
                THEN /\ candidate' = root
                     /\ job' = [job EXCEPT ![group[at]].result = "OK",
                                           ![group[at]].before = candidate,
                                           ![group[at]].after = root]
                ELSE /\ job' = [job EXCEPT ![group[at]].result = a.result]
                     /\ UNCHANGED candidate
  BY DEF Prepare, StartRoot
<1>5. PICK r \in Asked : r = job[id].req
  BY <1>3
<1>6. a \in Outcomes(r, candidate, own, id) /\ Speaks(r)
  BY <1>3, <1>5
<1>7. Sound(r, candidate, a) /\ Shape(r, candidate, own, a)
  BY <1>3, <1>6, OutcomeSound, OutcomeShape
<1> HIDE DEF id
<1>8. CASE a.result = "OK"
  <2> DEFINE root == [a.root EXCEPT !.log = Append(candidate.log, id)]
             j == [job[id] EXCEPT !.result = "OK", !.before = candidate, !.after = root]
  <2>1. "OK" \notin Negative
    BY DEF Negative
  <2>2. /\ own' = a.own /\ candidate' = root
        /\ job' = [job EXCEPT ![id].result = "OK", ![id].before = candidate, ![id].after = root]
    BY <1>3, <1>4, <1>8, <2>1
  <2>3. a.root \in Roots /\ candidate.log \in Seq(Nat) /\ id \in Nat
    BY <1>3, <1>7 DEF Sound, Faithful, Roots
  <2>4. /\ root \in Roots /\ root.stages = a.root.stages /\ root.blocks = a.root.blocks
        /\ root.log = Append(candidate.log, id) /\ Lineage(root) = Lineage(a.root)
    <3>1. PICK l : l = Append(candidate.log, id)
      OBVIOUS
    <3>2. l \in Seq(Nat)
      BY <2>3, <3>1, AppendProperties
    <3>3. PICK base : base = a.root
      OBVIOUS
    <3>4. root = [base EXCEPT !.log = l] /\ base \in Roots
      BY <2>3, <3>1, <3>3
    <3> HIDE DEF root
    <3>5. /\ root \in Roots /\ root.stages = base.stages /\ root.blocks = base.blocks
          /\ root.log = l /\ root.src = base.src /\ root.seq = base.seq
      BY <3>2, <3>4 DEF Roots
    <3>6. Lineage(root) = Lineage(base)
      BY <3>5 DEF Lineage
    <3> QED BY <3>1, <3>3, <3>5, <3>6
  <2>5. Moves(r, candidate, root)
    BY <1>7, <1>8, <2>4 DEF Sound, Moves
  <2> HIDE DEF root
  <2>6. candidate \in Roots /\ job \in Seq(JobRecords) /\ "OK" \in Results
    BY <1>3 DEF Faithful, ReceiveInvariant, Types, Results
  <2>7. /\ j \in JobRecords /\ j.result = "OK" /\ j.req = job[id].req /\ j.rev = job[id].rev
        /\ j.cancelled = job[id].cancelled /\ j.committing = job[id].committing
        /\ j.before = candidate /\ j.after = root
    BY <1>3, <2>4, <2>6 DEF JobRecords
  <2>8. job' = [job EXCEPT ![id] = j]
    BY <1>3, <2>2, <2>6
  <2> HIDE DEF j
  <2>9. Len(job') = Len(job) /\ job'[id] = j /\ \A k \in 1 .. Len(job) : k # id => job'[k] = job[k]
    BY <1>3, <2>6, <2>7, <2>8, OneJob
  <2>10. Tries(a)
    BY <1>1, <1>2, <1>5, <1>7, <1>8, <2>2, <2>4, <2>5, <2>7, <2>9 DEF Tries, id
  <2> QED BY <2>10
<1>9. CASE a.result # "OK"
  <2>1. a.result \in Results
    BY <1>7 DEF Sound, Results, Negative
  <2>2. job' = [job EXCEPT ![group[at]].result = a.result] /\ UNCHANGED candidate
    BY <1>4, <1>9
  <2>3. /\ Len(job') = Len(job) /\ \A k \in 1 .. Len(job) : k # id => job'[k] = job[k]
        /\ job'[id].req = job[id].req /\ job'[id].rev = job[id].rev
        /\ job'[id].cancelled = job[id].cancelled /\ job'[id].committing = job[id].committing
        /\ job'[id].result = a.result
    BY <1>1, <1>2, <2>1, <2>2, Resulting DEF id
  <2>4. candidate.stages = a.root.stages
    BY <1>7, <1>9 DEF Shape
  <2>5. CASE a.result \in Negative
    <3> DEFINE final == Answer(a.result, a.root, Finished(r, a.result, a.own))
    <3>1. a.own \in Owned
      BY <1>7 DEF Sound, Instructed, Owned
    <3>2. Shape(r, candidate, own, final)
      BY <1>7, <2>5, <3>1, FinishedShape
    <3>3. final.result = a.result /\ final.root = a.root /\ final.own = own'
      BY <1>3, <1>4, <1>5, <2>5 DEF Answer
    <3> HIDE DEF final
    <3>4. Tries(final)
      BY <1>1, <1>2, <1>5, <1>9, <2>2, <2>3, <2>4, <3>2, <3>3 DEF Tries, id
    <3> QED BY <3>4
  <2>6. CASE a.result \notin Negative
    <3>1. own' = a.own
      BY <1>4, <2>6
    <3>2. Tries(a)
      BY <1>1, <1>2, <1>5, <1>7, <1>9, <2>2, <2>3, <2>4, <3>1 DEF Tries, id
    <3> QED BY <3>2
  <2> QED BY <2>5, <2>6
<1> QED BY <1>8, <1>9

-----------------------------------------------------------------------------
(* The other steps of the writer, as the invariant sees them.                 *)

\* The main thread's side stands, and the engine fails for good.
Steady ==
    /\ UNCHANGED <<rounds, reconcile, ready, view, authority>>
    /\ {admission', failed'} \subseteq BOOLEAN /\ stopping' = FALSE /\ admission' = ~failed'
    /\ failed => failed'

SameJob(id) ==
    /\ job'[id].req = job[id].req /\ job'[id].rev = job[id].rev
    /\ job'[id].result = job[id].result /\ job'[id].cancelled = job[id].cancelled
    /\ job'[id].before = job[id].before /\ job'[id].after = job[id].after

\* On to the next check or to a preparation.
Going ==
    /\ pc \in {"check", "prepare"} /\ pc' \in {"check", "prepare"}
    /\ pc' = "prepare" => at <= Len(group) /\ Valid(Handed + at)
    /\ UNCHANGED <<pending, group, at, candidate, outcome, durable, own, job, completed>>

\* Through the barrier.
Passing ==
    /\ pc = "check" /\ pc' = "commit" /\ at = Len(group) + 1
    /\ Len(job') = Len(job)
    /\ \A id \in 1 .. Len(job) : /\ SameJob(id) /\ (job[id].committing => job'[id].committing)
                                 /\ id > Taken => job'[id].committing = job[id].committing
    /\ UNCHANGED <<pending, group, at, candidate, outcome, durable, own, completed>>

\* There is nothing to commit, or the group is turned away.
Turning ==
    /\ pc \in {"check", "commit"} /\ pc' = "install" /\ at = Len(group) + 1
    /\ outcome' = "OK" => \A id \in Tried : ~Good(id)
    /\ UNCHANGED <<pending, group, at, candidate, durable, own, job, completed>>

Installing ==
    /\ pc = "install" /\ pc' = "complete" /\ Len(job') = Len(job)
    /\ \A id \in 1 .. Len(job) :
          /\ job'[id].req = job[id].req /\ job'[id].rev = job[id].rev
          /\ job'[id].cancelled = job[id].cancelled /\ job'[id].committing = job[id].committing
          /\ ~(id > Handed /\ id <= Taken /\ Good(id) /\ outcome # "OK") => SameJob(id)
          /\ id > Handed /\ id <= Taken /\ Good(id) /\ outcome # "OK" => job'[id].result = outcome
    /\ UNCHANGED <<pending, group, at, candidate, outcome, durable, own, completed>>

Completing ==
    /\ pc = "complete" /\ pc' = "wait" /\ own' = Settled
    /\ completed' = completed \o group /\ group' = <<>> /\ outcome' = "OK"
    /\ UNCHANGED <<pending, durable, job>>

\* The jobs of the group and their numbers.
LEMMA Grouped ==
    ASSUME FullInvariant, Receiving
    PROVE  /\ \A i \in 1 .. Len(group) : group[i] = Handed + i /\ Handed + i \in Handed + 1 .. Taken
           /\ \A id \in Handed + 1 .. Taken : id - Handed \in 1 .. Len(group) /\ group[id - Handed] = id
           /\ \A id : id \in ToSet(group) <=> id \in Handed + 1 .. Taken
<1>1. /\ Handed \in Nat /\ Taken \in Nat /\ Len(group) \in Nat /\ Taken = Handed + Len(group)
      /\ \A i \in 1 .. Len(group) : group[i] = Handed + i
  BY Places DEF Line
<1>2. group \in Seq(Nat)
  BY Places DEF Types
<1>3. /\ \A i \in 1 .. Len(group) : group[i] = Handed + i /\ Handed + i \in Handed + 1 .. Taken
      /\ \A id \in Handed + 1 .. Taken : id - Handed \in 1 .. Len(group) /\ group[id - Handed] = id
  BY <1>1
<1>4. \A id : id \in ToSet(group) <=> \E i \in 1 .. Len(group) : group[i] = id
  BY <1>2 DEF ToSet
<1> QED BY <1>3, <1>4

LEMMA CheckGoes ==
    ASSUME FullInvariant, Receiving, Check, Valid(group[at])
    PROVE  Going
<1>1. ReceiveInvariant /\ at <= Len(group) /\ pc = "check"
  BY Places DEF Check
<1>2. group[at] = Handed + at
  BY <1>1, Next1
<1> QED BY <1>1, <1>2 DEF Check, Going

LEMMA Full ==
    ASSUME FullInvariant, Receiving, pc = "check", at > Len(group)
    PROVE  at = Len(group) + 1 /\ Worked = Taken
<1>1. at \in 1 .. Len(group) + 1 /\ Len(group) \in Nat /\ Handed \in Nat /\ Taken = Handed + Len(group)
  BY Places DEF Line, Preparing
<1> QED BY <1>1 DEF Worked, Preparing

LEMMA BarrierGoes ==
    ASSUME FullInvariant, Receiving, Barrier \/ BarrierFails \/ CommitFails
    PROVE  Passing \/ Turning
<1>1. CASE pc = "check"
  <2>1. at = Len(group) + 1 /\ Worked = Taken
    BY <1>1, Full DEF Barrier, BarrierFails, CommitFails
  <2>2. CASE pc' = "install"
    <3>1. UNCHANGED <<pending, group, at, candidate, durable, own, job, completed>>
      BY <1>1, <2>2 DEF Barrier, BarrierFails, CommitFails
    <3>2. ASSUME outcome' = "OK", NEW id \in Tried PROVE ~Good(id)
      <4>1. GoodJobs = {}
        BY <1>1, <2>2, <3>2 DEF Barrier, BarrierFails, CommitFails
      <4>2. id - Handed \in 1 .. Len(group) /\ group[id - Handed] = id
        BY <2>1, <3>2, Grouped DEF Tried
      <4> QED BY <4>1, <4>2 DEF GoodJobs, Good
    <3> QED BY <1>1, <2>1, <2>2, <3>1, <3>2 DEF Turning
  <2>3. CASE pc' # "install"
    <3>1. /\ pc' = "commit"
          /\ job' = [id \in DOMAIN job |->
                          [job[id] EXCEPT !.committing = @ \/ \E i \in GoodJobs : group[i] = id]]
          /\ UNCHANGED <<pending, group, at, candidate, outcome, durable, own, completed>>
      BY <1>1, <2>3 DEF Barrier, BarrierFails, CommitFails
    <3>2. /\ job \in Seq(JobRecords) /\ DOMAIN job = 1 .. Len(job) /\ Len(job) \in Nat /\ Taken \in Nat
      BY Places DEF Types
    <3>3. Len(job') = Len(job)
      <4>1. PICK f : f = job'
        OBVIOUS
      <4>2. PICK S : S = {f[id] : id \in 1 .. Len(job)}
        OBVIOUS
      <4>3. f \in [1 .. Len(job) -> S]
        BY <3>1, <3>2, <4>1, <4>2
      <4> QED BY <3>2, <4>1, <4>3, FunctionLen
    <3>4. ASSUME NEW id \in 1 .. Len(job)
          PROVE  /\ SameJob(id) /\ (job[id].committing => job'[id].committing)
                 /\ id > Taken => job'[id].committing = job[id].committing
      <4>1. job[id] \in JobRecords
        BY <3>2, <3>4
      <4>2. PICK flag : flag = (job[id].committing \/ \E i \in GoodJobs : group[i] = id)
        OBVIOUS
      <4>3. job'[id] = [job[id] EXCEPT !.committing = flag]
        BY <3>1, <3>2, <3>4, <4>2
      <4>4. SameJob(id) /\ job'[id].committing = flag
        BY <4>1, <4>3 DEF SameJob, JobRecords
      <4>5. id > Taken => ~\E i \in GoodJobs : group[i] = id
        BY <3>2, Grouped DEF GoodJobs
      <4>6. job[id].committing \in BOOLEAN
        BY <4>1 DEF JobRecords
      <4> QED BY <4>2, <4>4, <4>5, <4>6
    <3> QED BY <1>1, <2>1, <3>1, <3>3, <3>4 DEF Passing
  <2> QED BY <2>2, <2>3
<1>2. CASE pc # "check"
  <2>1. /\ pc = "commit" /\ pc' = "install" /\ outcome' = "ERROR"
        /\ UNCHANGED <<pending, group, at, candidate, durable, own, job, completed>>
    BY <1>2 DEF Barrier, BarrierFails, CommitFails
  <2>2. at = Len(group) + 1
    BY <2>1 DEF Receiving
  <2> QED BY <2>1, <2>2 DEF Turning
<1> QED BY <1>1, <1>2

LEMMA InstallGoes ==
    ASSUME FullInvariant, Receiving, Install
    PROVE  Installing
<1> DEFINE good == {group[i] : i \in GoodJobs}
           turned(id) == id > Handed /\ id <= Taken /\ Good(id) /\ outcome # "OK"
<1>1. /\ pc = "install" /\ pc' = "complete"
      /\ UNCHANGED <<pending, group, at, candidate, outcome, durable, own, completed>>
      /\ job' = [id \in DOMAIN job |->
                    IF id \notin good \/ outcome = "OK" THEN job[id]
                    ELSE [job[id] EXCEPT !.result = outcome, !.before = EmptyRoot, !.after = EmptyRoot]]
  BY DEF Install, writer
<1>2. /\ job \in Seq(JobRecords) /\ DOMAIN job = 1 .. Len(job) /\ Len(job) \in Nat
      /\ Taken \in Nat /\ Handed \in Nat /\ outcome \in {"OK", "BUSY", "LIMIT", "ERROR"}
  BY Places DEF Types
<1>3. \A id \in 1 .. Len(job) : id \in good <=> id > Handed /\ id <= Taken /\ Good(id)
  <2>1. ASSUME NEW id \in good PROVE id > Handed /\ id <= Taken /\ Good(id)
    <3>1. PICK i \in 1 .. Len(group) : group[i] = id /\ job[group[i]].result = "OK"
      BY <2>1 DEF GoodJobs
    <3>2. id \in Handed + 1 .. Taken
      BY <3>1, Grouped
    <3> QED BY <1>2, <3>1, <3>2 DEF Good
  <2>2. ASSUME NEW id \in 1 .. Len(job), id > Handed, id <= Taken, Good(id) PROVE id \in good
    <3>1. id \in Handed + 1 .. Taken
      BY <1>2, <2>2
    <3>2. id - Handed \in 1 .. Len(group) /\ group[id - Handed] = id
      BY <3>1, Grouped
    <3>3. id - Handed \in GoodJobs
      BY <2>2, <3>2 DEF GoodJobs, Good
    <3> QED BY <3>2, <3>3
  <2> QED BY <2>1, <2>2
<1> HIDE DEF good
<1>4. Len(job') = Len(job)
  <2>1. PICK f : f = job'
    OBVIOUS
  <2>2. PICK S : S = {f[id] : id \in 1 .. Len(job)}
    OBVIOUS
  <2>3. f \in [1 .. Len(job) -> S]
    BY <1>1, <1>2, <2>1, <2>2
  <2> QED BY <1>2, <2>1, <2>3, FunctionLen
<1>5. ASSUME NEW id \in 1 .. Len(job)
      PROVE  /\ job'[id].req = job[id].req /\ job'[id].rev = job[id].rev
             /\ job'[id].cancelled = job[id].cancelled /\ job'[id].committing = job[id].committing
             /\ ~turned(id) => SameJob(id)
             /\ turned(id) => job'[id].result = outcome
  <2>1. PICK j \in JobRecords : j = job[id]
    BY <1>2, <1>5
  <2>2. PICK k : k = [j EXCEPT !.result = outcome, !.before = EmptyRoot, !.after = EmptyRoot]
    OBVIOUS
  <2>3. k.req = j.req /\ k.rev = j.rev /\ k.cancelled = j.cancelled /\ k.committing = j.committing /\ k.result = outcome
    BY <2>1, <2>2 DEF JobRecords
  <2>4. CASE turned(id)
    <3>1. job'[id] = k
      BY <1>1, <1>2, <1>3, <1>5, <2>1, <2>2, <2>4
    <3> QED BY <2>1, <2>3, <2>4, <3>1
  <2>5. CASE ~turned(id)
    <3>1. job'[id] = job[id]
      BY <1>1, <1>2, <1>3, <1>5, <2>5
    <3> QED BY <2>5, <3>1 DEF SameJob
  <2> QED BY <2>4, <2>5
<1> QED BY <1>1, <1>4, <1>5 DEF Installing


\* The main thread's side stands, and the flags move to failure alone.
LEMMA WriterSteady ==
    ASSUME Receiving, Works \/ Breaks, UNCHANGED receive
    PROVE  Steady
<1>1. {admission, failed} \subseteq BOOLEAN /\ stopping = FALSE /\ admission = ~failed
  BY DEF Receiving
<1>2. UNCHANGED <<rounds, reconcile, ready, view>>
  BY DEF receive
<1>3. UNCHANGED <<authority, stopping>>
  BY DEF Works, Breaks, Take, End, Check, Continue, Prepare, Barrier, Commit, Install, Complete,
     PrepareFails, BarrierFails, CommitFails, CompleteFails, flags
<1>4. \/ UNCHANGED <<admission, failed>>
      \/ \E bad \in BOOLEAN : failed' = (failed \/ bad) /\ admission' = (admission /\ ~bad)
  <2>1. CASE UNCHANGED flags
    BY <2>1 DEF flags
  <2>2. CASE PrepareFails
    <3>1. PICK result \in {"LIMIT", "ERROR"} :
             failed' = (failed \/ result = "ERROR") /\ admission' = (admission /\ result # "ERROR")
      BY <2>2 DEF PrepareFails
    <3>2. PICK bad \in BOOLEAN : bad <=> result = "ERROR"
      OBVIOUS
    <3> QED BY <3>1, <3>2
  <2>3. CASE Install
    <3>1. failed' = (failed \/ outcome = "ERROR") /\ admission' = (admission /\ outcome # "ERROR")
      BY <2>3 DEF Install
    <3>2. PICK bad \in BOOLEAN : bad <=> outcome = "ERROR"
      OBVIOUS
    <3> QED BY <3>1, <3>2
  <2>4. CASE CompleteFails
    <3>1. failed' = TRUE /\ admission' = FALSE
      BY <2>4 DEF CompleteFails
    <3> QED BY <1>1, <3>1
  <2>5. CASE BarrierFails \/ CommitFails
    BY <2>5 DEF BarrierFails, CommitFails
  <2> QED BY <2>1, <2>2, <2>3, <2>4, <2>5 DEF Works, Breaks, Take, End, Check, Continue, Prepare,
         Barrier, Commit, Complete
<1>5. {admission', failed'} \subseteq BOOLEAN /\ admission' = ~failed' /\ (failed => failed')
  <2>1. CASE UNCHANGED <<admission, failed>>
    BY <1>1, <2>1
  <2>2. CASE \E bad \in BOOLEAN : failed' = (failed \/ bad) /\ admission' = (admission /\ ~bad)
    <3>1. PICK bad \in BOOLEAN : failed' = (failed \/ bad) /\ admission' = (admission /\ ~bad)
      BY <2>2
    <3>2. CASE bad = TRUE
      BY <1>1, <3>1, <3>2
    <3>3. CASE bad = FALSE
      BY <1>1, <3>1, <3>3
    <3> QED BY <3>2, <3>3
  <2> QED BY <1>4, <2>1, <2>2
<1> QED BY <1>1, <1>2, <1>3, <1>5 DEF Steady

\* Every step of the writer is one of these.
LEMMA WriterKinds ==
    ASSUME FullInvariant, Receiving, Works \/ Breaks
    PROVE  Take \/ Going \/ (\E a : Tries(a)) \/ Passing \/ Turning \/ Commit \/ Installing \/ Completing
<1>2. ReceiveInvariant /\ stopping = FALSE
  BY Places DEF Receiving
<1>3. ~End
  BY <1>2 DEF End
<1>4. CASE Check
  <2>1. CASE Valid(group[at])
    BY <1>4, <2>1, CheckGoes
  <2>2. CASE ~Valid(group[at])
    BY <1>2, <1>4, <2>2, CheckTries
  <2> QED BY <2>1, <2>2
<1>5. CASE Continue
  <2>1. pc = "prepare" /\ pc' = "check"
        /\ UNCHANGED <<pending, group, at, candidate, outcome, durable, own, job, completed>>
    BY <1>5 DEF Continue
  <2> QED BY <2>1 DEF Going
<1>6. CASE Complete \/ CompleteFails
  BY <1>6 DEF Complete, CompleteFails, Completing
<1>7. CASE Prepare \/ PrepareFails
  BY <1>2, <1>7, PrepareTries, FailsTries
<1>8. CASE Barrier \/ BarrierFails \/ CommitFails
  BY <1>8, BarrierGoes
<1>9. CASE Install
  BY <1>9, InstallGoes
<1> QED BY <1>3, <1>4, <1>5, <1>6, <1>7, <1>8, <1>9 DEF Works, Breaks

-----------------------------------------------------------------------------
(* Numbers after a step of the writer.                                        *)

Staying == UNCHANGED <<pending, group, completed>> /\ Len(job') = Len(job)

LEMMA Stays ==
    ASSUME Staying
    PROVE  Taken' = Taken /\ Handed' = Handed /\ Told' = Told /\ Len(group') = Len(group)
BY DEF Staying, Taken, Handed, Told

LEMMA StaysWork ==
    ASSUME FullInvariant, Receiving, Steady, Staying, Worked' \in Nat, Worked <= Worked',
           pc' = "commit" => at' = Len(group) + 1,
           \A id \in 1 .. Len(job) :
              /\ job'[id].req = job[id].req /\ job'[id].rev = job[id].rev /\ job'[id].cancelled = job[id].cancelled
              /\ job[id].committing => job'[id].committing
              /\ id > Taken => job'[id].committing = job[id].committing
              /\ id <= Handed \/ id > Worked' => job'[id].result = job[id].result
    PROVE  WriterWork /\ Receiving'
<1>1. Taken' = Taken /\ Handed' = Handed /\ Told' = Told /\ Len(group') = Len(group) /\ Len(job') = Len(job)
      /\ UNCHANGED <<completed, rounds, reconcile, ready, view, authority>>
  BY Stays DEF Staying, Steady
<1>2. Handed \in Nat /\ Len(job) \in Nat /\ Worked \in Nat /\ Taken \in Nat
  BY Places
<1>3. WriterWork
  BY <1>1, <1>2 DEF WriterWork, Pursued
<1>4. ASSUME NEW id \in 1 .. Len(job)
      PROVE  (id > Worked' => job'[id].result = "none") /\ (id > Taken => ~job'[id].committing)
  <2>1. /\ id > Worked => job[id].result = "none"
        /\ id > Taken => ~job[id].committing
    BY DEF Receiving
  <2>2. id > Worked' => id > Worked
    BY <1>2
  <2> QED BY <2>1, <2>2
<1>5. /\ completed' \in Seq(Nat) /\ 0 <= Told'
      /\ \A i \in 1 .. Len(completed') : completed'[i] = Told' + i
      /\ {admission', failed'} \subseteq BOOLEAN /\ stopping' = FALSE /\ admission' = ~failed'
      /\ pc' = "commit" => at' = Len(group') + 1
  BY <1>1 DEF Receiving, Steady
<1> QED BY <1>1, <1>3, <1>4, <1>5 DEF Receiving

LEMMA GoingNumbers ==
    ASSUME FullInvariant, Receiving, Steady, Going
    PROVE  /\ WriterWork /\ Receiving' /\ Handed' = Handed /\ Taken' = Taken
           /\ Worked' = Worked /\ Known = Handed /\ Known' = Handed
<1>1. Staying /\ UNCHANGED <<at, job>>
  BY DEF Going, Staying
<1>2. Taken' = Taken /\ Handed' = Handed
  BY <1>1, Stays
<1>3. Worked' = Worked /\ Known = Handed /\ Known' = Handed /\ Worked \in Nat
  BY <1>1, <1>2, Places DEF Going, Worked, Known, Recorded, Preparing
<1>4. WriterWork /\ Receiving'
  BY <1>1, <1>3, StaysWork DEF Going
<1> QED BY <1>2, <1>3, <1>4

LEMMA TryNumbers ==
    ASSUME FullInvariant, Receiving, Steady, NEW a, Tries(a)
    PROVE  LET id == Handed + at
           IN  /\ WriterWork /\ Receiving' /\ Handed' = Handed /\ Taken' = Taken
               /\ id = Worked + 1 /\ Worked' = id /\ Known = Handed /\ Known' = Handed
               /\ id \in Handed + 1 .. Taken /\ id \in 1 .. Len(job)
<1>1. Staying /\ at' = at + 1 /\ pc \in {"check", "prepare"} /\ pc' = "check" /\ at <= Len(group)
  BY DEF Tries, Staying
<1>2. Taken' = Taken /\ Handed' = Handed
  BY <1>1, Stays
<1>3. Handed \in Nat /\ at \in 1 .. Len(group) + 1 /\ Taken = Handed + Len(group) /\ Len(job) \in Nat
      /\ Taken <= Len(job) /\ Len(group) \in Nat
  BY <1>1, Places DEF Line, Preparing
<1>4. /\ Worked' = Handed + at /\ Handed + at = Worked + 1 /\ Known = Handed /\ Known' = Handed
      /\ Handed + at \in Handed + 1 .. Taken /\ Handed + at \in 1 .. Len(job)
  BY <1>1, <1>2, <1>3 DEF Worked, Known, Recorded, Preparing
<1>5. \A id \in 1 .. Len(job) :
         /\ job'[id].req = job[id].req /\ job'[id].rev = job[id].rev /\ job'[id].cancelled = job[id].cancelled
         /\ job'[id].committing = job[id].committing
         /\ id # Handed + at => job'[id].result = job[id].result
  BY DEF Tries
<1>6. \A id \in 1 .. Len(job) : id <= Handed \/ id > Worked' => job'[id].result = job[id].result
  BY <1>3, <1>4, <1>5
<1>7. Worked' \in Nat /\ Worked <= Worked' /\ pc' # "commit"
  <2>1. Worked \in Nat
    BY Places
  <2> QED BY <1>1, <1>3, <1>4, <2>1
<1>8. WriterWork /\ Receiving'
  BY <1>1, <1>5, <1>6, <1>7, StaysWork
<1> QED BY <1>2, <1>4, <1>8

LEMMA PassNumbers ==
    ASSUME FullInvariant, Receiving, Steady, Passing
    PROVE  /\ WriterWork /\ Receiving' /\ Handed' = Handed /\ Taken' = Taken
           /\ Worked' = Worked /\ Known = Handed /\ Known' = Handed
<1>1. Staying /\ at' = at /\ pc = "check" /\ pc' = "commit" /\ at = Len(group) + 1
  BY DEF Passing, Staying
<1>2. Taken' = Taken /\ Handed' = Handed
  BY <1>1, Stays
<1>3. Worked' = Worked /\ Known = Handed /\ Known' = Handed /\ Worked \in Nat
  BY <1>1, <1>2, Places DEF Worked, Known, Recorded, Preparing
<1>4. WriterWork /\ Receiving'
  BY <1>1, <1>3, StaysWork DEF Passing, SameJob
<1> QED BY <1>2, <1>3, <1>4

LEMMA TurnNumbers ==
    ASSUME FullInvariant, Receiving, Steady, Turning
    PROVE  /\ WriterWork /\ Receiving' /\ Handed' = Handed /\ Taken' = Taken
           /\ Worked = Taken /\ Worked' = Taken /\ Known = Handed
           /\ Known' = (IF outcome' = "OK" THEN Taken ELSE Handed)
<1>1. Staying /\ at' = at /\ pc \in {"check", "commit"} /\ pc' = "install" /\ at = Len(group) + 1 /\ job' = job
  BY DEF Turning, Staying
<1>2. Taken' = Taken /\ Handed' = Handed
  BY <1>1, Stays
<1>3. /\ Worked = Taken /\ Worked' = Taken /\ Known = Handed /\ Taken \in Nat
      /\ Known' = (IF outcome' = "OK" THEN Taken ELSE Handed)
  BY <1>1, <1>2, Places DEF Worked, Known, Recorded, Preparing
<1>4. WriterWork /\ Receiving'
  BY <1>1, <1>3, StaysWork
<1> QED BY <1>2, <1>3, <1>4

LEMMA CommitNumbers ==
    ASSUME FullInvariant, Receiving, Steady, Commit
    PROVE  /\ WriterWork /\ Receiving' /\ Handed' = Handed /\ Taken' = Taken
           /\ Worked = Taken /\ Worked' = Taken /\ Known = Handed /\ Known' = Taken /\ outcome' = "OK"
<1>1. Staying /\ at' = at /\ pc = "commit" /\ pc' = "install" /\ job' = job /\ outcome' = outcome
  BY DEF Commit, Staying
<1>2. Taken' = Taken /\ Handed' = Handed
  BY <1>1, Stays
<1>3. outcome = "OK" /\ at = Len(group) + 1
  BY <1>1, Places DEF Line, Preparing, Receiving
<1>4. Worked = Taken /\ Worked' = Taken /\ Known = Handed /\ Known' = Taken /\ Taken \in Nat
  BY <1>1, <1>2, <1>3, Places DEF Worked, Known, Recorded, Preparing
<1>5. WriterWork /\ Receiving'
  BY <1>1, <1>4, StaysWork
<1> QED BY <1>1, <1>2, <1>3, <1>4, <1>5

LEMMA InstallNumbers ==
    ASSUME FullInvariant, Receiving, Steady, Installing
    PROVE  /\ WriterWork /\ Receiving' /\ Handed' = Handed /\ Taken' = Taken
           /\ Worked = Taken /\ Worked' = Taken
           /\ Known = (IF outcome = "OK" THEN Taken ELSE Handed) /\ Known' = Taken
<1>1. Staying /\ pc = "install" /\ pc' = "complete"
  BY DEF Installing, Staying
<1>2. Taken' = Taken /\ Handed' = Handed
  BY <1>1, Stays
<1>3. /\ Worked = Taken /\ Worked' = Taken /\ Known' = Taken /\ Taken \in Nat /\ Handed \in Nat
      /\ Known = (IF outcome = "OK" THEN Taken ELSE Handed)
  BY <1>1, <1>2, Places DEF Worked, Known, Recorded, Preparing
<1>4. WriterWork /\ Receiving'
  BY <1>1, <1>3, StaysWork DEF Installing, SameJob
<1> QED BY <1>2, <1>3, <1>4

LEMMA TakeNumbers ==
    ASSUME FullInvariant, Receiving, Steady, Take
    PROVE  /\ WriterWork /\ Receiving' /\ Handed' = Handed /\ Taken' \in Nat /\ Taken' <= Len(job)
           /\ Worked = Handed /\ Taken = Handed /\ Worked' = Handed /\ Known = Handed /\ Known' = Handed
<1>1. pc = "wait" /\ pending # <<>> /\ pc' = "check" /\ at' = 1 /\ UNCHANGED <<job, completed>>
  BY DEF Take
<1>2. /\ pending \in Seq(Nat) /\ GroupMax \in Nat \ {0} /\ Handed \in Nat /\ Taken \in Nat /\ Len(job) \in Nat
      /\ group = <<>> /\ Len(pending) \in Nat /\ Len(job) = Taken + Len(pending)
  BY <1>1, Places, Numbers, WriterAssumption DEF Types, Line
<1>3. PICK n : n = IF Len(pending) < GroupMax THEN Len(pending) ELSE GroupMax
  OBVIOUS
<1>4. n \in Nat /\ n <= Len(pending)
  BY <1>2, <1>3
<1>5. group' = SubSeq(pending, 1, n) /\ pending' = SubSeq(pending, n + 1, Len(pending))
  BY <1>3 DEF Take
<1>6. Len(group') = n /\ Len(pending') = Len(pending) - n
  BY <1>2, <1>4, <1>5
<1>7. Taken' = Taken + n /\ Taken' \in Nat /\ Taken' <= Len(job)
  BY <1>1, <1>2, <1>4, <1>6 DEF Taken
<1>8. Handed' = Taken /\ Handed = Taken
  BY <1>2, <1>6, <1>7 DEF Handed
<1>9. Told' = Told /\ Worked = Handed /\ Worked' = Handed /\ Known = Handed /\ Known' = Handed
  BY <1>1, <1>2, <1>8 DEF Told, Worked, Known, Recorded, Preparing
<1>10. WriterWork
  BY <1>1, <1>2, <1>8, <1>9 DEF WriterWork, Pursued, Steady
<1>11. \A id \in 1 .. Len(job) : (id > Worked' => job'[id].result = "none") /\ (id > Taken' => ~job'[id].committing)
  BY <1>1, <1>2, <1>4, <1>7, <1>9 DEF Receiving
<1>12. Receiving'
  BY <1>1, <1>9, <1>11 DEF Receiving, Steady
<1> QED BY <1>7, <1>8, <1>9, <1>10, <1>12

LEMMA CompleteNumbers ==
    ASSUME FullInvariant, Receiving, Steady, Completing
    PROVE  /\ WriterWork /\ Receiving' /\ Handed' = Taken /\ Taken' = Taken
           /\ Worked = Taken /\ Worked' = Taken /\ Known = Taken /\ Known' = Taken
<1>1. /\ pc = "complete" /\ pc' = "wait" /\ completed' = completed \o group /\ group' = <<>>
      /\ UNCHANGED <<pending, job>>
  BY DEF Completing
<1>2. /\ group \in Seq(Nat) /\ Handed \in Nat /\ Taken \in Nat /\ Len(job) \in Nat /\ Taken = Handed + Len(group)
      /\ Len(group) \in Nat /\ completed \in Seq(Nat) /\ Len(completed) \in Nat
      /\ Handed = Told + Len(completed) /\ Told \in Nat /\ Handed <= Taken /\ Taken <= Len(job)
  <2>1. group \in Seq(Nat) /\ completed \in Seq(Nat)
    BY Places DEF Types, Receiving
  <2>2. /\ Handed \in Nat /\ Taken \in Nat /\ Len(job) \in Nat /\ Taken = Handed + Len(group)
        /\ Len(group) \in Nat /\ Len(completed) \in Nat /\ Handed = Told + Len(completed) /\ Told \in Nat
    BY Places
  <2>3. Handed <= Taken /\ Taken <= Len(job)
    BY Places
  <2> QED BY <2>1, <2>2, <2>3
<1>3. Taken' = Taken /\ Handed' = Taken
  BY <1>1, <1>2 DEF Taken, Handed
<1>4. completed' \in Seq(Nat) /\ Len(completed') = Len(completed) + Len(group)
  BY <1>1, <1>2
<1>5. Told' = Told
  BY <1>2, <1>3, <1>4 DEF Told
<1>6. Worked = Taken /\ Worked' = Taken /\ Known = Taken /\ Known' = Taken
  BY <1>1, <1>3 DEF Worked, Known, Recorded, Preparing
<1>7. WriterWork
  BY <1>1, <1>2, <1>3, <1>5 DEF WriterWork, Pursued, Steady
<1>8. ASSUME NEW i \in 1 .. Len(completed') PROVE completed'[i] = Told' + i
  <2>1. CASE i <= Len(completed)
    <3>1. completed'[i] = completed[i]
      BY <1>1, <1>2, <1>4, <2>1
    <3> QED BY <1>2, <1>4, <1>5, <2>1, <3>1 DEF Receiving
  <2>2. CASE i > Len(completed)
    <3>1. PICK k : k = i - Len(completed)
      OBVIOUS
    <3>2. k \in 1 .. Len(group) /\ completed'[i] = group[k]
      BY <1>1, <1>2, <1>4, <2>2, <3>1
    <3>3. group[k] = Handed + k
      BY <3>2, Grouped
    <3> QED BY <1>2, <1>4, <1>5, <3>1, <3>2, <3>3
  <2> QED BY <1>2, <1>4, <2>1, <2>2
<1>9. \A id \in 1 .. Len(job) : (id > Worked' => job'[id].result = "none") /\ (id > Taken' => ~job'[id].committing)
  BY <1>1, <1>3, <1>6 DEF Receiving
<1>10. 0 <= Told' /\ pc' # "commit"
  BY <1>1, <1>2, <1>5
<1>11. Receiving'
  BY <1>1, <1>4, <1>8, <1>9, <1>10 DEF Receiving, Steady
<1> QED BY <1>3, <1>6, <1>7, <1>11

-----------------------------------------------------------------------------
(* What a step of the writer leaves of the invariant.                         *)

LEMMA SameKinds ==
    ASSUME WriterWork
    PROVE  \A id \in 1 .. Len(job) : /\ Kind(id)' = Kind(id) /\ Owner(id)' = Owner(id) /\ job'[id].req = job[id].req
                                     /\ job'[id].rev = job[id].rev /\ job'[id].cancelled = job[id].cancelled
BY DEF WriterWork, Pursued, Kind, Owner

LEMMA ApartKept ==
    ASSUME FullInvariant, Receiving, Apart, WriterWork, Handed' = Handed, Taken' = Taken,
           \A id \in Handed + 1 .. Taken : Idle(id) => /\ job'[id].result \in {"none", "BUSY"}
                                                       /\ pc' = "prepare" => id # Handed + at'
    PROVE  Apart'
<1>1. UNCHANGED authority
  BY DEF WriterWork
<1>2. Handed \in Nat /\ Taken \in Nat /\ Taken <= Len(job) /\ Len(job) \in Nat
  BY Places
<1>3. ASSUME NEW id \in Handed + 1 .. Taken, Idle(id) PROVE Idle(id)'
  <2>1. id \in 1 .. Len(job)
    BY <1>2
  <2>2. job'[id].rev = job[id].rev /\ job'[id].cancelled = job[id].cancelled
    BY <2>1, SameKinds
  <2> QED BY <1>1, <1>3, <2>2 DEF Idle
<1>4. \A id \in Handed + 1 .. Taken : id \in 1 .. Len(job) /\ Kind(id)' = Kind(id) /\ Owner(id)' = Owner(id)
  BY <1>2, SameKinds
<1> QED BY <1>3, <1>4 DEF Apart

LEMMA OverKept ==
    ASSUME FullInvariant, Receiving, Over, Steady, WriterWork,
           \A o \in Owners : /\ own[o] = NoStage
                             /\ \A id \in Handed + 1 .. Len(job) : Owner(id) = o => Kind(id) = "ABORT"
                             => own'[o] = NoStage
    PROVE  Over'
<1>1. UNCHANGED rounds /\ Len(job') = Len(job) /\ Handed <= Handed' /\ Handed' \in Nat /\ (failed => failed')
  BY DEF WriterWork, Steady
<1>2. Handed \in Nat /\ Len(job) \in Nat
  BY Places
<1>3. \A id \in Handed' + 1 .. Len(job) : /\ id \in Handed + 1 .. Len(job)
                                          /\ Kind(id)' = Kind(id) /\ Owner(id)' = Owner(id)
  <2>1. \A id \in Handed' + 1 .. Len(job) : id \in Handed + 1 .. Len(job) /\ id \in 1 .. Len(job)
    BY <1>1, <1>2
  <2> QED BY <2>1, SameKinds
<1>4. ASSUME ~failed', NEW o \in Owners, rounds[o].phase = "gone"
      PROVE  own'[o] = NoStage /\ \A id \in Handed' + 1 .. Len(job) : Owner(id)' = o => Kind(id)' = "ABORT"
  <2>1. own[o] = NoStage /\ \A id \in Handed + 1 .. Len(job) : Owner(id) = o => Kind(id) = "ABORT"
    BY <1>1, <1>4 DEF Over
  <2> QED BY <1>3, <2>1
<1> QED BY <1>1, <1>4 DEF Over

LEMMA Later ==
    ASSUME NEW n \in Nat, NEW m \in Nat, NEW l \in Nat, n <= m
    PROVE  \A id \in m + 1 .. l : id \in n + 1 .. l /\ id \in 1 .. l
OBVIOUS

\* What is served stays.
SameStore == ready => durable'.blocks = durable.blocks /\ Lineage(durable)' = Lineage(durable)

LEMMA BellKept ==
    ASSUME FullInvariant, Receiving, Bell, WriterWork,
           SameStore
    PROVE  Bell'
<1>1. UNCHANGED <<rounds, reconcile, ready, view>> /\ Len(job') = Len(job) /\ Handed <= Handed' /\ Handed' \in Nat
  BY DEF WriterWork
<1>2. Handed \in Nat /\ Len(job) \in Nat
  BY Places
<1>3. \A id \in Handed' + 1 .. Len(job) : id \in Handed + 1 .. Len(job) /\ Kind(id)' = Kind(id)
  <2>1. Handed <= Handed' /\ Handed' \in Nat
    BY <1>1
  <2>2. \A id \in Handed' + 1 .. Len(job) : id \in Handed + 1 .. Len(job) /\ id \in 1 .. Len(job)
    BY <1>2, <2>1, Later
  <2> QED BY <2>2, SameKinds
<1>4. ASSUME ready
      PROVE  /\ reconcile = 0 /\ \A id \in Handed' + 1 .. Len(job) : Kind(id)' # "PROMOTE"
             /\ view = Lineage(durable')
             /\ \E o \in Owners : rounds'[o].phase = "gone" /\ Born(o)' /\ Announces(durable, o)'
  <2>1. /\ reconcile = 0 /\ \A id \in Handed + 1 .. Len(job) : Kind(id) # "PROMOTE"
        /\ view = Lineage(durable)
    BY <1>4 DEF Bell
  <2>2. PICK o \in Owners : rounds[o].phase = "gone" /\ Born(o) /\ Announces(durable, o)
    BY <1>4 DEF Bell
  <2>3. Born(o)'
    BY <1>1, <2>2 DEF Born
  <2>4. AnnouncedBlocks(rounds'[o].wire) = AnnouncedBlocks(rounds[o].wire) /\ Promise(o)' = Promise(o)
    BY <1>1 DEF Promise
  <2>5. durable'.blocks = durable.blocks /\ Lineage(durable') = Lineage(durable)
    BY <1>4 DEF SameStore
  <2>6. Announces(durable, o)'
    BY <2>2, <2>4, <2>5, <1>1 DEF Announces, Promise
  <2> QED BY <1>1, <1>3, <1>4, <2>1, <2>2, <2>3, <2>5, <2>6
<1> QED BY <1>1, <1>4 DEF Bell

\* What holds of a root set up to job n holds of it up to m, if the jobs in between did nothing.
LEMMA HoldsOn ==
    ASSUME FullInvariant, Receiving, WriterWork, NEW root, NEW n \in Nat, NEW m \in Nat, n <= m, m <= Len(job),
           Holds(root, n), \A id \in 1 .. n : job'[id].result = job[id].result,
           \A id \in n + 1 .. m : /\ job'[id].result # "OK"
                                  /\ Kind(id) \in Closers /\ job'[id].result = "STAGED" =>
                                        root.stages[Owner(id)] = NoStage
    PROVE  Holds(root, m)'
<1>1. UNCHANGED rounds
  BY DEF WriterWork
<1>2. \A id \in 1 .. m : id \in 1 .. Len(job) /\ (id \in 1 .. n \/ id \in n + 1 .. m)
  BY Places
<1>3. \A id \in 1 .. m : Kind(id)' = Kind(id) /\ Owner(id)' = Owner(id) /\ job'[id].req = job[id].req
  BY <1>2, SameKinds
<1>4. \A id \in 1 .. m : Good(id)' => id \in 1 .. n /\ Good(id)
  BY <1>2 DEF Good
<1>5. Covers(root, m)'
  BY <1>1, <1>3, <1>4 DEF Covers, Holds
<1>6. Closed(root, m)'
  <2>1. ASSUME NEW id \in 1 .. m, Kind(id) \in Closers, Takes(id)' PROVE root.stages[Owner(id)] = NoStage
    <3>1. CASE id \in 1 .. n
      BY <2>1, <3>1 DEF Holds, Closed, Takes
    <3>2. CASE id \in n + 1 .. m
      BY <2>1, <3>2 DEF Takes
    <3> QED BY <1>2, <3>1, <3>2
  <2> QED BY <1>3, <2>1 DEF Closed, Closers
<1>7. Served(root, m)'
  <2>1. \A id \in 1 .. m : Promotion(id)' => id \in 1 .. n /\ Promotion(id)
    BY <1>3, <1>4 DEF Promotion
  <2>2. \A id \in 1 .. n : Promotion(id)' <=> Promotion(id)
    <3>1. \A id \in 1 .. n : id \in 1 .. m
      OBVIOUS
    <3> QED BY <1>3, <3>1 DEF Promotion, Good
  <2>3. ASSUME NEW id \in 1 .. m, Promotion(id)', \A other \in id + 1 .. m : ~Promotion(other)'
        PROVE  Announces(root, Owner(id))'
    <3>1. id \in 1 .. n /\ Promotion(id)
      BY <2>1, <2>3
    <3>2. \A other \in id + 1 .. n : other \in id + 1 .. m /\ other \in 1 .. n
      BY <3>1
    <3>3. Announces(root, Owner(id))
      BY <2>2, <2>3, <3>1, <3>2 DEF Holds, Served
    <3>4. Owner(id)' = Owner(id)
      BY <1>3
    <3> QED BY <1>1, <3>3, <3>4 DEF Announces, Promise
  <2> QED BY <2>3 DEF Served
<1> QED BY <1>5, <1>6, <1>7 DEF Holds

\* The receipts of promotions and the turned-away closers, by job.
Settles(id) ==
    /\ Promotion(id) => Exact(id)
    /\ Kind(id) \in Closers /\ job[id].result = "STAGED" => durable.stages[Owner(id)] = NoStage

LEMMA SettlesKept ==
    ASSUME FullInvariant, WriterWork, NEW id \in 1 .. Len(job), Settles(id),
           job'[id].result \in {"OK", "STAGED"} => SameJob(id) /\ UNCHANGED durable
    PROVE  Settles(id)'
<1>1. UNCHANGED rounds /\ Kind(id)' = Kind(id) /\ Owner(id)' = Owner(id) /\ job'[id].req = job[id].req
  BY SameKinds DEF WriterWork
<1>2. ASSUME Promotion(id)' PROVE Exact(id)'
  <2>1. SameJob(id)
    BY <1>2 DEF Promotion, Good
  <2>2. Exact(id)
    BY <1>1, <1>2, <2>1 DEF Promotion, Good, Settles, SameJob
  <2> QED BY <1>1, <2>1, <2>2 DEF Exact, Moves, Promise, SameJob
<1>3. ASSUME Kind(id) \in Closers, job'[id].result = "STAGED" PROVE durable'.stages[Owner(id)] = NoStage
  <2>1. SameJob(id) /\ UNCHANGED durable
    BY <1>3
  <2> QED BY <1>3, <2>1 DEF Settles, SameJob
<1> QED BY <1>1, <1>2, <1>3 DEF Settles, Closers

\* The groups of the invariant a step of the writer may disturb.
Disturbed == Apart /\ Sets /\ Control /\ Over /\ Bell

\* The controllers of rounds whose closing was reported.
LEMMA ClosedOwn ==
    ASSUME FullInvariant, Receiving, WriterWork, Control, Handed' = Handed,
           \A o \in Owners : own[o] = NoStage => own'[o] = NoStage
    PROVE  \A id \in 1 .. Handed' : Kind(id)' \in Closers /\ Takes(id)' => own'[Owner(id)'] = NoStage
<1>1. \A id \in 1 .. Handed : id \in 1 .. Len(job)
  BY Places
<1>2. \A id \in 1 .. Handed : /\ Kind(id)' = Kind(id) /\ Owner(id)' = Owner(id) /\ Owner(id) \in Owners
                              /\ job'[id].result = job[id].result
  <2>1. Handed <= Len(job) /\ Handed \in Nat /\ ReceiveInvariant
    BY Places
  <2>2. \A id \in 1 .. Handed : job'[id].result = job[id].result
    BY <1>1, <2>1 DEF WriterWork, Pursued
  <2> QED BY <1>1, <2>1, <2>2, SameKinds, Speech
<1> QED BY <1>2 DEF Control, Takes

LEMMA GoingDisturbs ==
    ASSUME FullInvariant, RoundsInvariant, Steady, Going
    PROVE  Disturbed'
<1>1. Receiving /\ Course /\ Revisions /\ Disturbed
  BY DEF RoundsInvariant, Disturbed
<1>2. WriterWork /\ Handed' = Handed /\ Taken' = Taken /\ Worked' = Worked /\ Known = Handed /\ Known' = Handed
  BY <1>1, GoingNumbers
<1>3. /\ pc \in {"check", "prepare"} /\ pc' \in {"check", "prepare"} /\ pc \in Preparing /\ pc' \in Preparing
      /\ pc' = "prepare" => at <= Len(group) /\ Valid(Handed + at)
      /\ UNCHANGED <<pending, group, at, candidate, outcome, durable, own, job, completed, rounds, authority>>
  BY <1>2 DEF Going, Preparing, WriterWork
<1>4. \A id : /\ Kind(id)' = Kind(id) /\ Owner(id)' = Owner(id) /\ Good(id)' = Good(id)
              /\ Takes(id)' = Takes(id) /\ Promotion(id)' = Promotion(id)
  BY <1>3 DEF Kind, Owner, Good, Takes, Promotion
<1>5. Handed \in Nat /\ Taken \in Nat /\ authority \in Nat
  BY <1>1, Places
<1>6. Apart'
  <2>1. ASSUME NEW id \in Handed + 1 .. Taken, Idle(id) PROVE job[id].result \in {"none", "BUSY"} /\ (pc' = "prepare" => id # Handed + at')
    <3>1. job[id].result \in {"none", "BUSY"} /\ (job[id].cancelled \/ job[id].rev < authority)
      BY <2>1 DEF Idle
    <3>2. ~Valid(id)
      BY <1>5, <3>1 DEF Valid
    <3> QED BY <1>3, <3>1, <3>2
  <2> QED BY <1>1, <1>2, <1>3, <2>1, ApartKept DEF Disturbed
<1>7. Sets'
  <2>1. \A root, n : Holds(root, n)' <=> Holds(root, n)
    BY <1>3, <1>4 DEF Holds, Covers, Closed, Served, Announces, Promise
  <2>2. Tried' = Tried /\ \A o : Of(o)' = Of(o)
    BY <1>2, <1>4 DEF Tried, Of
  <2>3. Differs' <=> Differs
    BY <1>3, <1>4, <2>2 DEF Differs
  <2>4. \A id \in 1 .. Len(job) : (Promotion(id) => Exact(id)) => (Promotion(id)' => Exact(id)')
    BY <1>3, <1>4 DEF Exact, Moves, Promise
  <2>5. Holds(durable, Known)' /\ Holds(candidate, Worked)'
    BY <1>1, <1>2, <1>3, <2>1 DEF Disturbed, Sets
  <2> QED BY <1>1, <1>3, <1>4, <2>3, <2>4, <2>5 DEF Disturbed, Sets
<1>8. Control'
  <2>1. \A o : Of(o)' = Of(o)
    BY <1>2, <1>4 DEF Tried, Of
  <2> QED BY <1>1, <1>2, <1>3, <1>4, <2>1 DEF Disturbed, Control, Healthy
<1>9. Over'
  BY <1>1, <1>2, <1>3, OverKept DEF Disturbed
<1>10. Bell'
  BY <1>1, <1>2, <1>3, BellKept DEF Disturbed, SameStore
<1> QED BY <1>6, <1>7, <1>8, <1>9, <1>10 DEF Disturbed

\* A step that leaves the root sets, the controllers and the results as they are.
LEMMA StillSets ==
    ASSUME FullInvariant, Receiving, WriterWork, Handed' = Handed, Taken' = Taken, Worked' = Worked,
           UNCHANGED <<candidate, durable>>,
           \A id \in 1 .. Len(job) : job'[id].result = job[id].result
    PROVE  /\ \A root, n : n \in Nat /\ n <= Len(job) /\ Holds(root, n) => Holds(root, n)'
           /\ Tried' = Tried /\ (\A o : Of(o)' = Of(o)) /\ (Differs => Differs')
<1>1. ASSUME NEW root, NEW n \in Nat, n <= Len(job), Holds(root, n) PROVE Holds(root, n)'
  <2>1. /\ n <= n /\ \A id \in 1 .. n : job'[id].result = job[id].result
        /\ \A id \in n + 1 .. n : FALSE
    BY <1>1, Places
  <2> QED BY <1>1, <2>1, HoldsOn
<1>2. Tried' = Tried
  BY DEF Tried
<1>3. \A id \in Tried : id \in 1 .. Len(job)
  BY Places DEF Tried
<1>4. \A id \in Tried : /\ Kind(id)' = Kind(id) /\ Owner(id)' = Owner(id) /\ Good(id)' = Good(id)
                        /\ Promotion(id)' = Promotion(id)
  BY <1>3, SameKinds DEF Good, Promotion
<1>5. \A o : Of(o)' = Of(o)
  BY <1>2, <1>4 DEF Of
<1>6. \A o : \A id \in Of(o) : id \in Tried
  BY DEF Of
<1>7. Differs => Differs'
  BY <1>2, <1>4, <1>5, <1>6 DEF Differs
<1> QED BY <1>1, <1>2, <1>5, <1>7

LEMMA PassDisturbs ==
    ASSUME FullInvariant, RoundsInvariant, Steady, Passing
    PROVE  Disturbed'
<1>1. Receiving /\ Course /\ Revisions /\ Disturbed
  BY DEF RoundsInvariant, Disturbed
<1>2. WriterWork /\ Handed' = Handed /\ Taken' = Taken /\ Worked' = Worked /\ Known = Handed /\ Known' = Handed
  BY <1>1, PassNumbers
<1>3. /\ pc = "check" /\ pc' = "commit" /\ pc \in Preparing /\ pc' \in Preparing /\ Len(job') = Len(job)
      /\ UNCHANGED <<pending, group, at, candidate, outcome, durable, own, completed, rounds, authority>>
      /\ \A id \in 1 .. Len(job) : SameJob(id)
  BY <1>2 DEF Passing, Preparing, WriterWork
<1>4. /\ \A id \in 1 .. Len(job) : job'[id].result = job[id].result
      /\ \A id \in 1 .. Len(job) : /\ Kind(id)' = Kind(id) /\ Owner(id)' = Owner(id) /\ Good(id)' = Good(id)
                                   /\ Takes(id)' = Takes(id) /\ Promotion(id)' = Promotion(id)
  BY <1>2, <1>3, SameKinds DEF SameJob, Good, Takes, Promotion
<1>5. /\ Handed \in Nat /\ Taken \in Nat /\ Worked \in Nat /\ Handed <= Taken /\ Taken <= Len(job) /\ Worked <= Taken
      /\ Len(job) \in Nat
  BY <1>1, Places
<1>6. \A id \in Handed + 1 .. Taken : id \in 1 .. Len(job)
  BY <1>5
<1>7. Apart'
  <2>1. \A id \in Handed + 1 .. Taken : Idle(id) => job'[id].result \in {"none", "BUSY"} /\ (pc' = "prepare" => id # Handed + at')
    BY <1>3, <1>4, <1>6 DEF Idle
  <2> QED BY <1>1, <1>2, <2>1, ApartKept DEF Disturbed
<1>8. /\ \A root, n : n \in Nat /\ n <= Len(job) /\ Holds(root, n) => Holds(root, n)'
      /\ (\A o : Of(o)' = Of(o)) /\ (Differs => Differs')
  BY <1>1, <1>2, <1>3, <1>4, StillSets
<1>9. Sets'
  <2>1. Holds(durable, Handed) /\ Holds(candidate, Worked) /\ Differs /\ \A id \in 1 .. Len(job) : Settles(id)
    BY <1>1, <1>2, <1>3 DEF Disturbed, Sets, Settles
  <2>2. Holds(durable, Handed)' /\ Holds(candidate, Worked)' /\ Differs'
    <3>1. PICK base, made : base = durable /\ made = candidate
      OBVIOUS
    <3>2. PICK h, w : h = Handed /\ w = Worked
      OBVIOUS
    <3>3. Holds(base, h)' /\ Holds(made, w)'
      BY <1>5, <1>8, <2>1, <3>1, <3>2
    <3>4. durable' = base /\ candidate' = made /\ Handed' = h /\ Worked' = w
      BY <1>2, <1>3, <3>1, <3>2
    <3> QED BY <1>8, <2>1, <3>3, <3>4
  <2>3. \A id \in 1 .. Len(job) : Settles(id)'
    BY <1>1, <1>2, <1>3, <2>1, SettlesKept
  <2> QED BY <1>2, <1>3, <2>2, <2>3 DEF Sets, Settles
<1>10. Control'
  <2>1. \A id \in 1 .. Handed' : Kind(id)' \in Closers /\ Takes(id)' => own'[Owner(id)'] = NoStage
    BY <1>1, <1>2, <1>3, ClosedOwn DEF Disturbed
  <2>2. \A o : \A id \in Of(o) : id \in 1 .. Len(job)
    BY <1>5 DEF Of, Tried
  <2>3. \A o \in Owners : /\ own'[o] = NoStage => durable'.stages[o] = NoStage /\ candidate'.stages[o] = NoStage
                          /\ Healthy(own'[o]) /\ (\A id \in Of(o)' : ~(Kind(id)' \in Closers /\ Good(id)'))
                                => own'[o].ready = Mask(candidate'.stages[o])
    BY <1>1, <1>3, <1>4, <1>8, <2>2 DEF Disturbed, Control, Healthy
  <2> QED BY <1>3, <2>1, <2>3 DEF Control, Closers, Healthy
<1>11. Over'
  BY <1>1, <1>2, <1>3, OverKept DEF Disturbed
<1>12. Bell'
  BY <1>1, <1>2, <1>3, BellKept DEF Disturbed, SameStore
<1> QED BY <1>7, <1>9, <1>10, <1>11, <1>12 DEF Disturbed

\* The barrier finds nothing to commit, or the group is turned away.
LEMMA TurnDisturbs ==
    ASSUME FullInvariant, RoundsInvariant, Steady, Turning
    PROVE  Disturbed'
<1>1. Receiving /\ Course /\ Revisions /\ Disturbed
  BY DEF RoundsInvariant, Disturbed
<1>2. /\ WriterWork /\ Handed' = Handed /\ Taken' = Taken /\ Worked = Taken /\ Worked' = Taken /\ Known = Handed
      /\ Known' = (IF outcome' = "OK" THEN Taken ELSE Handed)
  BY <1>1, TurnNumbers
<1>3. /\ pc \in Preparing /\ pc' = "install" /\ pc' \notin Preparing /\ Len(job') = Len(job)
      /\ UNCHANGED <<candidate, durable, own, job, rounds, authority>>
      /\ outcome' = "OK" => \A id \in Tried : ~Good(id)
  BY <1>2 DEF Turning, Preparing, WriterWork
<1>4. \A id : /\ Kind(id)' = Kind(id) /\ Owner(id)' = Owner(id) /\ Good(id)' = Good(id)
              /\ Takes(id)' = Takes(id) /\ Promotion(id)' = Promotion(id)
  BY <1>3 DEF Kind, Owner, Good, Takes, Promotion
<1>5. Handed \in Nat /\ Taken \in Nat /\ Handed <= Taken /\ Taken <= Len(job) /\ Len(job) \in Nat
  BY <1>1, Places
<1>6. Apart'
  <2>1. \A id \in Handed + 1 .. Taken : Idle(id) => job'[id].result \in {"none", "BUSY"} /\ (pc' = "prepare" => id # Handed + at')
    BY <1>3 DEF Idle
  <2> QED BY <1>1, <1>2, <2>1, ApartKept DEF Disturbed
<1>7. Holds(durable, Handed) /\ Holds(candidate, Worked) /\ Differs /\ \A id \in 1 .. Len(job) : Settles(id)
  BY <1>1, <1>2, <1>3 DEF Disturbed, Sets, Settles
<1>8. Holds(durable, Known)'
  <2> DEFINE n == Handed
             m == IF outcome' = "OK" THEN Taken ELSE Handed
  <2>1. PICK base : base = durable
    OBVIOUS
  <2>2. n \in Nat /\ m \in Nat /\ n <= m /\ m <= Len(job)
    BY <1>5
  <2>3. ASSUME NEW id \in n + 1 .. m
        PROVE  /\ job'[id].result # "OK"
               /\ Kind(id) \in Closers /\ job'[id].result = "STAGED" => base.stages[Owner(id)] = NoStage
    <3>1. outcome' = "OK" /\ id \in Tried /\ id \in 1 .. Len(job)
      BY <1>2, <1>5, <2>3 DEF Tried
    <3>2. ~Good(id)
      BY <1>3, <3>1
    <3> QED BY <1>3, <1>7, <2>1, <3>1, <3>2 DEF Good, Settles
  <2>4. \A id \in 1 .. n : job'[id].result = job[id].result
    BY <1>3
  <2>5. Holds(base, n)
    BY <1>7, <2>1
  <2>6. PICK k, l : k = n /\ l = m
    OBVIOUS
  <2>7. Holds(base, l)'
    <3> HIDE DEF n, m
    <3>1. /\ k \in Nat /\ l \in Nat /\ k <= l /\ l <= Len(job) /\ Holds(base, k)
          /\ \A id \in 1 .. k : job'[id].result = job[id].result
          /\ \A id \in k + 1 .. l : /\ job'[id].result # "OK"
                                    /\ Kind(id) \in Closers /\ job'[id].result = "STAGED" => base.stages[Owner(id)] = NoStage
      BY <2>2, <2>3, <2>4, <2>5, <2>6
    <3> QED BY <1>1, <1>2, <3>1, HoldsOn
  <2>8. durable' = base /\ Known' = l
    BY <1>2, <1>3, <2>1, <2>6
  <2> QED BY <2>7, <2>8
<1>9. Sets'
  <2>1. \A id \in 1 .. Len(job) : Settles(id)'
    BY <1>1, <1>2, <1>3, <1>7, SettlesKept DEF SameJob
  <2> QED BY <1>3, <1>8, <2>1 DEF Sets, Settles
<1>10. Control'
  <2>1. \A id \in 1 .. Handed' : Kind(id)' \in Closers /\ Takes(id)' => own'[Owner(id)'] = NoStage
    BY <1>1, <1>2, <1>3, ClosedOwn DEF Disturbed
  <2>2. \A o : Of(o)' = Of(o)
    BY <1>2, <1>4 DEF Of, Tried
  <2>3. ASSUME NEW o \in Owners, Healthy(own[o]), Leaves(o)'
        PROVE  own[o].ready = Mask(durable.stages[o])
    <3>1. \A id \in Of(o) : /\ ~(Kind(id) \in Closers /\ Takes(id))
                            /\ outcome' # "OK" => ~Good(id)
      BY <1>3, <1>4, <2>2, <2>3 DEF Leaves, Closers
    <3>2. \A id \in Of(o) : id \in Tried
      BY DEF Of
    <3>3. \A id \in Of(o) : ~Good(id)
      BY <1>3, <3>1, <3>2
    <3>4. candidate.stages[o] = durable.stages[o]
      BY <1>7, <3>3 DEF Differs
    <3>5. own[o].ready = Mask(candidate.stages[o])
      BY <1>1, <1>3, <2>3, <3>3 DEF Disturbed, Control
    <3> QED BY <3>4, <3>5
  <2>4. \A o \in Owners : own[o] = NoStage => durable.stages[o] = NoStage
    BY <1>1 DEF Disturbed, Control
  <2> QED BY <1>3, <2>1, <2>3, <2>4 DEF Control, Healthy
<1>11. Over'
  BY <1>1, <1>2, <1>3, OverKept DEF Disturbed
<1>12. Bell'
  BY <1>1, <1>2, <1>3, BellKept DEF Disturbed, SameStore
<1> QED BY <1>6, <1>9, <1>10, <1>11, <1>12 DEF Disturbed

LEMMA CommitDisturbs ==
    ASSUME FullInvariant, RoundsInvariant, Steady, Commit
    PROVE  Disturbed'
<1>1. Receiving /\ Course /\ Revisions /\ Disturbed
  BY DEF RoundsInvariant, Disturbed
<1>2. /\ WriterWork /\ Handed' = Handed /\ Taken' = Taken /\ Worked = Taken /\ Worked' = Taken /\ Known = Handed
      /\ Known' = Taken /\ outcome' = "OK"
  BY <1>1, CommitNumbers
<1>3. /\ pc \in Preparing /\ pc' = "install" /\ pc' \notin Preparing /\ Len(job') = Len(job)
      /\ durable' = candidate /\ UNCHANGED <<own, job, rounds, authority>>
  BY <1>2 DEF Commit, Preparing, WriterWork
<1>4. \A id : /\ Kind(id)' = Kind(id) /\ Owner(id)' = Owner(id) /\ Good(id)' = Good(id)
              /\ Takes(id)' = Takes(id) /\ Promotion(id)' = Promotion(id)
  BY <1>3 DEF Kind, Owner, Good, Takes, Promotion
<1>5. Handed \in Nat /\ Taken \in Nat /\ Handed <= Taken /\ Taken <= Len(job) /\ Len(job) \in Nat
  BY <1>1, Places
<1>6. Apart'
  <2>1. \A id \in Handed + 1 .. Taken : Idle(id) => job'[id].result \in {"none", "BUSY"} /\ (pc' = "prepare" => id # Handed + at')
    BY <1>3 DEF Idle
  <2> QED BY <1>1, <1>2, <2>1, ApartKept DEF Disturbed
<1>7. Holds(candidate, Taken) /\ Differs /\ \A id \in 1 .. Len(job) : Settles(id)
  BY <1>1, <1>2, <1>3 DEF Disturbed, Sets, Settles
<1>8. Holds(durable, Known)'
  <2>1. PICK base, n : base = candidate /\ n = Taken
    OBVIOUS
  <2>2. n \in Nat /\ n <= n /\ n <= Len(job) /\ Holds(base, n) /\ \A id \in n + 1 .. n : FALSE
    BY <1>5, <1>7, <2>1
  <2>3. Holds(base, n)'
    BY <1>1, <1>2, <1>3, <2>2, HoldsOn
  <2> QED BY <1>2, <1>3, <2>1, <2>3
<1>9. Sets'
  <2>1. ASSUME NEW id \in 1 .. Len(job) PROVE Settles(id)'
    <3>1. Promotion(id) => Exact(id)
      BY <1>7 DEF Settles
    <3>2. Exact(id) => Exact(id)'
      BY <1>3 DEF Exact, Moves, Promise
    <3>3. Kind(id) \in Closers /\ job[id].result = "STAGED" => candidate.stages[Owner(id)] = NoStage
      <4>1. ASSUME Kind(id) \in Closers, job[id].result = "STAGED" PROVE candidate.stages[Owner(id)] = NoStage
        <5>1. id \in 1 .. Taken
          BY <1>1, <1>2, <1>5, <4>1 DEF Receiving
        <5> QED BY <1>7, <4>1, <5>1 DEF Holds, Closed, Takes
      <4> QED BY <4>1
    <3> QED BY <1>3, <1>4, <3>1, <3>2, <3>3 DEF Settles, Closers
  <2> QED BY <1>3, <1>8, <2>1 DEF Sets, Settles
<1>10. Control'
  <2>1. \A id \in 1 .. Handed' : Kind(id)' \in Closers /\ Takes(id)' => own'[Owner(id)'] = NoStage
    BY <1>1, <1>2, <1>3, ClosedOwn DEF Disturbed
  <2>2. \A o : Of(o)' = Of(o)
    BY <1>2, <1>4 DEF Of, Tried
  <2>3. ASSUME NEW o \in Owners, Healthy(own[o]), Leaves(o)'
        PROVE  own[o].ready = Mask(candidate.stages[o])
    <3>1. \A id \in Of(o) : ~(Kind(id) \in Closers /\ Good(id))
      BY <1>4, <2>2, <2>3 DEF Leaves, Closers, Takes, Good
    <3> QED BY <1>1, <1>3, <2>3, <3>1 DEF Disturbed, Control
  <2>4. \A o \in Owners : own[o] = NoStage => candidate.stages[o] = NoStage
    BY <1>1, <1>3 DEF Disturbed, Control
  <2> QED BY <1>3, <2>1, <2>3, <2>4 DEF Control, Healthy
<1>11. Over'
  BY <1>1, <1>2, <1>3, OverKept DEF Disturbed
<1>12. SameStore
  <2>1. ASSUME ready PROVE candidate.blocks = durable.blocks /\ Lineage(candidate) = Lineage(durable)
    <3>1. \A id \in Tried : id \in Handed + 1 .. Len(job)
      BY <1>2, <1>5 DEF Tried
    <3>2. \A id \in Tried : ~Promotion(id)
      BY <1>1, <2>1, <3>1 DEF Disturbed, Bell, Promotion
    <3> QED BY <1>7, <3>2 DEF Differs
  <2>2. Lineage(durable)' = Lineage(candidate)
    BY <1>3 DEF Lineage
  <2> QED BY <1>3, <2>1, <2>2 DEF SameStore
<1>13. Bell'
  BY <1>1, <1>2, <1>12, BellKept DEF Disturbed
<1> QED BY <1>6, <1>9, <1>10, <1>11, <1>13 DEF Disturbed

\* The results of a group that was turned away become its outcome.
LEMMA InstallDisturbs ==
    ASSUME FullInvariant, RoundsInvariant, Steady, Installing
    PROVE  Disturbed'
<1>1. Receiving /\ Course /\ Revisions /\ Disturbed
  BY DEF RoundsInvariant, Disturbed
<1>2. /\ WriterWork /\ Handed' = Handed /\ Taken' = Taken /\ Worked = Taken /\ Worked' = Taken
      /\ Known = (IF outcome = "OK" THEN Taken ELSE Handed) /\ Known' = Taken
  BY <1>1, InstallNumbers
<1>3. /\ pc = "install" /\ pc \notin Preparing /\ pc' = "complete" /\ pc' \notin Preparing /\ Len(job') = Len(job)
      /\ UNCHANGED <<durable, own, outcome, rounds, authority>>
  BY <1>2 DEF Installing, Preparing, WriterWork
<1>4. /\ Handed \in Nat /\ Taken \in Nat /\ Handed <= Taken /\ Taken <= Len(job) /\ Len(job) \in Nat
      /\ outcome \in {"OK", "BUSY", "LIMIT", "ERROR"}
  BY <1>1, Places DEF Types
<1>5. \A id \in 1 .. Len(job) :
         /\ outcome = "OK" \/ id <= Handed \/ ~Good(id) => SameJob(id)
         /\ outcome # "OK" /\ id > Handed /\ id <= Taken => job'[id].result # "OK"
         /\ outcome # "OK" /\ id > Handed /\ id <= Taken /\ Good(id) => job'[id].result = outcome
         /\ job'[id].result \in {"OK", "STAGED"} => SameJob(id)
  <2>1. ASSUME NEW id \in 1 .. Len(job)
        PROVE  /\ outcome = "OK" \/ id <= Handed \/ ~Good(id) => SameJob(id)
               /\ outcome # "OK" /\ id > Handed /\ id <= Taken => job'[id].result # "OK"
               /\ outcome # "OK" /\ id > Handed /\ id <= Taken /\ Good(id) => job'[id].result = outcome
               /\ job'[id].result \in {"OK", "STAGED"} => SameJob(id)
    <3> DEFINE turned == id > Handed /\ id <= Taken /\ Good(id) /\ outcome # "OK"
    <3>1. (~turned => SameJob(id)) /\ (turned => job'[id].result = outcome)
      BY <2>1 DEF Installing
    <3>2. SameJob(id) => job'[id].result = job[id].result
      BY DEF SameJob
    <3>3. id <= Handed => ~(id > Handed)
      BY <1>4, <2>1
    <3>4. outcome \notin {"OK", "STAGED"} \/ outcome = "OK"
      BY <1>4
    <3> QED BY <3>1, <3>2, <3>3, <3>4 DEF Good
  <2> QED BY <2>1
<1>6. Apart'
  <2>1. ASSUME NEW id \in Handed + 1 .. Taken, Idle(id)
        PROVE  job'[id].result \in {"none", "BUSY"} /\ (pc' = "prepare" => id # Handed + at')
    <3>1. id \in 1 .. Len(job) /\ job[id].result \in {"none", "BUSY"}
      BY <1>4, <2>1 DEF Idle
    <3>2. SameJob(id)
      BY <1>5, <3>1 DEF Good
    <3> QED BY <1>3, <3>1, <3>2 DEF SameJob
  <2> QED BY <1>1, <1>2, <2>1, ApartKept DEF Disturbed
<1>7. Holds(durable, Known) /\ \A id \in 1 .. Len(job) : Settles(id)
  BY <1>1 DEF Disturbed, Sets, Settles
<1>8. Holds(durable, Known)'
  <2>1. PICK base, n, m : base = durable /\ n = Known /\ m = Taken
    OBVIOUS
  <2>2. n \in Nat /\ m \in Nat /\ n <= m /\ m <= Len(job) /\ Holds(base, n)
    BY <1>2, <1>4, <1>7, <2>1
  <2>3. \A id \in 1 .. n : job'[id].result = job[id].result
    BY <1>2, <1>4, <1>5, <2>1 DEF SameJob
  <2>4. ASSUME NEW id \in n + 1 .. m
        PROVE  /\ job'[id].result # "OK"
               /\ Kind(id) \in Closers /\ job'[id].result = "STAGED" => base.stages[Owner(id)] = NoStage
    <3>1. outcome # "OK" /\ id > Handed /\ id <= Taken /\ id \in 1 .. Len(job)
      BY <1>2, <1>4, <2>1, <2>4
    <3>2. job'[id].result # "OK" /\ (job'[id].result = "STAGED" => job[id].result = "STAGED")
      BY <1>5, <3>1 DEF SameJob
    <3> QED BY <1>7, <2>1, <3>1, <3>2 DEF Settles
  <2>5. Holds(base, m)'
    BY <1>1, <1>2, <2>2, <2>3, <2>4, HoldsOn
  <2> QED BY <1>2, <1>3, <2>1, <2>5
<1>9. Sets'
  <2>1. \A id \in 1 .. Len(job) : Settles(id)'
    BY <1>1, <1>2, <1>3, <1>5, <1>7, SettlesKept
  <2> QED BY <1>3, <1>8, <2>1 DEF Sets, Settles
<1>10. Control'
  <2>1. \A id \in 1 .. Handed' : Kind(id)' \in Closers /\ Takes(id)' => own'[Owner(id)'] = NoStage
    BY <1>1, <1>2, <1>3, ClosedOwn DEF Disturbed
  <2>2. \A id \in Tried : id \in 1 .. Len(job) /\ id > Handed /\ id <= Taken /\ Kind(id)' = Kind(id) /\ Owner(id)' = Owner(id)
    BY <1>2, <1>4, SameKinds DEF Tried
  <2>3. \A o : Of(o)' = Of(o)
    BY <1>2, <2>2 DEF Of, Tried
  <2>4. ASSUME NEW o \in Owners, Healthy(own[o]), Leaves(o)'
        PROVE  own[o].ready = Mask(durable.stages[o])
    <3>1. ASSUME NEW id \in Of(o)
          PROVE  /\ ~(Kind(id) \in Closers /\ Takes(id)) /\ job[id].result \notin Negative
                 /\ outcome # "OK" => ~Good(id)
      <4>1. id \in Tried
        BY <3>1 DEF Of
      <4>2. ~(Kind(id) \in Closers /\ job'[id].result \in {"OK", "STAGED"}) /\ job'[id].result \notin Negative
        BY <2>2, <2>3, <2>4, <4>1 DEF Leaves, Closers, Takes
      <4>3. outcome # "OK" => ~Good(id)
        BY <1>4, <1>5, <2>2, <4>1, <4>2 DEF Negative
      <4>4. job'[id].result = job[id].result
        BY <1>5, <2>2, <4>1, <4>3 DEF SameJob
      <4> QED BY <4>2, <4>3, <4>4 DEF Takes
    <3>2. Leaves(o)
      BY <3>1 DEF Leaves
    <3> QED BY <1>1, <1>3, <2>4, <3>2 DEF Disturbed, Control
  <2>5. \A o \in Owners : own[o] = NoStage => durable.stages[o] = NoStage
    BY <1>1 DEF Disturbed, Control
  <2> QED BY <1>3, <2>1, <2>4, <2>5 DEF Control, Healthy
<1>11. Over'
  BY <1>1, <1>2, <1>3, OverKept DEF Disturbed
<1>12. Bell'
  BY <1>1, <1>2, <1>3, BellKept DEF Disturbed, SameStore
<1> QED BY <1>6, <1>9, <1>10, <1>11, <1>12 DEF Disturbed

\* The writer takes jobs that no ABORT of their round stands beside, or that are withdrawn.
LEMMA TakeDisturbs ==
    ASSUME FullInvariant, RoundsInvariant, Steady, Take
    PROVE  Disturbed'
<1>1. Receiving /\ Course /\ Revisions /\ Disturbed
  BY DEF RoundsInvariant, Disturbed
<1>2. /\ WriterWork /\ Handed' = Handed /\ Taken' \in Nat /\ Taken' <= Len(job)
      /\ Worked = Handed /\ Taken = Handed /\ Worked' = Handed /\ Known = Handed /\ Known' = Handed
  BY <1>1, TakeNumbers
<1>3. /\ pc = "wait" /\ pc \notin Preparing /\ pc' = "check" /\ pc' \in Preparing /\ Len(job') = Len(job)
      /\ UNCHANGED <<durable, own, job, rounds, authority>> /\ candidate' = durable
  BY <1>2 DEF Take, Preparing, WriterWork
<1>4. \A id : /\ Kind(id)' = Kind(id) /\ Owner(id)' = Owner(id) /\ Good(id)' = Good(id)
              /\ Takes(id)' = Takes(id) /\ Promotion(id)' = Promotion(id)
  BY <1>3 DEF Kind, Owner, Good, Takes, Promotion
<1>5. Handed \in Nat /\ Taken \in Nat /\ Handed <= Len(job) /\ Len(job) \in Nat /\ ReceiveInvariant /\ authority \in Nat
  BY <1>1, <1>2, Places
<1>6. Apart'
  <2>1. ASSUME NEW id \in Handed + 1 .. Taken', NEW other \in Handed + 1 .. Taken',
               Owner(id) = Owner(other), Kind(id) # "ABORT", Kind(other) = "ABORT"
        PROVE  Idle(id)'
    <3>1. id \in 1 .. Len(job) /\ other \in 1 .. Len(job) /\ id > Handed
      BY <1>2, <1>5, <2>1
    <3>2. job[id].result = "none" /\ ~job[id].committing
      BY <1>1, <1>2, <3>1 DEF Receiving
    <3>3. rounds[Owner(id)].phase \in {"abandoned", "gone"}
      BY <1>1, <2>1, <3>1 DEF Course, Pointed
    <3>4. ~Speaking(Owner(id))
      BY <3>3 DEF Speaking
    <3>5. job[id].rev \in Nat /\ job[id].rev <= authority
      <4>1. job[id].rev \in Nat
        BY <1>5, <3>1, Speech
      <4>2. job[id].rev <= authority
        BY <1>1, <3>1 DEF Revisions
      <4> QED BY <4>1, <4>2
    <3>6. job[id].cancelled \/ job[id].rev < authority
      <4>1. CASE job[id].rev = authority
        <5>1. Current(id)
          BY <2>1, <4>1 DEF Current
        <5>2. reconcile = 0
          BY <1>1, <3>1, <3>4, <5>1 DEF Revisions
        <5> QED BY <1>1, <3>1, <3>2, <5>1, <5>2 DEF Revisions
      <4>2. CASE job[id].rev # authority
        BY <1>5, <3>5, <4>2
      <4> QED BY <4>1, <4>2
    <3> QED BY <1>3, <3>2, <3>6 DEF Idle
  <2> QED BY <1>2, <1>4, <2>1 DEF Apart
<1>7. Holds(durable, Handed) /\ \A id \in 1 .. Len(job) : Settles(id)
  BY <1>1, <1>2 DEF Disturbed, Sets, Settles
<1>8. Holds(durable, Known)' /\ Holds(candidate, Worked)'
  <2>1. PICK base, n : base = durable /\ n = Handed
    OBVIOUS
  <2>2. n \in Nat /\ n <= n /\ n <= Len(job) /\ Holds(base, n) /\ \A id \in n + 1 .. n : FALSE
    BY <1>5, <1>7, <2>1
  <2>3. Holds(base, n)'
    BY <1>1, <1>2, <1>3, <2>2, HoldsOn
  <2> QED BY <1>2, <1>3, <2>1, <2>3
<1>9. Tried' = {}
  BY <1>2, <1>5 DEF Tried
<1>10. Sets'
  <2>1. \A id \in 1 .. Len(job) : Settles(id)'
    BY <1>1, <1>2, <1>3, <1>7, SettlesKept DEF SameJob
  <2>2. Lineage(candidate)' = Lineage(durable)' /\ candidate' = durable'
    BY <1>3 DEF Lineage
  <2>3. Differs'
    BY <2>2 DEF Differs
  <2> QED BY <1>3, <1>8, <2>1, <2>3 DEF Sets, Settles
<1>11. Control'
  <2>1. \A id \in 1 .. Handed' : Kind(id)' \in Closers /\ Takes(id)' => own'[Owner(id)'] = NoStage
    BY <1>1, <1>2, <1>3, ClosedOwn DEF Disturbed
  <2>2. \A o : Leaves(o)
    <3>1. Tried = {}
      BY <1>2, <1>5 DEF Tried
    <3> QED BY <3>1 DEF Leaves, Of
  <2>3. \A o \in Owners : /\ own[o] = NoStage => durable.stages[o] = NoStage
                          /\ Healthy(own[o]) => own[o].ready = Mask(durable.stages[o])
    BY <1>1, <1>3, <2>2 DEF Disturbed, Control
  <2> QED BY <1>3, <2>1, <2>3 DEF Control, Healthy
<1>12. Over'
  BY <1>1, <1>2, <1>3, OverKept DEF Disturbed
<1>13. Bell'
  BY <1>1, <1>2, <1>3, BellKept DEF Disturbed, SameStore
<1> QED BY <1>6, <1>10, <1>11, <1>12, <1>13 DEF Disturbed

\* What one job does to the controller of its round when its group is handed over.
LEMMA FinishedOne ==
    ASSUME NEW r \in Asked, NEW result, NEW owners \in Owned, NEW o \in Owners
    PROVE  LET c == Finished(r, result, owners)[o]
           IN  /\ r.owner # o \/ owners[o] = NoStage => c = owners[o]
               /\ r.owner = o /\ r.kind \in Closers /\ result \in {"OK", "STAGED"} => c = NoStage
               /\ c = NoStage => \/ owners[o] = NoStage
                                 \/ r.owner = o /\ r.kind \in Closers /\ result \in {"OK", "STAGED"}
               /\ c # owners[o] => ~Healthy(c)
               /\ r.owner = o /\ result \in Negative => ~Healthy(c)
<1> DEFINE c == Finished(r, result, owners)[o]
           takes == r.kind \in Closers /\ result \in {"OK", "STAGED"}
           Goal == /\ r.owner # o \/ owners[o] = NoStage => c = owners[o]
                   /\ r.owner = o /\ takes => c = NoStage
                   /\ c = NoStage => owners[o] = NoStage \/ (r.owner = o /\ takes)
                   /\ c # owners[o] => ~Healthy(c)
                   /\ r.owner = o /\ result \in Negative => ~Healthy(c)
<1>1. r.kind \notin Mutations /\ r.owner \in Owners
  BY Request
<1>2. CASE owners[r.owner] = NoStage
  <2>1. c = owners[o]
    BY <1>2 DEF Finished
  <2> HIDE DEF c, takes
  <2>2. Goal
    BY <1>2, <2>1 DEF Healthy
  <2> QED BY <2>2 DEF c, takes
<1>3. CASE owners[r.owner] # NoStage /\ r.kind \in Closers /\ result \in {"OK", "STAGED"}
  <2>1. Finished(r, result, owners) = [owners EXCEPT ![r.owner] = NoStage]
    BY <1>1, <1>3 DEF Finished, Closers
  <2>2. PICK next : next = Finished(r, result, owners)
    OBVIOUS
  <2>3. next[r.owner] = NoStage /\ \A p \in Owners : p # r.owner => next[p] = owners[p]
    BY <1>1, <2>1, <2>2 DEF Owned
  <2>4. result \notin Negative
    BY <1>3 DEF Negative
  <2> QED BY <1>3, <2>2, <2>3, <2>4 DEF Healthy
<1>4. CASE owners[r.owner] # NoStage /\ ~(r.kind \in Closers /\ result \in {"OK", "STAGED"}) /\ result \in Negative
  <2>1. PICK next : next = Spoiled(owners, r.owner)
    OBVIOUS
  <2>2. /\ \A p \in Owners : p # r.owner => next[p] = owners[p]
        /\ next[r.owner] = NoStage <=> owners[r.owner] = NoStage
        /\ ~Healthy(next[r.owner])
    BY <1>1, <2>1, SpoiledShape
  <2>3. c = next[o] /\ ~takes
    BY <1>1, <1>4, <2>1 DEF Finished, Closers
  <2> HIDE DEF c, takes
  <2>4. Goal
    BY <1>4, <2>2, <2>3
  <2> QED BY <2>4 DEF c, takes
<1>5. CASE owners[r.owner] # NoStage /\ ~(r.kind \in Closers /\ result \in {"OK", "STAGED"}) /\ result \notin Negative
  <2>1. c = owners[o] /\ ~takes
    BY <1>1, <1>5 DEF Finished, Closers
  <2> HIDE DEF c, takes
  <2>2. Goal
    BY <1>5, <2>1
  <2> QED BY <2>2 DEF c, takes
<1> QED BY <1>2, <1>3, <1>4, <1>5

\* What becomes of the controller of o when the group is handed over.
LEMMA SettledShape ==
    ASSUME FullInvariant, Receiving, NEW o \in Owners
    PROVE  LET mine == {id \in Handed + 1 .. Taken : Owner(id) = o}
           IN  /\ own[o] = NoStage => Settled[o] = NoStage
               /\ Settled[o] = NoStage => own[o] = NoStage \/ \E id \in mine : Kind(id) \in Closers /\ Takes(id)
               /\ \A id \in mine : Kind(id) \in Closers /\ Takes(id) => Settled[o] = NoStage
               /\ Healthy(Settled[o]) =>
                     /\ Settled[o] = own[o]
                     /\ \A id \in mine : ~(Kind(id) \in Closers /\ Takes(id)) /\ job[id].result \notin Negative
<1> DEFINE mine == {id \in Handed + 1 .. Taken : Owner(id) = o}
           c(id) == Finished(job[id].req, job[id].result, own)[o]
           ends == {c(id) : id \in ToSet(group)} \ {own[o]}
<1>1. Settled[o] = IF NoStage \in ends THEN NoStage ELSE IF ends = {} THEN own[o] ELSE CHOOSE x \in ends : TRUE
  BY DEF Settled
<1>2. own \in Owned
  BY Places DEF Types, Owned
<1>3. ASSUME NEW id \in ToSet(group)
      PROVE  /\ id \in Handed + 1 .. Taken
             /\ Owner(id) # o \/ own[o] = NoStage => c(id) = own[o]
             /\ Owner(id) = o /\ Kind(id) \in Closers /\ Takes(id) => c(id) = NoStage
             /\ c(id) = NoStage => own[o] = NoStage \/ (Owner(id) = o /\ Kind(id) \in Closers /\ Takes(id))
             /\ c(id) # own[o] => ~Healthy(c(id))
             /\ Owner(id) = o /\ job[id].result \in Negative => ~Healthy(c(id))
  <2>1. id \in Handed + 1 .. Taken
    BY <1>3, Grouped
  <2>2. Handed \in Nat /\ Taken \in Nat /\ Taken <= Len(job) /\ Len(job) \in Nat /\ ReceiveInvariant
    BY Places
  <2>3. id \in 1 .. Len(job)
    BY <2>1, <2>2
  <2>4. job[id].req \in Asked
    BY <2>2, <2>3, Speech DEF JobRecords
  <2>5. PICK r \in Asked : r = job[id].req
    BY <2>4
  <2>6. PICK result : result = job[id].result
    OBVIOUS
  <2>7. PICK x : x = Finished(r, result, own)[o]
    OBVIOUS
  <2>8. /\ r.owner # o \/ own[o] = NoStage => x = own[o]
        /\ r.owner = o /\ r.kind \in Closers /\ result \in {"OK", "STAGED"} => x = NoStage
        /\ x = NoStage => \/ own[o] = NoStage
                          \/ r.owner = o /\ r.kind \in Closers /\ result \in {"OK", "STAGED"}
        /\ x # own[o] => ~Healthy(x)
        /\ r.owner = o /\ result \in Negative => ~Healthy(x)
    BY <1>2, <2>7, FinishedOne
  <2>9. x = c(id) /\ Owner(id) = r.owner /\ Kind(id) = r.kind /\ (Takes(id) <=> result \in {"OK", "STAGED"})
    BY <2>5, <2>6, <2>7 DEF Owner, Kind, Takes
  <2> HIDE DEF c
  <2> QED BY <2>1, <2>6, <2>8, <2>9
<1>4. \A id \in mine : id \in ToSet(group)
  BY Grouped
<1> HIDE DEF c
<1>5. \A x : x \in ends <=> x # own[o] /\ \E id \in ToSet(group) : x = c(id)
  OBVIOUS
<1> HIDE DEF ends
<1>6. own[o] = NoStage => Settled[o] = NoStage
  <2>1. ASSUME own[o] = NoStage PROVE Settled[o] = NoStage
    <3>1. ends = {}
      BY <1>3, <1>5, <2>1
    <3> QED BY <1>1, <2>1, <3>1
  <2> QED BY <2>1
<1>7. ends # {} => (CHOOSE x \in ends : TRUE) \in ends
  OBVIOUS
<1>8. Settled[o] = own[o] \/ Settled[o] \in ends
  BY <1>1, <1>7
<1>9. Settled[o] = NoStage => own[o] = NoStage \/ \E id \in mine : Kind(id) \in Closers /\ Takes(id)
  BY <1>3, <1>5, <1>8
<1>10. ASSUME NEW id \in mine, Kind(id) \in Closers, Takes(id) PROVE Settled[o] = NoStage
  <2>1. c(id) = NoStage
    BY <1>3, <1>4, <1>10
  <2>2. CASE own[o] = NoStage
    BY <1>6, <2>2
  <2>3. CASE own[o] # NoStage
    <3>1. NoStage \in ends
      BY <1>4, <1>5, <1>10, <2>1, <2>3
    <3> QED BY <1>1, <3>1
  <2> QED BY <2>2, <2>3
<1>11. ASSUME Healthy(Settled[o])
       PROVE  /\ Settled[o] = own[o]
              /\ \A id \in mine : ~(Kind(id) \in Closers /\ Takes(id)) /\ job[id].result \notin Negative
  <2>1. \A x \in ends : ~Healthy(x)
    BY <1>3, <1>5
  <2>2. Settled[o] = own[o]
    BY <1>8, <1>11, <2>1
  <2>3. Settled[o] # NoStage
    BY <1>11 DEF Healthy
  <2>4. ends = {}
    BY <1>1, <1>7, <1>11, <2>1, <2>3
  <2>5. \A id \in ToSet(group) : c(id) = own[o]
    BY <1>5, <2>4
  <2>6. ASSUME NEW id \in mine PROVE ~(Kind(id) \in Closers /\ Takes(id)) /\ job[id].result \notin Negative
    BY <1>3, <1>4, <1>11, <2>2, <2>3, <2>5, <2>6
  <2> QED BY <2>2, <2>6
<1> QED BY <1>6, <1>9, <1>10, <1>11

LEMMA CompleteDisturbs ==
    ASSUME FullInvariant, RoundsInvariant, Steady, Completing
    PROVE  Disturbed'
<1>1. Receiving /\ Course /\ Revisions /\ Disturbed
  BY DEF RoundsInvariant, Disturbed
<1>2. /\ WriterWork /\ Handed' = Taken /\ Taken' = Taken /\ Worked = Taken /\ Worked' = Taken
      /\ Known = Taken /\ Known' = Taken
  BY <1>1, CompleteNumbers
<1>3. /\ pc = "complete" /\ pc \notin Preparing /\ pc' = "wait" /\ pc' \notin Preparing /\ Len(job') = Len(job)
      /\ UNCHANGED <<durable, job, rounds, authority>> /\ own' = Settled
  BY <1>2 DEF Completing, Preparing, WriterWork
<1>4. \A id : /\ Kind(id)' = Kind(id) /\ Owner(id)' = Owner(id) /\ Good(id)' = Good(id)
              /\ Takes(id)' = Takes(id) /\ Promotion(id)' = Promotion(id)
  BY <1>3 DEF Kind, Owner, Good, Takes, Promotion
<1>5. /\ Handed \in Nat /\ Taken \in Nat /\ Handed <= Taken /\ Taken <= Len(job) /\ Len(job) \in Nat
      /\ ReceiveInvariant
  BY <1>1, Places
<1>6. Apart'
  <2>1. Handed' + 1 .. Taken' = {}
    BY <1>2, <1>5
  <2> QED BY <2>1 DEF Apart
<1>7. Holds(durable, Taken) /\ \A id \in 1 .. Len(job) : Settles(id)
  BY <1>1, <1>2 DEF Disturbed, Sets, Settles
<1>8. Holds(durable, Known)'
  <2>1. PICK base, n : base = durable /\ n = Taken
    OBVIOUS
  <2>2. n \in Nat /\ n <= n /\ n <= Len(job) /\ Holds(base, n) /\ \A id \in n + 1 .. n : FALSE
    BY <1>5, <1>7, <2>1
  <2>3. Holds(base, n)'
    BY <1>1, <1>2, <1>3, <2>2, HoldsOn
  <2> QED BY <1>2, <1>3, <2>1, <2>3
<1>9. Sets'
  <2>1. \A id \in 1 .. Len(job) : Settles(id)'
    BY <1>1, <1>2, <1>3, <1>7, SettlesKept DEF SameJob
  <2> QED BY <1>3, <1>8, <2>1 DEF Sets, Settles
<1>10. Control'
  <2>1. ASSUME NEW o \in Owners, Settled[o] = NoStage PROVE durable.stages[o] = NoStage
    <3>1. CASE own[o] = NoStage
      BY <1>1, <3>1 DEF Disturbed, Control
    <3>2. CASE own[o] # NoStage
      <4>1. PICK id \in Handed + 1 .. Taken : Owner(id) = o /\ Kind(id) \in Closers /\ Takes(id)
        BY <1>1, <2>1, <3>2, SettledShape
      <4>2. id \in 1 .. Taken
        BY <1>5, <4>1
      <4> QED BY <1>7, <4>1, <4>2 DEF Holds, Closed
    <3> QED BY <3>1, <3>2
  <2>2. ASSUME NEW o \in Owners, Healthy(Settled[o]) PROVE Settled[o].ready = Mask(durable.stages[o])
    <3>1. /\ Settled[o] = own[o]
          /\ \A id \in Handed + 1 .. Taken :
                Owner(id) = o => ~(Kind(id) \in Closers /\ Takes(id)) /\ job[id].result \notin Negative
      BY <1>1, <2>2, SettledShape
    <3>2. \A id \in Of(o) : id \in Handed + 1 .. Taken /\ Owner(id) = o
      BY <1>2 DEF Of, Tried
    <3>3. Leaves(o)
      BY <1>3, <3>1, <3>2 DEF Leaves
    <3>4. Healthy(own[o])
      BY <2>2, <3>1
    <3> QED BY <1>1, <1>3, <3>1, <3>3, <3>4 DEF Disturbed, Control
  <2>3. ASSUME NEW id \in 1 .. Taken, Kind(id) \in Closers, Takes(id) PROVE Settled[Owner(id)] = NoStage
    <3>1. id \in 1 .. Len(job)
      BY <1>5
    <3>2. PICK o \in Owners : o = Owner(id)
      BY <1>5, <3>1, Speech
    <3>3. CASE id <= Handed
      <4>1. own[o] = NoStage
        BY <1>1, <1>5, <2>3, <3>2, <3>3 DEF Disturbed, Control
      <4> QED BY <1>1, <3>2, <4>1, SettledShape
    <3>4. CASE id > Handed
      <4>1. id \in Handed + 1 .. Taken
        BY <1>5, <3>4
      <4> QED BY <1>1, <2>3, <3>2, <4>1, SettledShape
    <3> QED BY <1>5, <3>3, <3>4
  <2>4. \A id \in 1 .. Handed' : Kind(id)' \in Closers /\ Takes(id)' => own'[Owner(id)'] = NoStage
    BY <1>2, <1>3, <1>4, <2>3 DEF Closers
  <2> QED BY <1>3, <2>1, <2>2, <2>4 DEF Control, Healthy
<1>11. Over'
  <2>1. \A o \in Owners : own[o] = NoStage => own'[o] = NoStage
    BY <1>1, <1>3, SettledShape
  <2> QED BY <1>1, <1>2, <2>1, OverKept DEF Disturbed
<1>12. Bell'
  BY <1>1, <1>2, <1>3, BellKept DEF Disturbed, SameStore
<1> QED BY <1>6, <1>9, <1>10, <1>11, <1>12 DEF Disturbed

-----------------------------------------------------------------------------
(* A job is prepared.                                                         *)

\* Job id, next in the group, gets its result.
Trial(id) ==
    LET o == Owner(id)
        result == job'[id].result
    IN  /\ id = Worked + 1 /\ Worked' = id /\ id \in Handed + 1 .. Taken /\ id \in 1 .. Len(job)
        /\ pc \in Preparing /\ pc' = "check" /\ UNCHANGED <<durable, outcome, rounds, authority>>
        /\ pc = "check" => result = "BUSY"
        /\ pc = "prepare" => id = Handed + at
        /\ \A k \in 1 .. Len(job) : k # id => SameJob(k)
        /\ \A p \in Owners : p # o => candidate'.stages[p] = candidate.stages[p] /\ own'[p] = own[p]
        /\ result # "OK" => candidate' = candidate
        /\ result = "OK" => Kind(id) \in Deliverers \cup Closers
        /\ result = "OK" => /\ candidate'.log = Append(candidate.log, id)
                            /\ Moves(job[id].req, candidate, candidate')
                            /\ job'[id].before = candidate /\ job'[id].after = candidate'
        /\ result = "OK" /\ Kind(id) \in Deliverers =>
              /\ \A x : x \in Mask(candidate'.stages[o]) <=> x \in Mask(candidate.stages[o]) \cup {job[id].req.block}
              /\ own[o] = NoStage \/ Healthy(own[o])
              /\ own'[o] # NoStage /\ own'[o].ready = Ready(own[o]) \cup {job[id].req.block}
        /\ result = "OK" /\ Kind(id) \in Closers => candidate'.stages[o] = NoStage /\ own' = own
        /\ result = "STAGED" /\ Kind(id) \in Closers => Kind(id) = "ABORT" /\ candidate.stages[o] = NoStage
        /\ result # "OK" /\ Healthy(own'[o]) => /\ own[o] = NoStage \/ Healthy(own[o])
                                                /\ own'[o].ready = Ready(own[o])
        /\ own'[o] = NoStage => own[o] = NoStage
        /\ own'[o] # NoStage /\ own[o] = NoStage => Kind(id) \in {"BEGIN", "REUSE"}

LEMMA TryTrial ==
    ASSUME FullInvariant, RoundsInvariant, Steady, NEW a, Tries(a)
    PROVE  /\ WriterWork /\ Receiving' /\ Handed' = Handed /\ Taken' = Taken /\ Known = Handed /\ Known' = Handed
           /\ \E id : Trial(id)
<1> DEFINE id == Handed + at
<1>1. Receiving
  BY DEF RoundsInvariant
<1>2. /\ WriterWork /\ Receiving' /\ Handed' = Handed /\ Taken' = Taken
      /\ id = Worked + 1 /\ Worked' = id /\ Known = Handed /\ Known' = Handed
      /\ id \in Handed + 1 .. Taken /\ id \in 1 .. Len(job)
  BY <1>1, TryNumbers
<1>3. /\ pc \in {"check", "prepare"} /\ pc' = "check" /\ UNCHANGED <<durable, outcome, rounds, authority>>
      /\ pc = "check" => job'[id].result = "BUSY"
      /\ \A k \in 1 .. Len(job) : k # id => SameJob(k)
  BY <1>2 DEF Tries, WriterWork, SameJob
<1>4. /\ own' = a.own /\ candidate'.stages = a.root.stages /\ job'[id].result = a.result
      /\ a.result # "OK" => candidate' = candidate
      /\ a.result = "OK" => /\ candidate'.log = Append(candidate.log, id)
                            /\ Moves(job[id].req, candidate, candidate')
                            /\ job'[id].before = candidate /\ job'[id].after = candidate'
      /\ Shape(job[id].req, candidate, own, a)
  BY DEF Tries
<1> HIDE DEF id
<1>5. PICK r : r = job[id].req
  OBVIOUS
<1>6. Owner(id) = r.owner /\ Kind(id) = r.kind
  BY <1>5 DEF Owner, Kind
<1>7. Shape(r, candidate, own, a)
  BY <1>4, <1>5
<1>8. pc \in Preparing
  BY <1>3 DEF Preparing
<1>9. Trial(id)
  BY <1>2, <1>3, <1>4, <1>5, <1>6, <1>7, <1>8 DEF Trial, Shape, id
<1> QED BY <1>2, <1>9

\* What is common to the lemmas below.
Trying(id) ==
    /\ FullInvariant /\ RoundsInvariant /\ Trial(id) /\ WriterWork
    /\ Handed' = Handed /\ Taken' = Taken /\ Known = Handed /\ Known' = Handed

LEMMA TryingFacts ==
    ASSUME NEW id, Trying(id)
    PROVE  /\ Receiving /\ Course /\ Revisions /\ Apart /\ Sets /\ Control /\ Over /\ Bell /\ ReceiveInvariant
           /\ Handed \in Nat /\ Taken \in Nat /\ Taken <= Len(job) /\ Len(job) \in Nat /\ Worked \in Nat /\ Handed <= Worked
           /\ id \in Nat /\ id \in 1 .. Len(job) /\ Owner(id) \in Owners /\ Told <= Handed /\ Told \in Nat
           /\ \A k \in 1 .. id : k \in 1 .. Len(job) /\ (k = id \/ k \in 1 .. Worked)
           /\ \A k \in 1 .. Worked : k \in 1 .. id /\ k \in 1 .. Len(job) /\ k < id
           /\ \A k \in 1 .. Len(job) : /\ Kind(k)' = Kind(k) /\ Owner(k)' = Owner(k) /\ job'[k].req = job[k].req
                                       /\ k # id => job'[k].result = job[k].result
<1>1. /\ Receiving /\ Course /\ Revisions /\ Apart /\ Sets /\ Control /\ Over /\ Bell
      /\ FullInvariant /\ WriterWork
  BY DEF Trying, RoundsInvariant
<1>2. /\ Handed \in Nat /\ Taken \in Nat /\ Taken <= Len(job) /\ Len(job) \in Nat /\ Worked \in Nat /\ Handed <= Worked
      /\ Told <= Handed /\ Told \in Nat /\ ReceiveInvariant
  BY <1>1, Places
<1>3. id = Worked + 1 /\ id \in 1 .. Len(job) /\ \A k \in 1 .. Len(job) : k # id => SameJob(k)
  BY DEF Trying, Trial
<1>4. Owner(id) \in Owners
  BY <1>2, <1>3, Speech
<1>5. \A k \in 1 .. Len(job) : Kind(k)' = Kind(k) /\ Owner(k)' = Owner(k) /\ job'[k].req = job[k].req
  BY <1>1, SameKinds
<1>6. /\ \A k \in 1 .. id : k \in 1 .. Len(job) /\ (k = id \/ k \in 1 .. Worked)
      /\ \A k \in 1 .. Worked : k \in 1 .. id /\ k \in 1 .. Len(job) /\ k < id
      /\ id \in Nat
  BY <1>2, <1>3
<1>7. \A k \in 1 .. Len(job) : k # id => job'[k].result = job[k].result
  BY <1>3 DEF SameJob
<1> QED BY <1>1, <1>2, <1>3, <1>4, <1>5, <1>6, <1>7

LEMMA TryApart ==
    ASSUME NEW id, Trying(id)
    PROVE  Apart'
<1>1. Receiving /\ Apart /\ FullInvariant /\ WriterWork /\ Handed' = Handed /\ Taken' = Taken
  BY TryingFacts DEF Trying
<1>2. Handed \in Nat /\ Taken \in Nat /\ Taken <= Len(job) /\ Len(job) \in Nat
  BY TryingFacts
<1>3. /\ pc' = "check" /\ pc \in {"check", "prepare"} /\ (pc = "check" => job'[id].result = "BUSY")
      /\ pc = "prepare" => id = Handed + at
  <2>1. /\ pc' = "check" /\ pc \in Preparing /\ (pc = "check" => job'[id].result = "BUSY")
        /\ pc = "prepare" => id = Handed + at
    BY DEF Trying, Trial
  <2>2. pc # "commit"
    <3>1. ASSUME pc = "commit" PROVE FALSE
      <4>1. Worked = Taken
        <5>1. at = Len(group) + 1 /\ Taken = Handed + Len(group) /\ Len(group) \in Nat
          BY <1>1, <3>1, Places DEF Receiving
        <5> QED BY <1>2, <3>1, <5>1 DEF Worked, Preparing
      <4>2. id = Worked + 1 /\ id \in Handed + 1 .. Taken
        BY DEF Trying, Trial
      <4> QED BY <1>2, <4>1, <4>2
    <3> QED BY <3>1
  <2> QED BY <2>1, <2>2 DEF Preparing
<1>4. \A k \in 1 .. Len(job) : k # id => job'[k].result = job[k].result
  BY TryingFacts
<1>5. ASSUME NEW k \in Handed + 1 .. Taken, Idle(k)
      PROVE  job'[k].result \in {"none", "BUSY"} /\ (pc' = "prepare" => k # Handed + at')
  <2>1. k \in 1 .. Len(job)
    BY <1>2
  <2>2. CASE k # id
    BY <1>3, <1>4, <1>5, <2>1, <2>2 DEF Idle
  <2>3. CASE k = id
    BY <1>3, <1>5, <2>3 DEF Idle
  <2> QED BY <2>2, <2>3
<1> QED BY <1>1, <1>5, ApartKept

\* A job of a round whose PROMOTE or ABORT came before it does not exist.
LEMMA NoneAfter ==
    ASSUME NEW id, Trying(id), NEW k \in 1 .. Worked, Owner(k) = Owner(id), Kind(k) \in Closers
    PROVE  Kind(id) \notin Builders
<1>1. Course /\ id \in 1 .. Len(job) /\ k \in 1 .. Len(job) /\ k < id /\ id \in Nat
  BY TryingFacts
<1>2. Ordered(id, k)
  BY <1>1 DEF Course
<1>3. ~(id < k)
  BY <1>1
<1>4. CASE Kind(k) = "PROMOTE"
  BY <1>2, <1>3, <1>4 DEF Ordered
<1>5. CASE Kind(k) = "ABORT"
  BY <1>2, <1>3, <1>5 DEF Ordered, Builders
<1> QED BY <1>4, <1>5 DEF Closers

LEMMA TryCovers ==
    ASSUME NEW id, Trying(id), Covers(candidate, Worked)
    PROVE  Covers(candidate, Worked)'
<1> DEFINE o == Owner(id)
<1>1. /\ o \in Owners /\ id \in 1 .. Len(job) /\ Course /\ UNCHANGED rounds /\ Worked' = id
      /\ \A k \in 1 .. id : k \in 1 .. Len(job) /\ (k = id \/ k \in 1 .. Worked)
      /\ \A k \in 1 .. Len(job) : /\ Kind(k)' = Kind(k) /\ Owner(k)' = Owner(k) /\ job'[k].req = job[k].req
                                  /\ k # id => job'[k].result = job[k].result
  BY TryingFacts DEF Trying, Trial
<1>2. /\ \A p \in Owners : p # o => candidate'.stages[p] = candidate.stages[p]
      /\ job'[id].result # "OK" => candidate' = candidate
      /\ job'[id].result = "OK" => Kind(id) \in Deliverers \cup Closers
      /\ job'[id].result = "OK" => candidate'.log = Append(candidate.log, id)
      /\ job'[id].result = "OK" /\ Kind(id) \in Deliverers =>
              \A x : x \in Mask(candidate'.stages[o]) <=> x \in Mask(candidate.stages[o]) \cup {job[id].req.block}
  BY DEF Trying, Trial
<1>3. candidate.log \in Seq(Nat) /\ id \in Nat
  BY TryingFacts, Places DEF Trying, Types, Roots
<1>4. \A x \in ToSet(candidate.log) : x \in ToSet(candidate'.log)
  <2>1. CASE job'[id].result # "OK"
    BY <1>2, <2>1
  <2>2. CASE job'[id].result = "OK"
    <3>1. candidate'.log = Append(candidate.log, id)
      BY <1>2, <2>2
    <3>2. PICK l \in Seq(Nat) : l = candidate.log
      BY <1>3
    <3>3. \A x \in ToSet(l) : x \in ToSet(Append(l, id))
      BY <1>3 DEF ToSet
    <3> QED BY <3>1, <3>2, <3>3
  <2> QED BY <2>1, <2>2
<1>5. job'[id].result = "OK" => id \in ToSet(candidate'.log)
  <2>1. PICK l \in Seq(Nat) : l = candidate.log
    BY <1>3
  <2>2. id \in ToSet(Append(l, id))
    <3>1. Len(l) + 1 \in DOMAIN Append(l, id) /\ Append(l, id)[Len(l) + 1] = id
      BY <1>3
    <3> QED BY <3>1 DEF ToSet
  <2> QED BY <1>2, <2>1, <2>2
<1>6. ASSUME NEW k \in 1 .. id, Kind(k) \in Deliverers, job'[k].result = "OK", rounds[Owner(k)].phase = "live",
             rounds[Owner(k)].promote \notin ToSet(candidate'.log)
      PROVE  job[k].req.block \in Mask(candidate'.stages[Owner(k)])
  <2>1. CASE k = id
    BY <1>2, <1>6, <2>1
  <2>2. CASE k # id
    <3>1. k \in 1 .. Worked /\ job[k].result = "OK" /\ k \in 1 .. Len(job)
      BY <1>1, <1>6, <2>2
    <3>2. rounds[Owner(k)].promote \notin ToSet(candidate.log)
      BY <1>4, <1>6
    <3>3. job[k].req.block \in Mask(candidate.stages[Owner(k)])
      BY <1>6, <3>1, <3>2 DEF Covers, Good
    <3>4. Owner(k) \in Owners
      BY <3>1, TryingFacts, Speech
    <3>5. CASE Owner(k) # o
      BY <1>2, <3>3, <3>4, <3>5
    <3>6. CASE job'[id].result # "OK"
      BY <1>2, <3>3, <3>6
    <3>7. CASE Owner(k) = o /\ job'[id].result = "OK"
      <4>1. Pointed(id)
        BY <1>1 DEF Course
      <4>2. CASE Kind(id) \in Deliverers
        BY <1>2, <3>3, <3>7, <4>2
      <4>3. CASE Kind(id) = "PROMOTE"
        <5>1. rounds[o].promote = id
          BY <4>1, <4>3 DEF Pointed
        <5> QED BY <1>5, <1>6, <3>7, <5>1
      <4>4. CASE Kind(id) = "ABORT"
        BY <1>6, <3>7, <4>1, <4>4 DEF Pointed
      <4> QED BY <1>2, <3>7, <4>2, <4>3, <4>4 DEF Closers
    <3> QED BY <3>5, <3>6, <3>7
  <2> QED BY <2>1, <2>2
<1> HIDE DEF o
<1>7. \A k \in 1 .. id : k \in 1 .. Len(job)
  BY <1>1
<1> QED BY <1>1, <1>6, <1>7 DEF Covers, Good, Deliverers

LEMMA TryClosed ==
    ASSUME NEW id, Trying(id), Closed(candidate, Worked)
    PROVE  Closed(candidate, Worked)'
<1> DEFINE o == Owner(id)
<1>1. /\ o \in Owners /\ id \in 1 .. Len(job) /\ Worked' = id
      /\ \A k \in 1 .. id : k \in 1 .. Len(job) /\ (k = id \/ k \in 1 .. Worked)
      /\ \A k \in 1 .. Len(job) : /\ Kind(k)' = Kind(k) /\ Owner(k)' = Owner(k) /\ job'[k].req = job[k].req
                                  /\ k # id => job'[k].result = job[k].result
  BY TryingFacts DEF Trying, Trial
<1>2. /\ \A p \in Owners : p # o => candidate'.stages[p] = candidate.stages[p]
      /\ job'[id].result # "OK" => candidate' = candidate
      /\ job'[id].result = "OK" => Kind(id) \in Deliverers \cup Closers
      /\ job'[id].result = "OK" /\ Kind(id) \in Closers => candidate'.stages[o] = NoStage
      /\ job'[id].result = "STAGED" /\ Kind(id) \in Closers => candidate.stages[o] = NoStage
  BY DEF Trying, Trial
<1>3. ASSUME NEW k \in 1 .. id, Kind(k) \in Closers, job'[k].result \in {"OK", "STAGED"}
      PROVE  candidate'.stages[Owner(k)] = NoStage
  <2>1. CASE k = id
    BY <1>2, <1>3, <2>1
  <2>2. CASE k # id
    <3>1. k \in 1 .. Worked /\ k \in 1 .. Len(job) /\ Takes(k)
      BY <1>1, <1>3, <2>2 DEF Takes
    <3>2. candidate.stages[Owner(k)] = NoStage /\ Owner(k) \in Owners
      BY <1>3, <3>1, TryingFacts, Speech DEF Closed
    <3>3. CASE Owner(k) # o
      BY <1>2, <3>2, <3>3
    <3>4. CASE job'[id].result # "OK"
      BY <1>2, <3>2, <3>4
    <3>5. CASE Owner(k) = o /\ job'[id].result = "OK"
      <4>1. Kind(id) \notin Builders
        BY <1>3, <3>1, <3>5, NoneAfter
      <4> QED BY <1>2, <3>5, <4>1 DEF Builders, Deliverers
    <3> QED BY <3>3, <3>4, <3>5
  <2> QED BY <2>1, <2>2
<1> HIDE DEF o
<1> QED BY <1>1, <1>3 DEF Closed, Takes, Closers

LEMMA TryServed ==
    ASSUME NEW id, Trying(id), Served(candidate, Worked)
    PROVE  Served(candidate, Worked)'
<1>1. /\ id \in 1 .. Len(job) /\ UNCHANGED rounds /\ Worked' = id
      /\ \A k \in 1 .. id : k \in 1 .. Len(job) /\ (k = id \/ k \in 1 .. Worked)
      /\ \A k \in 1 .. Worked : k \in 1 .. id /\ k < id
      /\ \A k \in 1 .. Len(job) : /\ Kind(k)' = Kind(k) /\ Owner(k)' = Owner(k)
                                  /\ k # id => job'[k].result = job[k].result
  BY TryingFacts DEF Trying, Trial
<1>2. /\ job'[id].result # "OK" => candidate' = candidate
      /\ job'[id].result = "OK" => Moves(job[id].req, candidate, candidate')
  BY DEF Trying, Trial
<1>3. id \in Nat /\ Worked \in Nat
  BY TryingFacts
<1>4. \A k \in 1 .. Worked : Promotion(k)' <=> Promotion(k)
  BY <1>1 DEF Promotion, Good
<1>5. ASSUME NEW k \in 1 .. id, Promotion(k)', \A other \in k + 1 .. id : ~Promotion(other)'
      PROVE  Announces(candidate', Owner(k))
  <2>1. CASE k = id
    <3>1. Kind(id) = "PROMOTE" /\ job'[id].result = "OK"
      BY <1>1, <1>5, <2>1 DEF Promotion, Good
    <3>2. Moves(job[id].req, candidate, candidate')
      BY <1>2, <3>1
    <3> QED BY <2>1, <3>1, <3>2 DEF Moves, Announces, Kind, Owner
  <2>2. CASE k # id
    <3>1. k \in 1 .. Worked /\ Promotion(k) /\ id \in k + 1 .. id
      BY <1>1, <1>3, <1>4, <1>5, <2>2
    <3>2. \A other \in k + 1 .. Worked : other \in k + 1 .. id /\ other \in 1 .. Worked
      BY <1>1, <1>3, <3>1
    <3>3. Announces(candidate, Owner(k))
      BY <1>4, <1>5, <3>1, <3>2 DEF Served
    <3>4. ~Promotion(id)'
      BY <1>5, <3>1
    <3>5. candidate'.blocks = candidate.blocks /\ Lineage(candidate') = Lineage(candidate)
      <4>1. CASE job'[id].result # "OK"
        BY <1>2, <4>1
      <4>2. CASE job'[id].result = "OK"
        <5>1. Kind(id) # "PROMOTE"
          BY <1>1, <3>4, <4>2 DEF Promotion, Good
        <5> QED BY <1>2, <4>2, <5>1 DEF Moves, Kind
      <4> QED BY <4>1, <4>2
    <3> QED BY <3>3, <3>5 DEF Announces
  <2> QED BY <2>1, <2>2
<1>6. \A k \in 1 .. id : Owner(k)' = Owner(k) /\ (Announces(candidate', Owner(k)) => Announces(candidate, Owner(k))')
  BY <1>1 DEF Announces, Promise
<1> QED BY <1>1, <1>5, <1>6 DEF Served

\* The jobs tried now are those tried before, and this one.
LEMMA TriedNow ==
    ASSUME NEW id, Trying(id)
    PROVE  /\ id \in Tried' /\ Owner(id)' = Owner(id)
           /\ \A k \in Tried : k \in Tried' /\ k # id /\ k \in 1 .. Len(job) /\ job'[k].result = job[k].result
                               /\ Kind(k)' = Kind(k) /\ Owner(k)' = Owner(k)
           /\ \A k \in Tried' : k = id \/ k \in Tried
           /\ \A p : \A k \in Of(p) : k \in Tried /\ k \in Of(p)'
           /\ \A p : \A k \in Of(p)' : k = id \/ k \in Of(p)
           /\ Kind(id)' = Kind(id)
<1>1. /\ id \in Handed + 1 .. Taken /\ Worked' = id /\ id = Worked + 1 /\ Handed' = Handed
  BY DEF Trying, Trial
<1>2. Handed \in Nat /\ Taken \in Nat /\ Worked \in Nat /\ id \in 1 .. Len(job) /\ id \in Nat /\ Handed <= Worked
  BY TryingFacts
<1>3. \A k \in 1 .. Len(job) : /\ Kind(k)' = Kind(k) /\ Owner(k)' = Owner(k)
                               /\ k # id => job'[k].result = job[k].result
  BY TryingFacts
<1>4. Tried = Handed + 1 .. Worked /\ Tried' = Handed + 1 .. id
  BY <1>1 DEF Tried
<1>5. \A k \in Tried' : (k = id \/ k \in Tried) /\ k \in 1 .. Len(job)
  BY <1>1, <1>2, <1>4
<1>6. \A k \in Tried : k \in Tried' /\ k # id
  BY <1>1, <1>2, <1>4
<1>7. id \in Tried'
  BY <1>1, <1>2, <1>4
<1> QED BY <1>2, <1>3, <1>5, <1>6, <1>7 DEF Of

LEMMA TryDiffers ==
    ASSUME NEW id, Trying(id), Differs
    PROVE  Differs'
<1> DEFINE o == Owner(id)
<1>1. /\ \A p \in Owners : p # o => candidate'.stages[p] = candidate.stages[p]
      /\ job'[id].result # "OK" => candidate' = candidate
      /\ job'[id].result = "OK" => Kind(id) \in Deliverers \cup Closers
      /\ job'[id].result = "OK" /\ Kind(id) \in Closers => candidate'.stages[o] = NoStage
      /\ job'[id].result = "OK" => Moves(job[id].req, candidate, candidate')
      /\ UNCHANGED durable
  BY DEF Trying, Trial
<1>2. /\ id \in Tried' /\ Owner(id)' = o /\ Kind(id)' = Kind(id)
      /\ \A k \in Tried : k \in Tried' /\ job'[k].result = job[k].result /\ Kind(k)' = Kind(k)
      /\ \A p : \A k \in Of(p) : k \in Tried /\ k \in Of(p)'
  BY TriedNow
<1> HIDE DEF o
<1>3. ASSUME NEW p \in Owners, \A k \in Of(p)' : ~Good(k)'
      PROVE  candidate'.stages[p] = durable.stages[p]
  <2>1. candidate.stages[p] = durable.stages[p]
    BY <1>2, <1>3 DEF Differs, Good
  <2>2. CASE p # o
    BY <1>1, <2>1, <2>2
  <2>3. CASE p = o
    <3>1. id \in Of(p)'
      BY <1>2, <2>3 DEF Of, Owner
    <3> QED BY <1>1, <1>3, <2>1, <2>3, <3>1 DEF Good
  <2> QED BY <2>2, <2>3
<1>4. ASSUME NEW p \in Owners, \A k \in Of(p)' : Good(k)' => Kind(k)' \notin Builders
      PROVE  candidate'.stages[p] \in {durable.stages[p], NoStage}
  <2>1. candidate.stages[p] \in {durable.stages[p], NoStage}
    BY <1>2, <1>4 DEF Differs, Good, Builders
  <2>2. CASE p # o
    BY <1>1, <2>1, <2>2
  <2>3. CASE p = o /\ job'[id].result # "OK"
    BY <1>1, <2>1, <2>3
  <2>4. CASE p = o /\ job'[id].result = "OK"
    <3>1. id \in Of(p)'
      BY <1>2, <2>4 DEF Of, Owner
    <3>2. Kind(id) \notin Builders
      BY <1>2, <1>4, <2>4, <3>1 DEF Good, Builders
    <3> QED BY <1>1, <2>4, <3>2 DEF Builders, Deliverers
  <2> QED BY <2>2, <2>3, <2>4
<1>5. ASSUME \A k \in Tried' : ~Promotion(k)'
      PROVE  candidate'.blocks = durable.blocks /\ Lineage(candidate') = Lineage(durable)
  <2>1. candidate.blocks = durable.blocks /\ Lineage(candidate) = Lineage(durable)
    BY <1>2, <1>5 DEF Differs, Promotion, Good
  <2>2. CASE job'[id].result # "OK"
    BY <1>1, <2>1, <2>2
  <2>3. CASE job'[id].result = "OK"
    <3>1. Kind(id) # "PROMOTE"
      BY <1>2, <1>5, <2>3 DEF Promotion, Good
    <3> QED BY <1>1, <2>1, <2>3, <3>1 DEF Moves, Kind
  <2> QED BY <2>2, <2>3
<1> QED BY <1>1, <1>3, <1>4, <1>5 DEF Differs, Builders

\* An ABORT with nothing to drop: nothing was delivered for its round in the group either.
LEMMA TryNothing ==
    ASSUME NEW id, Trying(id), Kind(id) = "ABORT", candidate.stages[Owner(id)] = NoStage
    PROVE  durable.stages[Owner(id)] = NoStage
<1>1. /\ Course /\ Apart /\ Sets /\ Told <= Handed /\ Told \in Nat /\ Owner(id) \in Owners
      /\ Handed \in Nat /\ Taken \in Nat /\ Worked \in Nat /\ Handed <= Worked /\ Taken <= Len(job) /\ Len(job) \in Nat
  BY TryingFacts
<1>2. id = Worked + 1 /\ id \in Handed + 1 .. Taken /\ id \in 1 .. Len(job) /\ pc \in Preparing
  BY DEF Trying, Trial
<1>3. ASSUME NEW k \in Of(Owner(id)), Good(k) PROVE FALSE
  <2>1. k \in Handed + 1 .. Worked /\ Owner(k) = Owner(id)
    BY DEF Of, Tried
  <2>2. k \in Handed + 1 .. Taken /\ k \in 1 .. Len(job) /\ k > Told /\ id > Told /\ k # id
    BY <1>1, <1>2, <2>1
  <2>3. CASE Kind(k) # "ABORT"
    <3>1. Idle(k)
      BY <1>1, <1>2, <2>1, <2>2, <2>3 DEF Apart
    <3> QED BY <1>3, <3>1 DEF Idle, Good
  <2>4. CASE Kind(k) = "ABORT"
    <3>1. Pointed(k) /\ Pointed(id)
      BY <1>1, <1>2, <2>2 DEF Course
    <3>2. rounds[Owner(k)].abort = k /\ rounds[Owner(id)].abort = id
      BY <2>2, <2>4, <3>1 DEF Pointed
    <3> QED BY <2>1, <2>2, <3>2
  <2> QED BY <2>3, <2>4
<1>4. Differs
  BY <1>1, <1>2 DEF Sets
<1> QED BY <1>1, <1>3, <1>4 DEF Differs

LEMMA TrySettles ==
    ASSUME NEW id, Trying(id), NEW k \in 1 .. Len(job)
    PROVE  Settles(k)'
<1>1. /\ Sets /\ id \in 1 .. Len(job) /\ Kind(k)' = Kind(k) /\ Owner(k)' = Owner(k) /\ job'[k].req = job[k].req
  BY TryingFacts
<1>2. Settles(k)
  BY <1>1 DEF Sets, Settles
<1>3. CASE k # id
  <2>1. SameJob(k) /\ UNCHANGED durable /\ FullInvariant /\ WriterWork
    BY <1>3 DEF Trying, Trial
  <2> QED BY <1>2, <2>1, SettlesKept
<1>4. CASE k = id
  <2>1. ASSUME Kind(id) = "PROMOTE", job'[id].result = "OK" PROVE Exact(k)'
    <3>1. /\ Moves(job[id].req, candidate, candidate') /\ UNCHANGED rounds
          /\ job'[id].before = candidate /\ job'[id].after = candidate'
      BY <2>1 DEF Trying, Trial
    <3> QED BY <1>1, <1>4, <3>1 DEF Exact, Moves, Promise
  <2>2. ASSUME Kind(id) \in Closers, job'[id].result = "STAGED" PROVE durable'.stages[Owner(id)] = NoStage
    <3>1. Kind(id) = "ABORT" /\ candidate.stages[Owner(id)] = NoStage /\ UNCHANGED durable
      BY <2>2 DEF Trying, Trial
    <3> QED BY <3>1, TryNothing
  <2> QED BY <1>1, <1>4, <2>1, <2>2 DEF Settles, Promotion, Good, Closers
<1> QED BY <1>3, <1>4

LEMMA TrySets ==
    ASSUME NEW id, Trying(id)
    PROVE  Sets'
<1>1. /\ Receiving /\ Sets /\ Handed \in Nat /\ Len(job) \in Nat /\ FullInvariant /\ WriterWork
      /\ Handed' = Handed /\ Known = Handed /\ Known' = Handed /\ pc \in Preparing /\ UNCHANGED durable
      /\ Len(job') = Len(job)
  BY TryingFacts DEF Trying, Trial, WriterWork
<1>2. Holds(durable, Handed) /\ Holds(candidate, Worked) /\ Differs
  BY <1>1 DEF Sets
<1>3. Holds(durable, Known)'
  <2>1. PICK base, n : base = durable /\ n = Handed
    OBVIOUS
  <2>2. n \in Nat /\ n <= n /\ n <= Len(job) /\ Holds(base, n) /\ \A k \in n + 1 .. n : FALSE
    <3>1. Handed <= Len(job)
      BY <1>1, Places
    <3> QED BY <1>1, <1>2, <2>1, <3>1
  <2>3. \A k \in 1 .. n : job'[k].result = job[k].result
    BY <1>1, <2>1, <2>2 DEF WriterWork, Pursued
  <2>4. Holds(base, n)'
    BY <1>1, <2>2, <2>3, HoldsOn
  <2> QED BY <1>1, <2>1, <2>4
<1>4. Holds(candidate, Worked)'
  BY <1>2, TryCovers, TryClosed, TryServed DEF Holds
<1>5. Differs'
  BY <1>2, TryDiffers
<1>6. \A k \in 1 .. Len(job') : Settles(k)'
  BY <1>1, TrySettles
<1> QED BY <1>3, <1>4, <1>5, <1>6 DEF Sets, Settles

LEMMA TryControl ==
    ASSUME NEW id, Trying(id)
    PROVE  Control'
<1> DEFINE o == Owner(id)
<1>1. /\ o \in Owners /\ Control /\ Handed \in Nat /\ Handed <= Worked /\ Worked \in Nat
      /\ \A k \in 1 .. Worked : k \in 1 .. Len(job)
      /\ \A k \in 1 .. Len(job) : /\ Kind(k)' = Kind(k) /\ Owner(k)' = Owner(k)
                                  /\ k # id => job'[k].result = job[k].result
      /\ \A k \in 1 .. Worked : k < id
      /\ id \in Nat
  BY TryingFacts
<1>2. /\ pc \in Preparing /\ pc' \in Preparing /\ UNCHANGED durable /\ Handed' = Handed
      /\ \A p \in Owners : p # o => candidate'.stages[p] = candidate.stages[p] /\ own'[p] = own[p]
      /\ job'[id].result # "OK" => candidate' = candidate
      /\ job'[id].result = "OK" => Kind(id) \in Deliverers \cup Closers
      /\ job'[id].result = "OK" /\ Kind(id) \in Deliverers =>
              /\ \A x : x \in Mask(candidate'.stages[o]) <=> x \in Mask(candidate.stages[o]) \cup {job[id].req.block}
              /\ own[o] = NoStage \/ Healthy(own[o])
              /\ own'[o] # NoStage /\ own'[o].ready = Ready(own[o]) \cup {job[id].req.block}
      /\ job'[id].result = "OK" /\ Kind(id) \in Closers => candidate'.stages[o] = NoStage
      /\ job'[id].result # "OK" /\ Healthy(own'[o]) => /\ own[o] = NoStage \/ Healthy(own[o])
                                                       /\ own'[o].ready = Ready(own[o])
      /\ own'[o] = NoStage => own[o] = NoStage
      /\ own'[o] # NoStage /\ own[o] = NoStage => Kind(id) \in {"BEGIN", "REUSE"}
  BY DEF Trying, Trial, Preparing
<1>3. /\ id \in Tried' /\ Owner(id)' = o /\ Kind(id)' = Kind(id)
      /\ \A k \in Tried : job'[k].result = job[k].result /\ Kind(k)' = Kind(k)
      /\ \A p : \A k \in Of(p) : k \in Tried /\ k \in Of(p)'
  BY TriedNow
<1>4. \A k \in 1 .. Handed : Kind(k) \in Closers /\ Takes(k)' => own'[Owner(k)] = NoStage
  <2>1. ASSUME NEW k \in 1 .. Handed, Kind(k) \in Closers, Takes(k)' PROVE own'[Owner(k)] = NoStage
    <3>1. k \in 1 .. Worked /\ k \in 1 .. Len(job) /\ k # id
      BY <1>1
    <3>2. Takes(k) /\ Owner(k) \in Owners
      BY <1>1, <2>1, <3>1, TryingFacts, Speech DEF Takes
    <3>3. own[Owner(k)] = NoStage
      BY <1>1, <2>1, <3>2 DEF Control
    <3>4. CASE Owner(k) = o
      <4>1. Kind(id) \notin Builders
        BY <2>1, <3>1, <3>4, NoneAfter
      <4> QED BY <1>2, <3>3, <3>4, <4>1 DEF Builders
    <3> QED BY <1>2, <3>2, <3>3, <3>4
  <2> QED BY <2>1
<1> HIDE DEF o
<1>5. ASSUME NEW p \in Owners, own'[p] = NoStage PROVE durable'.stages[p] = NoStage /\ candidate'.stages[p] = NoStage
  <2>1. own[p] = NoStage
    BY <1>2, <1>5
  <2>2. durable.stages[p] = NoStage /\ candidate.stages[p] = NoStage
    BY <1>1, <1>2, <2>1 DEF Control
  <2> QED BY <1>2, <1>5, <2>2
<1>6. ASSUME NEW p \in Owners, Healthy(own'[p]), \A k \in Of(p)' : ~(Kind(k)' \in Closers /\ Good(k)')
      PROVE  own'[p].ready = Mask(candidate'.stages[p])
  <2>1. Healthy(own[p]) => own[p].ready = Mask(candidate.stages[p])
    <3>1. \A k \in Of(p) : ~(Kind(k) \in Closers /\ Good(k))
      BY <1>3, <1>6 DEF Good, Closers
    <3> QED BY <1>1, <1>2, <3>1 DEF Control
  <2>2. own[p] = NoStage \/ Healthy(own[p]) => Ready(own[p]) = Mask(candidate.stages[p])
    <3>1. own[p] = NoStage => candidate.stages[p] = NoStage
      BY <1>1, <1>2 DEF Control
    <3> QED BY <2>1, <3>1 DEF Ready, Mask, Healthy
  <2>3. CASE p # o
    BY <1>2, <1>6, <2>1, <2>3
  <2>4. CASE p = o /\ job'[id].result # "OK"
    BY <1>2, <1>6, <2>2, <2>4
  <2>5. CASE p = o /\ job'[id].result = "OK"
    <3>1. id \in Of(p)'
      BY <1>3, <2>5 DEF Of, Owner
    <3>2. Kind(id) \in Deliverers
      BY <1>2, <1>3, <1>6, <2>5, <3>1 DEF Good, Closers
    <3>3. /\ \A x : x \in Mask(candidate'.stages[p]) <=> x \in Mask(candidate.stages[p]) \cup {job[id].req.block}
          /\ own[p] = NoStage \/ Healthy(own[p])
          /\ own'[p].ready = Ready(own[p]) \cup {job[id].req.block}
      BY <1>2, <2>5, <3>2
    <3>4. own'[p].ready = Mask(candidate.stages[p]) \cup {job[id].req.block}
      BY <2>2, <3>3
    <3> QED BY <3>3, <3>4
  <2> QED BY <2>3, <2>4, <2>5
<1>7. \A k \in 1 .. Handed : Kind(k)' = Kind(k) /\ Owner(k)' = Owner(k)
  BY <1>1
<1>8. \A k \in 1 .. Handed' : Kind(k)' \in Closers /\ Takes(k)' => own'[Owner(k)'] = NoStage
  BY <1>2, <1>4, <1>7 DEF Closers
<1> QED BY <1>2, <1>5, <1>6, <1>8 DEF Control, Closers, Healthy

LEMMA TryDisturbs ==
    ASSUME FullInvariant, RoundsInvariant, Steady, NEW a, Tries(a)
    PROVE  Disturbed'
<1>1. PICK id : Trial(id)
  BY TryTrial
<1>2. Trying(id) /\ Receiving'
  BY <1>1, TryTrial DEF Trying
<1>3. Apart' /\ Sets' /\ Control'
  BY <1>2, TryApart, TrySets, TryControl
<1>4. /\ Receiving /\ Over /\ Bell /\ WriterWork /\ UNCHANGED durable /\ id \in 1 .. Len(job)
      /\ id \in Handed + 1 .. Taken /\ Taken <= Len(job) /\ Taken \in Nat /\ Len(job) \in Nat /\ Handed \in Nat
  BY <1>2, TryingFacts DEF Trying, Trial
<1>5. Over'
  <2>1. ASSUME NEW p \in Owners, own[p] = NoStage,
               \A k \in Handed + 1 .. Len(job) : Owner(k) = p => Kind(k) = "ABORT"
        PROVE  own'[p] = NoStage
    <3>1. /\ p # Owner(id) => own'[p] = own[p]
          /\ own'[Owner(id)] # NoStage /\ own[Owner(id)] = NoStage => Kind(id) \in {"BEGIN", "REUSE"}
      BY <1>1 DEF Trial
    <3>2. id \in Handed + 1 .. Len(job)
      BY <1>4
    <3> QED BY <2>1, <3>1, <3>2
  <2> QED BY <1>2, <1>4, <2>1, OverKept DEF Trying
<1>6. Bell'
  BY <1>2, <1>4, BellKept DEF Trying, SameStore
<1> QED BY <1>3, <1>5, <1>6 DEF Disturbed

\* A step of the writer keeps the invariant.
LEMMA WriterRounds ==
    ASSUME FullInvariant, RoundsInvariant, Works \/ Breaks, UNCHANGED receive
    PROVE  RoundsInvariant'
<1>1. Receiving
  BY DEF RoundsInvariant
<1>2. Steady
  BY <1>1, WriterSteady
<1>3. Take \/ Going \/ (\E a : Tries(a)) \/ Passing \/ Turning \/ Commit \/ Installing \/ Completing
  BY <1>1, WriterKinds
<1>4. WriterWork /\ Receiving' /\ Disturbed'
  <2>1. CASE Take
    BY <1>1, <1>2, <2>1, TakeNumbers, TakeDisturbs
  <2>2. CASE Going
    BY <1>1, <1>2, <2>2, GoingNumbers, GoingDisturbs
  <2>3. CASE \E a : Tries(a)
    BY <1>2, <2>3, TryTrial, TryDisturbs
  <2>4. CASE Passing
    BY <1>1, <1>2, <2>4, PassNumbers, PassDisturbs
  <2>5. CASE Turning
    BY <1>1, <1>2, <2>5, TurnNumbers, TurnDisturbs
  <2>6. CASE Commit
    BY <1>1, <1>2, <2>6, CommitNumbers, CommitDisturbs
  <2>7. CASE Installing
    BY <1>1, <1>2, <2>7, InstallNumbers, InstallDisturbs
  <2>8. CASE Completing
    BY <1>1, <1>2, <2>8, CompleteNumbers, CompleteDisturbs
  <2> QED BY <1>3, <2>1, <2>2, <2>3, <2>4, <2>5, <2>6, <2>7, <2>8
<1>5. Course' /\ Revisions'
  BY <1>4, CourseWriter, RevisionsWriter
<1> QED BY <1>4, <1>5 DEF RoundsInvariant, Disturbed

-----------------------------------------------------------------------------
(* The main thread: what is the same in all of its steps.                     *)

\* The jobs a step submits.
Fresh == Len(job) + 1 .. Len(job')

Carried(id) ==
    /\ job'[id].req = job[id].req /\ job'[id].rev = job[id].rev /\ job'[id].result = job[id].result
    /\ job'[id].before = job[id].before /\ job'[id].after = job[id].after
    /\ job'[id].committing = job[id].committing
    /\ job[id].cancelled => job'[id].cancelled

MainWork ==
    /\ UNCHANGED <<pc, group, at, candidate, outcome, durable, own, admission, failed, stopping>>
    /\ Taken' = Taken /\ Len(job') \in Nat /\ Len(job) <= Len(job')
    /\ authority' \in Nat /\ authority <= authority'
    /\ completed' = completed \/ (completed # <<>> /\ completed' = Tail(completed))
    /\ \A id \in 1 .. Len(job) : Carried(id)
    /\ \A id \in Fresh : job'[id].result = "none" /\ ~job'[id].committing /\ job'[id].rev = authority'

\* The receipt that is read tells that block b of round o is durable.
Reports(o, b) ==
    LET id == Told + 1
    IN  /\ completed # <<>> /\ completed' = Tail(completed)
        /\ Kind(id) \in Deliverers /\ Owner(id) = o /\ job[id].req.block = b /\ job[id].result = "OK"

\* What may become of a round.
Ages(o) ==
    LET x == rounds[o]
        y == rounds'[o]
    IN  IF Born(o)
        THEN /\ y.wire = x.wire /\ y.phase # "unborn"
             /\ y.phase = "live" => x.phase = "live" /\ y.rev = x.rev
             /\ y.promote = x.promote \/ (x.promote = NoJob /\ \A b \in Blocks : y.step[b] = "durable")
             /\ y.abort = x.abort \/ x.abort <= Told'
             /\ \A b \in Blocks : \/ y.step[b] = x.step[b]
                                  \/ x.step[b] \in {"none", "res", "put"} /\ y.step[b] # "durable"
                                  \/ y.step[b] = "durable" /\ Reports(o, b)
        ELSE y = x \/ (y.promote = NoJob /\ \A b \in Blocks : y.step[b] # "durable")

\* What every lemma about a step of the main thread assumes.
Acting ==
    /\ FullInvariant /\ FullInvariant' /\ RoundsInvariant /\ MainWork
    /\ \A o \in Owners : Ages(o)

LEMMA ActingNumbers ==
    ASSUME Acting
    PROVE  /\ Receiving /\ Handed' = Handed /\ Taken' = Taken /\ Worked' = Worked /\ Known' = Known /\ Tried' = Tried
           /\ Told' \in {Told, Told + 1} /\ Told' <= Handed
           /\ Told \in Nat /\ Handed \in Nat /\ Taken \in Nat /\ Worked \in Nat /\ Known \in Nat /\ Len(job) \in Nat /\ Len(job') \in Nat
           /\ Told <= Handed /\ Handed <= Worked /\ Worked <= Taken /\ Taken <= Len(job) /\ Known <= Taken /\ Handed <= Known
           /\ Len(job) <= Len(job') /\ authority \in Nat /\ authority' \in Nat /\ authority <= authority'
           /\ completed' = completed => Told' = Told
           /\ completed # <<>> /\ completed' = Tail(completed) => Told' = Told + 1
<1>1. /\ FullInvariant /\ MainWork /\ Receiving /\ UNCHANGED <<pc, group, at, outcome>> /\ Taken' = Taken
      /\ completed' = completed \/ (completed # <<>> /\ completed' = Tail(completed))
  BY DEF Acting, RoundsInvariant, MainWork
<1>2. /\ Told \in Nat /\ Handed \in Nat /\ Taken \in Nat /\ Worked \in Nat /\ Known \in {Handed, Taken} /\ Len(job) \in Nat
      /\ Told <= Handed /\ Handed <= Worked /\ Worked <= Taken /\ Taken <= Len(job)
      /\ authority \in Nat /\ Handed = Told + Len(completed) /\ Len(completed) \in Nat
  BY <1>1, Places
<1>3. Handed' = Handed
  BY <1>1 DEF Handed
<1>4. Worked' = Worked /\ Known' = Known /\ Tried' = Tried
  BY <1>1, <1>3 DEF Worked, Known, Recorded, Tried, Preparing
<1>5. Told' = Handed - Len(completed')
  BY <1>3 DEF Told
<1>6. completed \in Seq(Nat)
  BY <1>1 DEF Receiving
<1>7. /\ completed' = completed => Told' = Told
      /\ completed # <<>> /\ completed' = Tail(completed) => Told' = Told + 1 /\ Told' <= Handed
  <2>1. completed # <<>> => Len(Tail(completed)) = Len(completed) - 1 /\ Len(completed) > 0
    BY <1>6
  <2>2. Told = Handed - Len(completed)
    BY DEF Told
  <2> QED BY <1>2, <1>5, <2>1, <2>2
<1>8. Len(job') \in Nat /\ Len(job) <= Len(job') /\ authority' \in Nat /\ authority <= authority'
  BY <1>1 DEF MainWork
<1> QED BY <1>1, <1>2, <1>3, <1>4, <1>7, <1>8

LEMMA ActingJobs ==
    ASSUME Acting
    PROVE  /\ \A id \in 1 .. Len(job) :
                 /\ Carried(id) /\ Kind(id)' = Kind(id) /\ Owner(id)' = Owner(id) /\ Good(id)' = Good(id)
                 /\ Takes(id)' = Takes(id) /\ Promotion(id)' = Promotion(id)
                 /\ Owner(id) \in Owners /\ Born(Owner(id)) /\ Kind(id) \in StageKinds /\ job[id].rev \in Nat
                 /\ Kind(id) \in Builders => job[id].req.block \in Blocks
           /\ \A id \in Fresh : /\ Kind(id)' \in StageKinds /\ Owner(id)' \in Owners /\ Born(Owner(id))'
                                /\ Kind(id)' \in Builders => job'[id].req.block \in Blocks
                                /\ job'[id].result = "none" /\ ~job'[id].committing /\ job'[id].rev = authority'
                                /\ id \in 1 .. Len(job') /\ id > Len(job)
           /\ \A id \in 1 .. Len(job') : id \in 1 .. Len(job) \/ id \in Fresh
           /\ \A id \in 1 .. Len(job) : id \in 1 .. Len(job')
<1>1. /\ Len(job) \in Nat /\ Len(job') \in Nat /\ Len(job) <= Len(job')
  BY ActingNumbers
<1>2. FullInvariant /\ FullInvariant' /\ MainWork
  BY DEF Acting
<1>3. ReceiveInvariant /\ ReceiveInvariant'
  BY <1>2 DEF FullInvariant
<1>4. \A id \in 1 .. Len(job) : Carried(id)
  BY <1>2 DEF MainWork
<1>5. \A id \in 1 .. Len(job) :
         /\ Kind(id)' = Kind(id) /\ Owner(id)' = Owner(id) /\ Good(id)' = Good(id)
         /\ Takes(id)' = Takes(id) /\ Promotion(id)' = Promotion(id)
  BY <1>4 DEF Carried, Kind, Owner, Good, Takes, Promotion
<1>6. \A id \in 1 .. Len(job) :
         /\ Owner(id) \in Owners /\ Born(Owner(id)) /\ Kind(id) \in StageKinds /\ job[id].rev \in Nat
         /\ Kind(id) \in Builders => job[id].req.block \in Blocks
  BY <1>3, Speech
<1>7. ASSUME NEW id \in 1 .. Len(job')
      PROVE  /\ Kind(id)' \in StageKinds /\ Owner(id)' \in Owners /\ Born(Owner(id))'
             /\ Kind(id)' \in Builders => job'[id].req.block \in Blocks
  <2>1. job'[id].req \in Asked
    <3>1. (job \in Seq(JobRecords))'
      BY <1>3 DEF ReceiveInvariant, Types
    <3>2. job'[id] \in JobRecords
      BY <3>1
    <3> QED BY <3>2 DEF JobRecords
  <2>2. Speaks(job[id].req)'
    BY <1>3 DEF ReceiveInvariant, Words
  <2>3. (Born(job[id].req.owner))'
    BY <2>2 DEF Speaks
  <2> QED BY <2>1, <2>3, Request DEF Kind, Owner, Builders, Born
<1>8. \A id \in Fresh : id \in 1 .. Len(job') /\ id > Len(job)
  BY <1>1 DEF Fresh
<1>9. /\ \A id \in 1 .. Len(job') : id \in 1 .. Len(job) \/ id \in Fresh
      /\ \A id \in 1 .. Len(job) : id \in 1 .. Len(job')
  BY <1>1 DEF Fresh
<1>10. \A id \in Fresh : job'[id].result = "none" /\ ~job'[id].committing /\ job'[id].rev = authority'
  BY <1>2 DEF MainWork
<1> QED BY <1>4, <1>5, <1>6, <1>7, <1>8, <1>9, <1>10

LEMMA MainReceiving ==
    ASSUME Acting
    PROVE  Receiving'
<1>1. /\ Receiving /\ Taken' = Taken /\ Worked' = Worked /\ Handed' = Handed
      /\ Told \in Nat /\ Worked \in Nat /\ Taken \in Nat /\ Len(job) \in Nat /\ Worked <= Taken /\ Taken <= Len(job)
      /\ Told' \in {Told, Told + 1}
      /\ completed' = completed => Told' = Told
      /\ completed # <<>> /\ completed' = Tail(completed) => Told' = Told + 1
  BY ActingNumbers
<1>2. /\ UNCHANGED <<pc, group, at, admission, failed, stopping>>
      /\ completed' = completed \/ (completed # <<>> /\ completed' = Tail(completed))
  BY DEF Acting, MainWork
<1>3. /\ completed \in Seq(Nat) /\ \A i \in 1 .. Len(completed) : completed[i] = Told + i
  BY <1>1 DEF Receiving
<1>4. completed' \in Seq(Nat) /\ \A i \in 1 .. Len(completed') : completed'[i] = Told' + i
  <2>1. CASE completed' = completed
    BY <1>1, <1>3, <2>1
  <2>2. CASE completed # <<>> /\ completed' = Tail(completed)
    <3>1. /\ completed' \in Seq(Nat) /\ Len(completed') = Len(completed) - 1
          /\ \A i \in 1 .. Len(completed') : i + 1 \in 1 .. Len(completed) /\ completed'[i] = completed[i + 1]
      BY <1>3, <2>2
    <3>2. Told' = Told + 1
      BY <1>1, <2>2
    <3>3. \A i \in 1 .. Len(completed') : i \in Nat /\ completed'[i] = Told + (i + 1)
      BY <1>3, <3>1
    <3>4. Told \in Nat
      BY <1>1
    <3> QED BY <3>1, <3>2, <3>3, <3>4
  <2> QED BY <1>2, <2>1, <2>2
<1>5. ASSUME NEW id \in 1 .. Len(job')
      PROVE  (id > Worked' => job'[id].result = "none") /\ (id > Taken' => ~job'[id].committing)
  <2>1. CASE id \in 1 .. Len(job)
    <3>1. /\ id > Worked => job[id].result = "none"
          /\ id > Taken => ~job[id].committing
      BY <1>1, <2>1 DEF Receiving
    <3>2. job'[id].result = job[id].result /\ job'[id].committing = job[id].committing
      BY <2>1, ActingJobs DEF Carried
    <3> QED BY <1>1, <3>1, <3>2
  <2>2. CASE id \in Fresh
    BY <2>2, ActingJobs
  <2> QED BY <2>1, <2>2, ActingJobs
<1>6. 0 <= Told'
  BY <1>1
<1>7. /\ pc' = "commit" => at' = Len(group') + 1
      /\ {admission', failed'} \subseteq BOOLEAN /\ stopping' = FALSE /\ admission' = ~failed'
  BY <1>1, <1>2 DEF Receiving
<1> QED BY <1>4, <1>5, <1>6, <1>7 DEF Receiving

\* A new job comes after those it must come after.
Proper(id) ==
    /\ Pointed(id)'
    /\ \A k \in 1 .. Len(job) : Owner(k) = Owner(id)' =>
          /\ Kind(id)' \in Builders => Kind(k) \notin Closers
          /\ Kind(id)' # "ABORT" => Kind(k) # "ABORT"
          /\ Kind(id)' \in Deliverers /\ Kind(k) \in Deliverers => job[k].req.block # job'[id].req.block

\* Several at once are ABORTs.
Submitting ==
    /\ \A id \in Fresh : Proper(id)
    /\ \A id, k \in Fresh : id = k \/ (Kind(id)' = "ABORT" /\ Kind(k)' = "ABORT")

LEMMA PointedKept ==
    ASSUME Acting, NEW id \in 1 .. Len(job)
    PROVE  Pointed(id)'
<1> DEFINE o == Owner(id)
           b == job[id].req.block
<1>1. /\ Carried(id) /\ Kind(id)' = Kind(id) /\ Owner(id)' = o /\ o \in Owners /\ Born(o)
      /\ Kind(id) \in Builders => b \in Blocks
  BY ActingJobs
<1>2. Ages(o) /\ Pointed(id) /\ FullInvariant /\ FullInvariant' /\ Course
  BY <1>1 DEF Acting, RoundsInvariant, Course
<1>3. /\ Told' \in {Told, Told + 1} /\ Told \in Nat /\ Handed \in Nat /\ Told <= Handed /\ Handed <= Len(job) /\ Len(job) \in Nat
      /\ completed # <<>> /\ completed' = Tail(completed) => Told' = Told + 1 /\ Told' <= Handed
  BY ActingNumbers
<1>4. rounds'[o].phase \in Phases /\ rounds[o].phase \in Phases
  <2>1. rounds' \in [Owners -> RoundRecords] /\ rounds \in [Owners -> RoundRecords]
    BY <1>2 DEF FullInvariant, ReceiveInvariant, Types
  <2> QED BY <1>1, <2>1 DEF RoundRecords
<1>5. /\ rounds'[o].phase # "unborn"
      /\ rounds'[o].phase = "live" => rounds[o].phase = "live" /\ rounds'[o].rev = rounds[o].rev
      /\ rounds'[o].promote = rounds[o].promote \/ rounds[o].promote = NoJob
      /\ rounds'[o].abort = rounds[o].abort \/ rounds[o].abort <= Told'
      /\ Kind(id) \in Builders =>
            \/ rounds'[o].step[b] = rounds[o].step[b]
            \/ rounds[o].step[b] \in {"none", "res", "put"}
            \/ rounds'[o].step[b] = "durable" /\ Reports(o, b)
  BY <1>1, <1>2 DEF Ages
<1>6. job'[id].rev = job[id].rev /\ job'[id].req = job[id].req
  BY <1>1 DEF Carried
<1>7. Kind(id) # "ABORT" /\ rounds'[o].phase = "live" => job[id].rev = rounds'[o].rev
  BY <1>2, <1>5 DEF Pointed
<1>8. Kind(id) = "PROMOTE" => rounds'[o].promote = id
  BY <1>2, <1>5 DEF Pointed, NoJob
<1>9. Kind(id) = "ABORT" => rounds'[o].phase \in {"abandoned", "gone"}
  BY <1>2, <1>4, <1>5 DEF Pointed, Phases
<1>10. ASSUME Kind(id) = "ABORT", id > Told' PROVE rounds'[o].abort = id
  <2>1. id > Told
    BY <1>3, <1>10
  <2>2. rounds[o].abort = id
    BY <1>2, <1>10, <2>1 DEF Pointed
  <2> QED BY <1>3, <1>5, <1>10, <2>2
<1>11. ASSUME Kind(id) \in Deliverers
       PROVE  rounds'[o].step[b] \in (IF id > Told' THEN {"end", "reuse"} ELSE {"end", "reuse", "durable"})
  <2>1. rounds[o].step[b] \in (IF id > Told THEN {"end", "reuse"} ELSE {"end", "reuse", "durable"})
    BY <1>2, <1>11 DEF Pointed
  <2>2. Kind(id) \in Builders
    BY <1>11 DEF Builders, Deliverers
  <2>3. CASE rounds'[o].step[b] = rounds[o].step[b]
    BY <1>3, <2>1, <2>3
  <2>4. CASE rounds'[o].step[b] = "durable" /\ Reports(o, b)
    <3>1. PICK k : k = Told + 1
      OBVIOUS
    <3>2. Told' = k /\ Kind(k) \in Deliverers /\ Owner(k) = o /\ job[k].req.block = b
      BY <1>3, <2>4, <3>1 DEF Reports
    <3>3. k \in 1 .. Len(job)
      BY <1>3, <2>4, <3>1 DEF Reports
    <3>4. Ordered(id, k)
      BY <1>2, <3>3 DEF Course
    <3>5. id = k
      BY <1>11, <3>2, <3>4 DEF Ordered
    <3> QED BY <1>3, <2>4, <3>2, <3>5
  <2> QED BY <1>5, <2>1, <2>2, <2>3, <2>4
<1>12. Kind(id)' = Kind(id) /\ Owner(id)' = o
  BY <1>1
<1> QED BY <1>6, <1>7, <1>8, <1>9, <1>10, <1>11, <1>12 DEF Pointed, Deliverers

LEMMA OrderedKept ==
    ASSUME Acting, Submitting, NEW id \in 1 .. Len(job'), NEW k \in 1 .. Len(job')
    PROVE  Ordered(id, k)'
<1>1. /\ Course /\ Len(job) \in Nat /\ id \in Nat /\ k \in Nat
  BY ActingNumbers DEF Acting, RoundsInvariant
<1>2. \A i \in 1 .. Len(job) : Kind(i)' = Kind(i) /\ Owner(i)' = Owner(i) /\ job'[i].req = job[i].req
  BY ActingJobs DEF Carried
<1>3. /\ id \in 1 .. Len(job) \/ (id \in Fresh /\ id > Len(job))
      /\ k \in 1 .. Len(job) \/ (k \in Fresh /\ k > Len(job))
  BY ActingJobs
<1>4. CASE id \in 1 .. Len(job) /\ k \in 1 .. Len(job)
  <2>1. Ordered(id, k)
    BY <1>1, <1>4 DEF Course
  <2> QED BY <1>2, <1>4, <2>1 DEF Ordered, Builders, Deliverers
<1>5. CASE id \in 1 .. Len(job) /\ k \in Fresh /\ k > Len(job)
  <2>1. Proper(k) /\ id < k /\ id # k
    BY <1>1, <1>5 DEF Submitting
  <2> QED BY <1>2, <1>5, <2>1 DEF Proper, Ordered, Builders, Deliverers
<1>6. CASE id \in Fresh /\ id > Len(job) /\ k \in 1 .. Len(job)
  <2>1. Proper(id)
    BY <1>6 DEF Submitting
  <2> QED BY <1>2, <1>6, <2>1 DEF Proper, Ordered, Builders, Deliverers, Closers
<1>7. CASE id \in Fresh /\ k \in Fresh
  <2>1. id = k \/ (Kind(id)' = "ABORT" /\ Kind(k)' = "ABORT")
    BY <1>7 DEF Submitting
  <2> QED BY <2>1 DEF Ordered, Builders, Deliverers
<1> QED BY <1>3, <1>4, <1>5, <1>6, <1>7

LEMMA MainCourse ==
    ASSUME Acting, Submitting
    PROVE  Course'
<1>1. /\ Course /\ Told' \in {Told, Told + 1} /\ Told \in Nat /\ Handed \in Nat /\ Handed <= Len(job) /\ Len(job) \in Nat
      /\ completed # <<>> /\ completed' = Tail(completed) => Told' = Told + 1 /\ Told' <= Handed
      /\ Told <= Handed
  BY ActingNumbers DEF Acting, RoundsInvariant
<1>2. \A id \in 1 .. Len(job') : Pointed(id)'
  <2>1. \A id \in Fresh : Pointed(id)'
    BY DEF Submitting, Proper
  <2> QED BY <2>1, PointedKept, ActingJobs
<1>3. \A id, k \in 1 .. Len(job') : Ordered(id, k)'
  BY OrderedKept
<1>4. \A i \in 1 .. Len(job) : /\ Kind(i)' = Kind(i) /\ Owner(i)' = Owner(i) /\ job'[i].req = job[i].req
                               /\ job'[i].result = job[i].result
  BY ActingJobs DEF Carried
<1>5. ASSUME NEW o \in Owners, NEW b \in Blocks, Delivered(o, b) \/ Reports(o, b) PROVE Delivered(o, b)'
  <2>1. PICK id \in 1 .. Told' : /\ id \in 1 .. Len(job) /\ Kind(id) \in Deliverers /\ Owner(id) = o
                                 /\ job[id].req.block = b /\ job[id].result = "OK"
    <3>1. CASE Delivered(o, b)
      <4>1. PICK id \in 1 .. Told : Kind(id) \in Deliverers /\ Owner(id) = o /\ job[id].req.block = b
                                    /\ job[id].result = "OK"
        BY <3>1 DEF Delivered
      <4>2. id \in 1 .. Told' /\ id \in 1 .. Len(job)
        BY <1>1
      <4> QED BY <4>1, <4>2
    <3>2. CASE Reports(o, b)
      <4>1. PICK id : id = Told + 1
        OBVIOUS
      <4>2. id \in 1 .. Told' /\ id \in 1 .. Len(job)
        BY <1>1, <3>2, <4>1 DEF Reports
      <4> QED BY <3>2, <4>1, <4>2 DEF Reports
    <3> QED BY <1>5, <3>1, <3>2
  <2>2. Kind(id)' \in Deliverers /\ Owner(id)' = o /\ job'[id].req.block = b /\ job'[id].result = "OK"
    BY <1>4, <2>1
  <2> QED BY <2>1, <2>2 DEF Delivered, Deliverers
<1>6. ASSUME NEW o \in Owners, NEW b \in Blocks
      PROVE  /\ rounds'[o].promote # NoJob => rounds'[o].step[b] = "durable"
             /\ rounds'[o].step[b] = "durable" => Delivered(o, b)'
  <2>1. /\ rounds[o].promote # NoJob => rounds[o].step[b] = "durable"
        /\ rounds[o].step[b] = "durable" => Delivered(o, b)
    BY <1>1 DEF Course
  <2>2. Ages(o)
    BY DEF Acting
  <2>3. CASE Born(o)
    <3>1. /\ rounds'[o].promote = rounds[o].promote \/ rounds'[o].step[b] = "durable"
          /\ \/ rounds'[o].step[b] = rounds[o].step[b]
             \/ rounds[o].step[b] \in {"none", "res", "put"} /\ rounds'[o].step[b] # "durable"
             \/ rounds'[o].step[b] = "durable" /\ Reports(o, b)
      BY <2>2, <2>3 DEF Ages
    <3> QED BY <1>5, <2>1, <3>1
  <2>4. CASE ~Born(o)
    BY <1>5, <2>1, <2>2, <2>4 DEF Ages
  <2> QED BY <2>3, <2>4
<1> QED BY <1>2, <1>3, <1>6 DEF Course

LEMMA Spoken ==
    ASSUME FullInvariant, NEW o \in Owners, Speaking(o)
    PROVE  reconcile # 0 /\ Born(o)
<1>1. Born(o)
  BY DEF Speaking, Born
<1>2. rounds[o].wire \in DOMAIN Announced
  BY <1>1 DEF FullInvariant, ReceiveInvariant, Words, Opened
<1> QED BY <1>1, <1>2, ReceiveAssumption DEF Speaking

\* The round that speaks goes on; or no round does and its jobs are withdrawn; or another
\* one begins to, for which nothing was asked before.
Continues ==
    /\ UNCHANGED <<reconcile, authority>>
    /\ \A o \in Owners : Speaking(o)' <=> Speaking(o)
    /\ \A id \in Fresh : Kind(id)' = "ABORT" \/ Speaking(Owner(id))'

Withdraws ==
    /\ reconcile' = 0 /\ Len(job') = Len(job)
    /\ authority' = authority =>
          \A id \in 1 .. Len(job) : Current(id) /\ id > Handed => job'[id].cancelled \/ job'[id].committing

Renews ==
    /\ \A id \in 1 .. Len(job) : ~Current(id)'
    /\ \A o, p \in Owners : Speaking(o)' /\ Speaking(p)' => o = p
    /\ \A id \in Fresh : Speaking(Owner(id))'

LEMMA MainRevisions ==
    ASSUME Acting, Continues \/ Withdraws \/ Renews
    PROVE  Revisions'
<1>1. /\ Revisions /\ Handed' = Handed /\ Handed \in Nat /\ Handed <= Len(job) /\ Len(job) \in Nat /\ Len(job') \in Nat
      /\ authority \in Nat /\ authority' \in Nat /\ authority <= authority'
  BY ActingNumbers DEF Acting, RoundsInvariant
<1>2. \A id \in 1 .. Len(job) : /\ Kind(id)' = Kind(id) /\ Owner(id)' = Owner(id) /\ job'[id].rev = job[id].rev
                                /\ job[id].rev \in Nat /\ Owner(id) \in Owners
                                /\ job'[id].committing = job[id].committing
                                /\ job[id].cancelled => job'[id].cancelled
  BY ActingJobs DEF Carried
<1>3. /\ \A id \in Fresh : job'[id].rev = authority' /\ Owner(id)' \in Owners /\ id > Len(job)
      /\ \A id \in 1 .. Len(job') : id \in 1 .. Len(job) \/ id \in Fresh
  BY ActingJobs
<1>4. \A id \in 1 .. Len(job) : job[id].rev <= authority
  BY <1>1 DEF Revisions
<1>5. \A id \in 1 .. Len(job') : job'[id].rev <= authority' /\ job'[id].rev \in Nat
  BY <1>1, <1>2, <1>3, <1>4
<1>6. ASSUME NEW id \in 1 .. Len(job'), NEW k \in 1 .. Len(job'), id <= k PROVE job'[id].rev <= job'[k].rev
  <2>1. CASE k \in Fresh
    BY <1>3, <1>5, <2>1
  <2>2. CASE k \in 1 .. Len(job)
    <3>1. id \in 1 .. Len(job)
      BY <1>1, <1>6, <2>2
    <3>2. job[id].rev <= job[k].rev
      BY <1>1, <1>6, <2>2, <3>1 DEF Revisions
    <3> QED BY <1>2, <2>2, <3>1, <3>2
  <2> QED BY <1>3, <2>1, <2>2
<1>7. FullInvariant' /\ \A o \in Owners : Speaking(o)' => reconcile' # 0
  <2>1. FullInvariant'
    BY DEF Acting
  <2>2. Opened'
    BY <2>1 DEF FullInvariant, ReceiveInvariant, Words
  <2> QED BY <2>1, <2>2, ReceiveAssumption DEF Opened, Born, Speaking
<1>8. \A o, p \in Owners : Speaking(o)' /\ Speaking(p)' => o = p
  <2>1. CASE Continues
    BY <1>1, <2>1 DEF Continues, Revisions
  <2>2. CASE Withdraws
    BY <1>7, <2>2 DEF Withdraws
  <2>3. CASE Renews
    BY <2>3 DEF Renews
  <2> QED BY <2>1, <2>2, <2>3
<1>9. ASSUME NEW id \in 1 .. Len(job'), Current(id)', reconcile' # 0 PROVE Speaking(Owner(id))'
  <2>1. CASE id \in Fresh
    BY <1>7, <1>9, <2>1, ActingNumbers DEF Continues, Renews, Current, Withdraws, Fresh
  <2>2. CASE id \in 1 .. Len(job)
    <3>1. CASE Continues
      <4>1. Current(id)
        BY <1>2, <1>9, <2>2, <3>1 DEF Current, Continues
      <4>2. Speaking(Owner(id))
        BY <1>1, <1>9, <2>2, <3>1, <4>1 DEF Revisions, Continues
      <4>3. PICK o \in Owners : o = Owner(id)
        BY <1>2, <2>2
      <4>4. Speaking(o)' /\ Owner(id)' = o
        BY <1>2, <2>2, <3>1, <4>2, <4>3 DEF Continues
      <4> QED BY <4>4 DEF Speaking
    <3>2. CASE Withdraws
      BY <1>9, <3>2 DEF Withdraws
    <3>3. CASE Renews
      BY <1>9, <2>2, <3>3 DEF Renews
    <3> QED BY <3>1, <3>2, <3>3
  <2> QED BY <1>3, <2>1, <2>2
<1>10. ASSUME NEW id \in 1 .. Len(job'), Current(id)', reconcile' = 0, id > Handed'
       PROVE  job'[id].cancelled \/ job'[id].committing
  <2>1. CASE id \in Fresh
    <3>1. Speaking(Owner(id))'
      BY <1>10, <2>1, <1>1 DEF Continues, Renews, Current, Withdraws, Fresh
    <3>2. PICK o \in Owners : o = Owner(id)'
      BY <1>3, <2>1
    <3>3. Speaking(o)'
      BY <3>1, <3>2 DEF Speaking
    <3> QED BY <1>7, <1>10, <3>3
  <2>2. CASE id \in 1 .. Len(job)
    <3>1. CASE Continues
      <4>1. Current(id) /\ reconcile = 0 /\ id > Handed
        BY <1>1, <1>2, <1>10, <2>2, <3>1 DEF Current, Continues
      <4> QED BY <1>1, <1>2, <2>2, <4>1 DEF Revisions
    <3>2. CASE Withdraws
      <4>1. authority' = authority
        BY <1>1, <1>2, <1>4, <1>10, <2>2 DEF Current
      <4>2. Current(id)
        BY <1>2, <1>10, <2>2, <4>1 DEF Current
      <4> QED BY <1>1, <1>10, <2>2, <3>2, <4>1, <4>2 DEF Withdraws
    <3>3. CASE Renews
      BY <1>10, <2>2, <3>3 DEF Renews
    <3> QED BY <3>1, <3>2, <3>3
  <2> QED BY <1>3, <2>1, <2>2
<1> QED BY <1>5, <1>6, <1>8, <1>9, <1>10 DEF Revisions

LEMMA MainApart ==
    ASSUME Acting
    PROVE  Apart'
<1>1. /\ Apart /\ UNCHANGED <<pc, at>>
  BY DEF Acting, RoundsInvariant, MainWork
<1>2. /\ Handed' = Handed /\ Taken' = Taken /\ Handed \in Nat /\ Taken \in Nat /\ Taken <= Len(job) /\ Len(job) \in Nat
      /\ authority \in Nat /\ authority' \in Nat /\ authority <= authority'
  BY ActingNumbers
<1>3. \A id \in Handed + 1 .. Taken : id \in 1 .. Len(job)
  BY <1>2
<1>4. \A id \in 1 .. Len(job) : /\ Carried(id) /\ job[id].rev \in Nat
                                /\ Kind(id)' = Kind(id) /\ Owner(id)' = Owner(id)
  BY ActingJobs
<1>5. ASSUME NEW id \in Handed + 1 .. Taken, Idle(id) PROVE Idle(id)'
  <2>1. /\ job'[id].result = job[id].result /\ job'[id].rev = job[id].rev /\ job[id].rev \in Nat
        /\ job[id].cancelled => job'[id].cancelled
    BY <1>3, <1>4 DEF Carried
  <2>2. job'[id].cancelled \/ job'[id].rev < authority'
    BY <1>2, <1>5, <2>1 DEF Idle
  <2> QED BY <1>1, <1>2, <1>5, <2>1, <2>2 DEF Idle
<1> QED BY <1>1, <1>2, <1>3, <1>4, <1>5 DEF Apart

\* What a root set has of the rounds does not depend on how they end.
LEMMA MainHolds ==
    ASSUME Acting, NEW root, NEW n \in Nat, n <= Len(job), Holds(root, n), NoJob \notin ToSet(root.log)
    PROVE  Holds(root, n)'
<1>1. \A id \in 1 .. n : id \in 1 .. Len(job)
  BY ActingNumbers
<1>2. \A id \in 1 .. n : /\ Kind(id)' = Kind(id) /\ Owner(id)' = Owner(id) /\ job'[id].req = job[id].req
                         /\ Good(id)' = Good(id) /\ Takes(id)' = Takes(id) /\ Promotion(id)' = Promotion(id)
                         /\ Owner(id) \in Owners /\ Born(Owner(id))
  BY <1>1, ActingJobs DEF Carried
<1>3. \A o \in Owners : Born(o) =>
         /\ rounds'[o].wire = rounds[o].wire
         /\ rounds'[o].phase = "live" => rounds[o].phase = "live"
         /\ rounds'[o].promote = rounds[o].promote \/ rounds[o].promote = NoJob
  BY DEF Acting, Ages
<1>4. Covers(root, n)'
  <2>1. ASSUME NEW id \in 1 .. n, Kind(id) \in Deliverers, Good(id), rounds'[Owner(id)].phase = "live",
               rounds'[Owner(id)].promote \notin ToSet(root.log)
        PROVE  job[id].req.block \in Mask(root.stages[Owner(id)])
    <3>1. rounds[Owner(id)].phase = "live" /\ rounds[Owner(id)].promote \notin ToSet(root.log)
      BY <1>2, <1>3, <2>1
    <3> QED BY <2>1, <3>1 DEF Holds, Covers
  <2> QED BY <1>2, <2>1 DEF Covers, Deliverers
<1>5. Closed(root, n)'
  BY <1>2 DEF Holds, Closed, Closers
<1>6. Served(root, n)'
  <2>1. ASSUME NEW id \in 1 .. n, Promotion(id), \A k \in id + 1 .. n : ~Promotion(k)'
        PROVE  Announces(root, Owner(id))'
    <3>1. \A k \in id + 1 .. n : ~Promotion(k)
      <4>1. \A k \in id + 1 .. n : k \in 1 .. n
        OBVIOUS
      <4> QED BY <1>2, <2>1, <4>1
    <3>2. Announces(root, Owner(id))
      BY <2>1, <3>1 DEF Holds, Served
    <3>3. PICK o \in Owners : o = Owner(id)
      BY <1>2
    <3>4. Owner(id)' = o /\ rounds'[o].wire = rounds[o].wire
      BY <1>2, <1>3, <3>3
    <3> QED BY <3>2, <3>3, <3>4 DEF Announces, Promise
  <2> QED BY <1>2, <2>1 DEF Served
<1> QED BY <1>4, <1>5, <1>6 DEF Holds

LEMMA MainSets ==
    ASSUME Acting
    PROVE  Sets'
<1>1. /\ Sets /\ FullInvariant /\ UNCHANGED <<pc, candidate, durable>>
  BY DEF Acting, RoundsInvariant, MainWork
<1>2. /\ Handed' = Handed /\ Worked' = Worked /\ Known' = Known /\ Tried' = Tried
      /\ Handed \in Nat /\ Known \in Nat /\ Worked \in Nat /\ Taken \in Nat /\ Len(job) \in Nat
      /\ Worked <= Taken /\ Known <= Taken /\ Taken <= Len(job)
  BY ActingNumbers
<1>3. Known <= Len(job) /\ Worked <= Len(job)
  BY <1>2
<1>4. NoJob \notin ToSet(durable.log) /\ (pc \in Preparing => NoJob \notin ToSet(candidate.log))
  <2>1. Logs /\ Types
    BY <1>1 DEF FullInvariant, ReceiveInvariant
  <2>2. durable.log \in Seq(Nat) /\ candidate.log \in Seq(Nat) /\ at \in Nat
    BY <2>1 DEF Types, Roots
  <2>3. \A i \in DOMAIN durable.log : durable.log[i] # NoJob
    <3>1. \A i \in DOMAIN durable.log : durable.log[i] \in 1 .. Taken
      BY <2>1, <2>2 DEF Logs, Durable
    <3> QED BY <1>2, <3>1 DEF NoJob
  <2>4. pc \in Preparing => \A i \in DOMAIN candidate.log : candidate.log[i] # NoJob
    BY <1>2, <2>1, <2>2 DEF Logs, NoJob
  <2> QED BY <2>3, <2>4 DEF ToSet
<1>5. Holds(durable, Known)'
  <2>1. PICK base, n : base = durable /\ n = Known
    OBVIOUS
  <2>2. Holds(base, n) /\ n \in Nat /\ n <= Len(job) /\ NoJob \notin ToSet(base.log)
    BY <1>1, <1>2, <1>3, <1>4, <2>1 DEF Sets
  <2>3. Holds(base, n)'
    BY <2>2, MainHolds
  <2>4. durable' = base /\ Known' = n
    BY <1>1, <1>2, <2>1
  <2> QED BY <2>3, <2>4
<1>6. ASSUME pc \in Preparing PROVE Holds(candidate, Worked)' /\ Differs'
  <2>1. PICK base, n : base = candidate /\ n = Worked
    OBVIOUS
  <2>2. Holds(base, n) /\ n \in Nat /\ n <= Len(job) /\ NoJob \notin ToSet(base.log) /\ Differs
    BY <1>1, <1>2, <1>3, <1>4, <1>6, <2>1 DEF Sets
  <2>3. Holds(base, n)'
    BY <2>2, MainHolds
  <2>4. candidate' = base /\ Worked' = n
    BY <1>1, <1>2, <2>1
  <2>5. \A id \in Tried : /\ Kind(id)' = Kind(id) /\ Owner(id)' = Owner(id) /\ Good(id)' = Good(id)
                          /\ Promotion(id)' = Promotion(id)
    <3>1. \A id \in Tried : id \in 1 .. Len(job)
      BY <1>2 DEF Tried
    <3> QED BY <3>1, ActingJobs
  <2>6. /\ \A o : \A id \in Of(o) : id \in Tried /\ id \in Of(o)'
        /\ \A o : \A id \in Of(o)' : id \in Of(o)
    BY <1>2, <2>5 DEF Of
  <2>7. Differs'
    BY <1>1, <1>2, <2>2, <2>5, <2>6 DEF Differs
  <2> QED BY <2>3, <2>4, <2>7
<1>7. ASSUME NEW id \in 1 .. Len(job') PROVE Settles(id)'
  <2>1. CASE id \in Fresh
    <3>1. job'[id].result = "none"
      BY <2>1, ActingJobs
    <3> QED BY <3>1 DEF Settles, Promotion, Good
  <2>2. CASE id \in 1 .. Len(job)
    <3>1. Settles(id)
      BY <1>1, <2>2 DEF Sets, Settles
    <3>2. /\ Carried(id) /\ Kind(id)' = Kind(id) /\ Owner(id)' = Owner(id) /\ Promotion(id)' = Promotion(id)
          /\ Owner(id) \in Owners /\ Born(Owner(id))
      BY <2>2, ActingJobs
    <3>3. rounds'[Owner(id)].wire = rounds[Owner(id)].wire
      BY <3>2 DEF Acting, Ages
    <3>4. Exact(id) => Exact(id)'
      BY <3>2, <3>3 DEF Exact, Moves, Promise, Carried, Owner
    <3> QED BY <1>1, <3>1, <3>2, <3>4 DEF Settles, Carried, Closers
  <2> QED BY <2>1, <2>2, ActingJobs
<1> QED BY <1>1, <1>5, <1>6, <1>7 DEF Sets, Settles

LEMMA MainControl ==
    ASSUME Acting
    PROVE  Control'
<1>1. /\ Control /\ UNCHANGED <<pc, candidate, durable, own, outcome>>
  BY DEF Acting, RoundsInvariant, MainWork
<1>2. /\ Handed' = Handed /\ Tried' = Tried /\ Handed \in Nat /\ Worked \in Nat /\ Taken \in Nat /\ Len(job) \in Nat
      /\ Handed <= Worked /\ Worked <= Taken /\ Taken <= Len(job)
  BY ActingNumbers
<1>3. \A id \in 1 .. Len(job) : /\ Kind(id)' = Kind(id) /\ Owner(id)' = Owner(id) /\ Good(id)' = Good(id)
                                /\ Takes(id)' = Takes(id) /\ job'[id].result = job[id].result
  BY ActingJobs DEF Carried
<1>4. \A id \in Tried : id \in 1 .. Len(job)
  BY <1>2 DEF Tried
<1>5. /\ \A o : \A id \in Of(o) : id \in 1 .. Len(job) /\ id \in Of(o)'
      /\ \A o : \A id \in Of(o)' : id \in Of(o)
  BY <1>2, <1>3, <1>4 DEF Of
<1>6. \A o : Leaves(o)' => Leaves(o)
  BY <1>1, <1>3, <1>5 DEF Leaves, Closers
<1>7. \A id \in 1 .. Handed' : Kind(id)' \in Closers /\ Takes(id)' => own'[Owner(id)'] = NoStage
  <2>1. \A id \in 1 .. Handed : id \in 1 .. Len(job)
    BY <1>2
  <2> QED BY <1>1, <1>2, <1>3, <2>1 DEF Control, Closers
<1>8. ASSUME NEW o \in Owners
      PROVE  /\ own'[o] = NoStage => /\ durable'.stages[o] = NoStage
                                     /\ pc' \in Preparing => candidate'.stages[o] = NoStage
             /\ pc' \in Preparing /\ Healthy(own'[o]) /\ (\A id \in Of(o)' : ~(Kind(id)' \in Closers /\ Good(id)'))
                   => own'[o].ready = Mask(candidate'.stages[o])
             /\ pc' \notin Preparing /\ Healthy(own'[o]) /\ Leaves(o)' => own'[o].ready = Mask(durable'.stages[o])
  <2>1. (\A id \in Of(o)' : ~(Kind(id)' \in Closers /\ Good(id)')) => \A id \in Of(o) : ~(Kind(id) \in Closers /\ Good(id))
    BY <1>3, <1>5 DEF Closers
  <2> QED BY <1>1, <1>6, <2>1 DEF Control
<1> QED BY <1>7, <1>8 DEF Control, Closers, Healthy

\* A round is over once its closing was handed over; nothing that may still be worked on
\* builds for it.
Ended(o) == own[o] = NoStage /\ \A id \in Handed + 1 .. Len(job) : Owner(id) = o => Kind(id) = "ABORT"

Ending ==
    ~failed =>
        /\ \A o \in Owners : rounds'[o].phase = "gone" => rounds[o].phase = "gone" \/ Ended(o)
        /\ \A id \in Fresh : Kind(id)' = "ABORT" \/ rounds'[Owner(id)'].phase # "gone"

LEMMA MainOver ==
    ASSUME Acting, Ending
    PROVE  Over'
<1>1. Over /\ UNCHANGED <<failed, own>>
  BY DEF Acting, RoundsInvariant, MainWork
<1>2. Handed' = Handed /\ Handed \in Nat /\ Len(job) \in Nat /\ Len(job') \in Nat
  BY ActingNumbers
<1>3. ASSUME ~failed, NEW o \in Owners, rounds'[o].phase = "gone", NEW id \in Handed + 1 .. Len(job'), Owner(id)' = o
      PROVE  Kind(id)' = "ABORT"
  <2>1. CASE id \in Fresh
    BY <1>3, <2>1 DEF Ending
  <2>2. CASE id \notin Fresh
    <3>1. id \in 1 .. Len(job) /\ id \in Handed + 1 .. Len(job)
      BY <1>2, <2>2 DEF Fresh
    <3>2. Kind(id)' = Kind(id) /\ Owner(id) = o
      BY <1>3, <3>1, ActingJobs
    <3>3. Ended(o)
      BY <1>1, <1>3 DEF Ending, Over, Ended
    <3> QED BY <3>1, <3>2, <3>3 DEF Ended
  <2> QED BY <2>1, <2>2
<1>4. ASSUME ~failed, NEW o \in Owners, rounds'[o].phase = "gone" PROVE own[o] = NoStage
  BY <1>1, <1>4 DEF Ending, Over, Ended
<1> QED BY <1>1, <1>2, <1>3, <1>4 DEF Over

\* READY stays where no round is active, or it is taken back.
Ringing ==
    ready' => /\ ready /\ UNCHANGED <<reconcile, view>>
              /\ \A o \in Owners : rounds[o].phase = "gone" => rounds'[o].phase = "gone"
              /\ \A id \in Fresh : Kind(id)' # "PROMOTE"

LEMMA MainBell ==
    ASSUME Acting, Ringing
    PROVE  Bell'
<1>1. Bell /\ UNCHANGED durable
  BY DEF Acting, RoundsInvariant, MainWork
<1>2. Handed' = Handed /\ Handed \in Nat /\ Len(job) \in Nat /\ Len(job') \in Nat
  BY ActingNumbers
<1>3. ASSUME ready'
      PROVE  /\ reconcile' = 0 /\ view' = Lineage(durable')
             /\ \A id \in Handed + 1 .. Len(job') : Kind(id)' # "PROMOTE"
             /\ \E o \in Owners : rounds'[o].phase = "gone" /\ Born(o)' /\ Announces(durable, o)'
  <2>1. ready /\ reconcile' = 0 /\ view' = Lineage(durable')
    BY <1>1, <1>3 DEF Ringing, Bell
  <2>2. ASSUME NEW id \in Handed + 1 .. Len(job') PROVE Kind(id)' # "PROMOTE"
    <3>1. CASE id \in Fresh
      BY <1>3, <3>1 DEF Ringing
    <3>2. CASE id \notin Fresh
      <4>1. id \in 1 .. Len(job) /\ id \in Handed + 1 .. Len(job)
        BY <1>2, <3>2 DEF Fresh
      <4>2. Kind(id)' = Kind(id)
        BY <4>1, ActingJobs
      <4> QED BY <1>1, <2>1, <4>1, <4>2 DEF Bell
    <3> QED BY <3>1, <3>2
  <2>3. PICK o \in Owners : rounds[o].phase = "gone" /\ Born(o) /\ Announces(durable, o)
    BY <1>1, <2>1 DEF Bell
  <2>4. rounds'[o].phase = "gone" /\ rounds'[o].wire = rounds[o].wire
    BY <1>3, <2>3 DEF Ringing, Acting, Ages
  <2>5. Born(o)' /\ Announces(durable, o)'
    BY <1>1, <2>3, <2>4 DEF Born, Announces, Promise
  <2> QED BY <2>1, <2>2, <2>3, <2>4, <2>5
<1> QED BY <1>2, <1>3 DEF Bell

\* A step of the main thread keeps the invariant, READY apart.
LEMMA MainRounds ==
    ASSUME Acting, Submitting, Continues \/ Withdraws \/ Renews, Ending, Bell'
    PROVE  RoundsInvariant'
BY MainReceiving, MainCourse, MainRevisions, MainApart, MainSets, MainControl, MainOver DEF RoundsInvariant

-----------------------------------------------------------------------------
(* The main thread: what its steps have in common.                            *)

\* Jobs of which some are cancelled.
Relieved(js) == js = job \/ \E ids : js = Cancelled(ids)

LEMMA Relief ==
    ASSUME FullInvariant, NEW js, Relieved(js)
    PROVE  /\ js \in Seq(JobRecords) /\ Len(js) = Len(job) /\ Len(job) \in Nat
           /\ \A id \in 1 .. Len(job) :
                 /\ js[id].req = job[id].req /\ js[id].rev = job[id].rev /\ js[id].result = job[id].result
                 /\ js[id].before = job[id].before /\ js[id].after = job[id].after
                 /\ js[id].committing = job[id].committing
                 /\ job[id].cancelled => js[id].cancelled
                 /\ \A ids : js = Cancelled(ids) /\ id \in ids => js[id].cancelled
<1>1. Types /\ Line
  BY DEF FullInvariant, ReceiveInvariant
<1>2. DOMAIN job = 1 .. Len(job) /\ Len(job) \in Nat /\ \A id \in 1 .. Len(job) : job[id] \in JobRecords
  BY <1>1, Numbers, Members
<1>3. Alike(js)
  BY <1>1, SameAlike, CancelledAlike DEF Relieved
<1>4. ASSUME NEW id \in 1 .. Len(job), NEW ids
      PROVE  /\ Cancelled(ids)[id].rev = job[id].rev /\ Cancelled(ids)[id].result = job[id].result
             /\ Cancelled(ids)[id].committing = job[id].committing
             /\ job[id].cancelled => Cancelled(ids)[id].cancelled
             /\ id \in ids => Cancelled(ids)[id].cancelled
  <2>1. Cancelled(ids)[id] = IF id \in ids THEN [job[id] EXCEPT !.cancelled = TRUE] ELSE job[id]
    BY <1>2 DEF Cancelled
  <2>2. job[id] \in JobRecords
    BY <1>2
  <2> QED BY <2>1, <2>2 DEF JobRecords
<1>5. ASSUME NEW id \in 1 .. Len(job)
      PROVE  /\ js[id].rev = job[id].rev /\ js[id].result = job[id].result
             /\ js[id].committing = job[id].committing
             /\ job[id].cancelled => js[id].cancelled
             /\ \A ids : js = Cancelled(ids) /\ id \in ids => js[id].cancelled
  <2>1. CASE js = job
    <3>1. ASSUME NEW ids, job = Cancelled(ids), id \in ids PROVE job[id].cancelled
      BY <1>4, <3>1
    <3> QED BY <2>1, <3>1
  <2>2. CASE \E ids : js = Cancelled(ids)
    BY <1>4, <2>2
  <2> QED BY <2>1, <2>2 DEF Relieved
<1> QED BY <1>2, <1>3, <1>5 DEF Alike

\* What the main thread leaves to the writer.
Aside ==
    /\ UNCHANGED <<pc, writer, flags>>
    /\ authority' \in Nat /\ authority <= authority'
    /\ completed' = completed \/ (completed # <<>> /\ completed' = Tail(completed))

LEMMA RelievedWork ==
    ASSUME FullInvariant, Aside, Relieved(job'), UNCHANGED pending
    PROVE  MainWork /\ Len(job') = Len(job) /\ Fresh = {}
<1>1. /\ Len(job') = Len(job) /\ Len(job) \in Nat /\ \A id \in 1 .. Len(job) : Carried(id)
  BY Relief DEF Carried
<1>2. Fresh = {}
  BY <1>1 DEF Fresh
<1>3. Taken' = Taken
  BY <1>1 DEF Taken
<1> QED BY <1>1, <1>2, <1>3 DEF MainWork, Aside, writer, flags

LEMMA SubmitWork ==
    ASSUME FullInvariant, Aside, NEW js, Relieved(js), NEW r \in Asked, NEW rev, rev = authority',
           job' = Append(js, NewJob(r, rev)), pending' = Append(pending, Len(job) + 1)
    PROVE  /\ MainWork /\ \A id : id \in Fresh <=> id = Len(job) + 1
           /\ Len(job) \in Nat /\ job'[Len(job) + 1].req = r
<1>1. /\ js \in Seq(JobRecords) /\ Len(js) = Len(job) /\ Len(job) \in Nat
  BY Relief
<1>2. rev \in Nat
  BY DEF Aside
<1>3. PICK x : x = NewJob(r, rev)
  OBVIOUS
<1>4. x.req = r /\ x.result = "none" /\ x.committing = FALSE /\ x.rev = rev
  BY <1>3 DEF NewJob
<1>5. /\ Len(job') = Len(job) + 1 /\ job'[Len(job) + 1] = x
      /\ \A id \in 1 .. Len(job) : job'[id] = js[id]
  BY <1>1, <1>3
<1>6. \A id \in 1 .. Len(job) : Carried(id)
  BY <1>5, Relief DEF Carried
<1>7. \A id : id \in Fresh <=> id = Len(job) + 1
  BY <1>1, <1>5 DEF Fresh
<1>8. Len(pending') = Len(pending) + 1
  <2>1. pending \in Seq(Nat)
    BY DEF FullInvariant, ReceiveInvariant, Types
  <2> QED BY <2>1
<1>9. Len(pending) \in Nat
  <2>1. pending \in Seq(Nat)
    BY DEF FullInvariant, ReceiveInvariant, Types
  <2> QED BY <2>1
<1>10. Taken' = Taken
  BY <1>1, <1>5, <1>8, <1>9 DEF Taken
<1>11. \A id \in Fresh : job'[id].result = "none" /\ ~job'[id].committing /\ job'[id].rev = authority'
  BY <1>4, <1>5, <1>7
<1>12. MainWork
  <2>1. Len(job') \in Nat /\ Len(job) <= Len(job')
    BY <1>1, <1>5
  <2>2. /\ UNCHANGED <<pc, group, at, candidate, outcome, durable, own, admission, failed, stopping>>
        /\ authority' \in Nat /\ authority <= authority'
        /\ completed' = completed \/ (completed # <<>> /\ completed' = Tail(completed))
    BY DEF Aside, writer, flags
  <2> QED BY <1>6, <1>10, <1>11, <2>1, <2>2 DEF MainWork
<1> QED BY <1>1, <1>4, <1>5, <1>7, <1>12

\* A round that changes in nothing but its phase, from live or to one that builds nothing.
LEMMA AgesPhase ==
    ASSUME NEW o \in Owners, Born(o), NEW phase, phase \in {"abandoned", "gone"}, FullInvariant,
           rounds'[o] = [rounds[o] EXCEPT !.phase = phase]
    PROVE  Ages(o)
<1>1. rounds[o] \in RoundRecords
  BY DEF FullInvariant, ReceiveInvariant, Types
<1>2. /\ rounds'[o].phase = phase /\ rounds'[o].wire = rounds[o].wire /\ rounds'[o].promote = rounds[o].promote
      /\ rounds'[o].abort = rounds[o].abort /\ rounds'[o].step = rounds[o].step
  BY <1>1 DEF RoundRecords
<1> QED BY <1>2 DEF Ages

LEMMA AgesSame ==
    ASSUME NEW o \in Owners, rounds'[o] = rounds[o]
    PROVE  Ages(o)
BY DEF Ages, Born

LEMMA AbandonedAges ==
    ASSUME FullInvariant, NEW o \in Owners, rounds'[o] = Abandoned[o]
    PROVE  /\ Ages(o) /\ (rounds'[o].phase = "gone" => rounds[o].phase = "gone")
           /\ rounds[o].phase = "gone" => rounds'[o].phase = "gone"
<1>1. CASE Active(o)
  <2>1. rounds'[o] = [rounds[o] EXCEPT !.phase = "abandoned"] /\ Born(o) /\ rounds[o].phase = "live"
    BY <1>1 DEF Abandoned, Active, Born
  <2>2. rounds[o] \in RoundRecords
    BY DEF FullInvariant, ReceiveInvariant, Types
  <2> QED BY <2>1, <2>2, AgesPhase DEF RoundRecords
<1>2. CASE ~Active(o)
  <2>1. rounds'[o] = rounds[o]
    BY <1>2 DEF Abandoned
  <2> QED BY <2>1, AgesSame
<1> QED BY <1>1, <1>2

\* The jobs of the active round are withdrawn, and there is no other that is current.
LEMMA AbandonsWork ==
    ASSUME FullInvariant, RoundsInvariant, job' = Cancelled(ActiveJobs), reconcile' = 0
    PROVE  Withdraws /\ Relieved(job')
<1>1. Relieved(job')
  BY DEF Relieved
<1>2. /\ Len(job') = Len(job)
      /\ \A id \in 1 .. Len(job) :
            /\ job'[id].committing = job[id].committing
            /\ job[id].cancelled => job'[id].cancelled
            /\ id \in ActiveJobs => job'[id].cancelled
  BY <1>1, Relief
<1>3. Receiving /\ Revisions
  BY DEF RoundsInvariant
<1>4. ASSUME NEW id \in 1 .. Len(job), Current(id), id > Handed PROVE job'[id].cancelled \/ job'[id].committing
  <2>1. CASE reconcile = 0
    BY <1>2, <1>3, <1>4, <2>1 DEF Revisions
  <2>2. CASE reconcile # 0
    <3>1. Active(Owner(id))
      BY <1>3, <1>4, <2>2 DEF Revisions, Speaking, Active
    <3>2. id \in ToSet(pending) \cup ToSet(group)
      <4>1. Line /\ Types /\ Handed \in Nat /\ Taken \in Nat /\ Taken = Handed + Len(group) /\ Len(group) \in Nat
            /\ Len(job) \in Nat /\ Taken <= Len(job)
        BY <1>3, Places
      <4>2. pending \in Seq(Nat) /\ group \in Seq(Nat)
        BY <4>1 DEF Types
      <4>3. Len(job) = Taken + Len(pending) /\ Len(pending) \in Nat
        BY <4>1, Numbers
      <4>4. CASE id <= Taken
        <5>1. PICK i \in 1 .. Len(group) : Handed + i = id
          BY <1>4, <4>1, <4>4
        <5>2. group[i] = Handed + i
          BY <4>1 DEF Line
        <5>3. i \in DOMAIN group
          BY <4>2
        <5> QED BY <5>1, <5>2, <5>3 DEF ToSet
      <4>5. CASE id > Taken
        <5>1. PICK i \in 1 .. Len(pending) : Taken + i = id
          <6>1. PICK m \in Nat, t \in Nat, n \in Nat : m = Len(job) /\ t = Taken /\ n = Len(pending)
            BY <4>1, <4>3
          <6>2. id \in 1 .. m /\ m = t + n /\ id > t
            BY <1>4, <4>3, <4>5, <6>1
          <6>3. id - t \in 1 .. n /\ t + (id - t) = id
            BY <6>2
          <6> QED BY <6>1, <6>3
        <5>2. pending[i] = Taken + i
          BY <4>1 DEF Line
        <5>3. i \in DOMAIN pending
          BY <4>2
        <5> QED BY <5>1, <5>2, <5>3 DEF ToSet
      <4> QED BY <4>1, <4>4, <4>5
    <3>3. job[id].committing \/ id \in ActiveJobs
      BY <3>1, <3>2 DEF ActiveJobs, Withdrawable, Owner
    <3> QED BY <1>2, <3>3
  <2> QED BY <2>1, <2>2
<1> QED BY <1>1, <1>2, <1>4 DEF Withdraws

LEMMA NoneFresh ==
    ASSUME Fresh = {}
    PROVE  Submitting
BY DEF Submitting

LEMMA GivesUp ==
    ASSUME FullInvariant, FullInvariant', RoundsInvariant, GiveUp, Aside, UNCHANGED pending, ~ready'
    PROVE  RoundsInvariant'
<1>1. job' = Cancelled(ActiveJobs) /\ rounds' = Abandoned /\ reconcile' = 0
  BY DEF GiveUp
<1>2. Withdraws /\ Relieved(job')
  BY <1>1, AbandonsWork
<1>3. MainWork /\ Fresh = {}
  BY <1>2, RelievedWork
<1>4. \A o \in Owners : Ages(o) /\ (rounds'[o].phase = "gone" => rounds[o].phase = "gone")
  BY <1>1, AbandonedAges
<1>5. Acting /\ Submitting
  BY <1>3, <1>4, NoneFresh DEF Acting
<1>6. Ending /\ Bell'
  BY <1>3, <1>4 DEF Ending, Bell
<1> QED BY <1>2, <1>5, <1>6, MainRounds

\* A step that moves nothing that is spoken of here.
LEMMA Unmoved ==
    ASSUME FullInvariant, FullInvariant', RoundsInvariant, Aside,
           UNCHANGED <<job, pending, rounds, reconcile, ready, view, authority>>
    PROVE  RoundsInvariant'
<1>1. MainWork /\ Fresh = {}
  BY RelievedWork DEF Relieved
<1>2. \A o \in Owners : Ages(o)
  BY AgesSame
<1>3. Acting /\ Submitting
  BY <1>1, <1>2, NoneFresh DEF Acting
<1>4. Continues
  BY <1>1 DEF Continues, Speaking
<1>5. Ending /\ Ringing
  BY <1>1 DEF Ending, Ringing
<1> QED BY <1>3, <1>4, <1>5, MainRounds, MainBell

LEMMA TimeoutRounds ==
    ASSUME FullInvariant, FullInvariant', RoundsInvariant, Timeout
    PROVE  RoundsInvariant'
<1>1. ~ready'
  BY DEF Timeout, RoundsInvariant, Bell
<1>2. authority \in Nat
  BY DEF FullInvariant, ReceiveInvariant, Types
<1>3. Aside /\ UNCHANGED pending /\ GiveUp
  BY <1>2 DEF Timeout, Aside
<1> QED BY <1>1, <1>3, GivesUp

\* The revision moves: no job and no round is current any more.
LEMMA Revokes ==
    ASSUME FullInvariant, RoundsInvariant, authority' = authority + 1
    PROVE  /\ \A id \in 1 .. Len(job) : job'[id].rev = job[id].rev => ~Current(id)'
           /\ \A o \in Owners : rounds'[o].rev \in {rounds[o].rev, 0} => ~Speaking(o)'
<1>1. authority \in Nat /\ (\A id \in 1 .. Len(job) : job[id].rev <= authority)
  BY DEF FullInvariant, ReceiveInvariant, Types, RoundsInvariant, Revisions
<1>2. \A o \in Owners : rounds[o].rev <= authority /\ rounds[o].rev \in Nat
  BY DEF FullInvariant, ReceiveInvariant, Types, RoundRecords, Pointers, Pointing
<1>3. ReceiveInvariant
  BY DEF FullInvariant
<1>4. \A id \in 1 .. Len(job) : job[id].rev \in Nat
  BY <1>3, Speech
<1>5. \A id \in 1 .. Len(job) : job[id].rev # authority'
  BY <1>1, <1>4
<1>6. \A o \in Owners : rounds[o].rev # authority' /\ authority' # 0
  BY <1>1, <1>2
<1> QED BY <1>5, <1>6 DEF Current, Speaking

LEMMA WithdrawRounds ==
    ASSUME FullInvariant, FullInvariant', RoundsInvariant, Withdraw
    PROVE  RoundsInvariant'
<1>1. authority \in Nat /\ authority' = authority + 1
  BY DEF FullInvariant, ReceiveInvariant, Types, Withdraw
<1>2. Aside /\ UNCHANGED <<pending, view>> /\ (ready' = ready \/ ready' = FALSE)
  <2>1. UNCHANGED <<pc, pending, writer, completed, flags, view>>
    BY DEF Withdraw
  <2>2. ready' = ready \/ ready' = FALSE
    BY Zenon DEF Withdraw
  <2> QED BY <1>1, <2>1, <2>2 DEF Aside
<1>3. CASE reconcile # 0 /\ GiveUp
  <2>1. ~ready'
    BY <1>2, <1>3 DEF RoundsInvariant, Bell
  <2> QED BY <1>2, <1>3, <2>1, GivesUp
<1>4. CASE UNCHANGED <<rounds, reconcile, job>>
  <2>1. MainWork /\ Fresh = {}
    BY <1>2, <1>4, RelievedWork DEF Relieved
  <2>2. \A o \in Owners : Ages(o)
    BY <1>4, AgesSame
  <2>3. Acting /\ Submitting
    BY <2>1, <2>2, NoneFresh DEF Acting
  <2>4. Renews
    BY <1>1, <1>4, <2>1, Revokes DEF Renews
  <2>5. Ending
    BY <1>4, <2>1 DEF Ending
  <2>6. Ringing
    <3>1. ready' => ready
      BY <1>2
    <3> QED BY <1>2, <1>4, <2>1, <3>1 DEF Ringing
  <2> QED BY <2>3, <2>4, <2>5, <2>6, MainRounds, MainBell
<1> QED BY <1>3, <1>4 DEF Withdraw

-----------------------------------------------------------------------------
(* Receipts.                                                                  *)

LEMMA ReceiptFacts ==
    ASSUME FullInvariant, RoundsInvariant, NEW id, NEW o, Receipt(id, o)
    PROVE  /\ Aside /\ UNCHANGED authority /\ completed # <<>> /\ completed' = Tail(completed)
           /\ id = Told + 1 /\ id <= Handed /\ id \in 1 .. Len(job) /\ id \in 1 .. Handed /\ id > Told
           /\ o = Owner(id) /\ o \in Owners /\ Born(o) /\ rounds[o].wire # 0
           /\ Len(job) \in Nat /\ Handed <= Len(job)
<1>1. Receiving /\ ReceiveInvariant /\ authority \in Nat
  BY DEF RoundsInvariant, FullInvariant, ReceiveInvariant, Types
<1>2. completed # <<>> /\ completed' = Tail(completed) /\ id = Head(completed) /\ o = job[id].req.owner
  BY DEF Receipt
<1>3. completed \in Seq(Nat) /\ \A i \in 1 .. Len(completed) : completed[i] = Told + i
  BY <1>1 DEF Receiving
<1>4. Len(completed) \in Nat /\ Len(completed) >= 1 /\ id = completed[1] /\ Len(completed') = Len(completed) - 1
  BY <1>2, <1>3
<1>5. id = Told + 1
  BY <1>3, <1>4
<1>6. Told \in Nat /\ Handed \in Nat /\ Len(job) \in Nat /\ Handed = Told + Len(completed) /\ Handed <= Len(job)
  <2>1. Told \in Nat /\ Handed \in Nat /\ Len(job) \in Nat /\ Handed = Told + Len(completed)
        /\ Handed <= Worked /\ Worked <= Taken /\ Taken <= Len(job) /\ Worked \in Nat /\ Taken \in Nat
    BY <1>1, Places
  <2> QED BY <2>1
<1>7. id <= Handed /\ id \in 1 .. Len(job) /\ id \in 1 .. Handed /\ id > Told
  BY <1>4, <1>5, <1>6
<1>8. o = Owner(id) /\ o \in Owners /\ Born(o)
  BY <1>1, <1>2, <1>7, Speech DEF Owner
<1>9. rounds[o].wire # 0
  <2>1. rounds[o].wire \in DOMAIN Announced
    BY <1>1, <1>8 DEF ReceiveInvariant, Words, Opened
  <2> QED BY <2>1, ReceiveAssumption
<1>10. Aside /\ UNCHANGED authority
  BY <1>1, <1>2 DEF Receipt, Aside
<1> QED BY <1>2, <1>5, <1>6, <1>7, <1>8, <1>9, <1>10

\* A round is over when a job that closes it was handed over.
LEMMA ClosedEnds ==
    ASSUME FullInvariant, RoundsInvariant, NEW id \in 1 .. Handed, id \in 1 .. Len(job), Kind(id) \in Closers, Takes(id)
    PROVE  Ended(Owner(id))
<1>1. Receiving /\ Course /\ Control /\ ReceiveInvariant
  BY DEF RoundsInvariant, FullInvariant
<1>2. own[Owner(id)] = NoStage
  BY <1>1 DEF Control
<1>3. ASSUME NEW k \in Handed + 1 .. Len(job), Owner(k) = Owner(id), Kind(k) # "ABORT" PROVE FALSE
  <2>1. Handed \in Nat /\ Len(job) \in Nat
    BY <1>1, Places
  <2>2. k \in 1 .. Len(job) /\ k > id /\ k \in Nat /\ id \in Nat
    BY <2>1
  <2>3. Ordered(k, id) /\ Pointed(k) /\ Pointed(id)
    BY <1>1, <2>2 DEF Course
  <2>4. ~(k < id)
    BY <2>2
  <2>5. Kind(id) = "PROMOTE" /\ Kind(k) \notin Builders
    BY <1>3, <2>3, <2>4 DEF Ordered, Closers
  <2>6. Kind(k) \in StageKinds
    BY <1>1, <2>2, Speech
  <2>7. Kind(k) = "PROMOTE"
    BY <1>3, <2>5, <2>6 DEF Builders, StageKinds
  <2>8. k = id
    BY <1>3, <2>3, <2>5, <2>7 DEF Pointed
  <2> QED BY <2>2, <2>8
<1> QED BY <1>2, <1>3 DEF Ended

LEMMA StaleRounds ==
    ASSUME FullInvariant, FullInvariant', RoundsInvariant, NEW id, NEW o, StaleReceipt(id, o)
    PROVE  RoundsInvariant'
<1>1. Receipt(id, o) /\ UNCHANGED <<job, pending, rounds, reconcile, ready, view>>
  BY DEF StaleReceipt, Quiet
<1>2. Aside /\ UNCHANGED authority
  BY <1>1, ReceiptFacts
<1> QED BY <1>1, <1>2, Unmoved

LEMMA AbortRounds ==
    ASSUME FullInvariant, FullInvariant', RoundsInvariant, NEW id, NEW o, AbortReceipt(id, o)
    PROVE  RoundsInvariant'
<1>1. /\ Receipt(id, o) /\ UNCHANGED <<job, pending, reconcile, ready, view>> /\ job[id].req.kind = "ABORT"
      /\ rounds' = IF rounds[o].phase = "abandoned" /\ rounds[o].abort = id
                   THEN IF AbortTook(id) THEN Done(o) ELSE Retry(o)
                   ELSE rounds
  BY DEF AbortReceipt, Quiet
<1>2. /\ Aside /\ UNCHANGED authority /\ id \in 1 .. Handed /\ id \in 1 .. Len(job) /\ id = Told + 1
      /\ o = Owner(id) /\ o \in Owners /\ Born(o) /\ completed # <<>> /\ completed' = Tail(completed)
  BY <1>1, ReceiptFacts
<1>3. CASE ~(rounds[o].phase = "abandoned" /\ rounds[o].abort = id)
  <2>1. rounds' = rounds
    BY <1>1, <1>3
  <2> QED BY <1>1, <1>2, <2>1, Unmoved
<1>4. CASE rounds[o].phase = "abandoned" /\ rounds[o].abort = id
  <2>1. MainWork /\ Fresh = {}
    BY <1>1, <1>2, RelievedWork DEF Relieved
  <2>2. rounds \in [Owners -> RoundRecords]
    BY DEF FullInvariant, ReceiveInvariant, Types
  <2>3. \A p \in Owners : p # o => rounds'[p] = rounds[p]
    BY <1>1, <1>4, <2>2 DEF Done, Retry
  <2>4. rounds'[o] = IF AbortTook(id) THEN [rounds[o] EXCEPT !.phase = "gone"] ELSE [rounds[o] EXCEPT !.abort = NoJob]
    BY <1>1, <1>2, <1>4, <2>2 DEF Done, Retry
  <2>5. Ages(o) /\ rounds'[o].phase # "live" /\ (rounds'[o].phase = "gone" => AbortTook(id))
    <3>1. CASE AbortTook(id)
      <4>1. rounds'[o] = [rounds[o] EXCEPT !.phase = "gone"]
        BY <2>4, <3>1
      <4>2. rounds[o] \in RoundRecords
        BY <1>2, <2>2
      <4>3. rounds'[o].phase = "gone"
        BY <4>1, <4>2 DEF RoundRecords
      <4>4. Ages(o)
        BY <1>2, <4>1, AgesPhase
      <4> QED BY <3>1, <4>3, <4>4
    <3>2. CASE ~AbortTook(id)
      <4>1. rounds'[o] = [rounds[o] EXCEPT !.abort = NoJob] /\ rounds[o] \in RoundRecords
        BY <1>2, <2>2, <2>4, <3>2
      <4>2. /\ rounds'[o].phase = "abandoned" /\ rounds'[o].wire = rounds[o].wire
            /\ rounds'[o].promote = rounds[o].promote /\ rounds'[o].step = rounds[o].step
        BY <1>4, <4>1 DEF RoundRecords
      <4>3. rounds[o].abort <= Told'
        <5>1. Told' = id
          <6>1. Receiving /\ Handed' = Handed
            BY <1>1, <1>2 DEF RoundsInvariant, Aside, writer, Handed, Taken
          <6>2. completed \in Seq(Nat) /\ Told \in Nat /\ Handed \in Nat
            BY <6>1, Places DEF Receiving
          <6>3. Len(completed') = Len(completed) - 1 /\ Len(completed) \in Nat
            BY <1>2, <6>2
          <6>4. PICK n \in Nat : n = Len(completed)
            BY <6>3
          <6>5. Told = Handed - n /\ Told' = Handed - (n - 1)
            BY <6>1, <6>3, <6>4 DEF Told
          <6> QED BY <1>2, <6>2, <6>5
        <5> QED BY <1>2, <1>4, <5>1
      <4> QED BY <1>2, <4>2, <4>3 DEF Ages
    <3> QED BY <3>1, <3>2
  <2>6. \A p \in Owners : Ages(p)
    BY <2>3, <2>5, AgesSame
  <2>7. Acting /\ Submitting
    BY <2>1, <2>6, NoneFresh DEF Acting
  <2>8. Continues
    <3>1. \A p \in Owners : Speaking(p)' <=> Speaking(p)
      BY <1>1, <1>2, <1>4, <2>3, <2>5 DEF Speaking
    <3> QED BY <1>1, <1>2, <2>1, <3>1 DEF Continues
  <2>9. Ending
    <3>1. AbortTook(id) => Ended(o)
      BY <1>1, <1>2, ClosedEnds DEF AbortTook, Takes, Kind, Closers
    <3> QED BY <2>1, <2>3, <2>5, <3>1 DEF Ending
  <2>10. Ringing
    BY <1>1, <1>4, <2>1, <2>3 DEF Ringing
  <2> QED BY <2>7, <2>8, <2>9, <2>10, MainRounds, MainBell
<1> QED BY <1>3, <1>4

\* A live round is the active one, and there is no READY beside it.
LEMMA LiveFacts ==
    ASSUME FullInvariant, RoundsInvariant, NEW o \in Owners, Live(o)
    PROVE  /\ Born(o) /\ Speaking(o) /\ reconcile # 0 /\ ~ready /\ rounds[o].phase = "live" /\ rounds[o].rev = authority
           /\ rounds[o].wire \in DOMAIN Announced /\ rounds[o].wire = reconcile
<1>1. Born(o) /\ Speaking(o) /\ rounds[o].phase = "live" /\ rounds[o].rev = authority /\ rounds[o].wire = reconcile
  BY DEF Live, Speaking, Born
<1>2. reconcile # 0 /\ rounds[o].wire \in DOMAIN Announced
  BY <1>1, Spoken DEF FullInvariant, ReceiveInvariant, Words, Opened
<1>3. ~ready
  BY <1>2 DEF RoundsInvariant, Bell
<1> QED BY <1>1, <1>2, <1>3

LEMMA FailedRounds ==
    ASSUME FullInvariant, FullInvariant', RoundsInvariant, NEW id, NEW o, FailedReceipt(id, o)
    PROVE  RoundsInvariant'
<1>1. Receipt(id, o) /\ Live(o) /\ GiveUp /\ UNCHANGED <<pending, ready>>
  BY DEF FailedReceipt
<1>2. Aside /\ o \in Owners
  BY <1>1, ReceiptFacts
<1>3. ~ready
  BY <1>1, <1>2, LiveFacts
<1> QED BY <1>1, <1>2, <1>3, GivesUp

\* No job asked for after a live round's PROMOTE is one, and none that waits builds for it.
LEMMA LastPromote ==
    ASSUME FullInvariant, RoundsInvariant, NEW o \in Owners, Live(o), NEW id \in 1 .. Len(job),
           Kind(id) = "PROMOTE", Owner(id) = o, NEW k \in 1 .. Len(job), k > id, job[k].rev = authority
    PROVE  Kind(k) = "ABORT"
<1>1. Course /\ Revisions /\ ReceiveInvariant
  BY DEF RoundsInvariant, FullInvariant
<1>2. Speaking(o) /\ reconcile # 0
  BY LiveFacts
<1>3. SUFFICES ASSUME Kind(k) # "ABORT" PROVE FALSE
  OBVIOUS
<1>4. Owner(k) \in Owners /\ Kind(k) \in StageKinds
  BY <1>1, Speech
<1>5. Speaking(Owner(k))
  BY <1>1, <1>2, <1>3 DEF Revisions, Current
<1>6. Owner(k) = o
  BY <1>1, <1>2, <1>4, <1>5 DEF Revisions
<1>7. Ordered(k, id) /\ Pointed(k) /\ Pointed(id)
  BY <1>1 DEF Course
<1>8. Kind(k) \notin Builders
  BY <1>6, <1>7 DEF Ordered
<1>9. Kind(k) = "PROMOTE"
  BY <1>3, <1>4, <1>8 DEF Builders, StageKinds
<1>10. k = id
  BY <1>6, <1>7, <1>9 DEF Pointed
<1> QED BY <1>10

LEMMA NoLaterPromote ==
    ASSUME FullInvariant, RoundsInvariant, NEW o \in Owners, Live(o), NEW id \in 1 .. Len(job),
           Kind(id) = "PROMOTE", Owner(id) = o, NEW k \in 1 .. Len(job), k > id
    PROVE  Kind(k) # "PROMOTE"
<1>1. Course /\ Revisions /\ ReceiveInvariant /\ authority \in Nat
  BY DEF RoundsInvariant, FullInvariant, ReceiveInvariant, Types
<1>2. rounds[o].phase = "live" /\ rounds[o].rev = authority
  BY LiveFacts
<1>3. job[id].rev = authority
  BY <1>1, <1>2 DEF Course, Pointed
<1>4. job[id].rev <= job[k].rev /\ job[k].rev <= authority
  BY <1>1 DEF Revisions
<1>5. job[k].rev \in Nat
  BY <1>1, Speech
<1>6. job[k].rev = authority
  BY <1>1, <1>3, <1>4, <1>5
<1>7. Kind(k) = "ABORT"
  BY <1>6, LastPromote
<1> QED BY <1>7

\* READY is restored: no round builds, and the store is the promoted round.
LEMMA PromotedRounds ==
    ASSUME FullInvariant, FullInvariant', RoundsInvariant, NEW id, NEW o, PromoteReceipt(id, o), Live(o)
    PROVE  RoundsInvariant'
<1>1. /\ Receipt(id, o) /\ job[id].req.kind = "PROMOTE" /\ job[id].result = "OK"
      /\ view' = Lineage(job[id].after)
      /\ rounds' = Done(o) /\ reconcile' = 0 /\ ready' = TRUE /\ UNCHANGED <<job, pending>>
  BY DEF PromoteReceipt
<1>2. /\ Aside /\ UNCHANGED authority /\ id \in 1 .. Handed /\ id \in 1 .. Len(job) /\ id <= Handed
      /\ o = Owner(id) /\ o \in Owners /\ Born(o) /\ Len(job) \in Nat
  BY <1>1, ReceiptFacts
<1>3. Kind(id) = "PROMOTE" /\ Promotion(id) /\ Takes(id)
  BY <1>1 DEF Kind, Promotion, Good, Takes
<1>4. MainWork /\ Fresh = {} /\ Len(job') = Len(job)
  BY <1>1, <1>2, RelievedWork DEF Relieved
<1>5. rounds \in [Owners -> RoundRecords] /\ Handed \in Nat
  BY Places DEF FullInvariant, ReceiveInvariant, Types, RoundsInvariant
<1>6. /\ \A p \in Owners : p # o => rounds'[p] = rounds[p]
      /\ rounds'[o] = [rounds[o] EXCEPT !.phase = "gone"]
  BY <1>1, <1>2, <1>5 DEF Done
<1>7. rounds'[o].phase = "gone" /\ rounds'[o].wire = rounds[o].wire
  <2>1. rounds[o] \in RoundRecords
    BY <1>2, <1>5
  <2> QED BY <1>6, <2>1 DEF RoundRecords
<1>8. \A p \in Owners : Ages(p)
  <2>1. Ages(o)
    BY <1>2, <1>6, AgesPhase
  <2> QED BY <1>6, <2>1, AgesSame
<1>9. Acting /\ Submitting
  BY <1>4, <1>8, NoneFresh DEF Acting
<1>10. Withdraws
  <2>1. ASSUME NEW k \in 1 .. Len(job), Current(k), k > Handed PROVE FALSE
    <3>1. k > id
      BY <1>2, <1>5, <2>1
    <3>2. Kind(k) = "ABORT"
      BY <1>2, <1>3, <2>1, <3>1, LastPromote DEF Current
    <3> QED BY <2>1, <3>2 DEF Current
  <2> QED BY <1>1, <1>4, <2>1 DEF Withdraws
<1>11. Ending
  <2>1. Ended(o)
    BY <1>2, <1>3, ClosedEnds DEF Closers
  <2> QED BY <1>4, <1>6, <2>1 DEF Ending
<1>12. Bell'
  <2>1. Handed' = Handed /\ UNCHANGED durable
    BY <1>4, <1>9, ActingNumbers DEF MainWork
  <2>2. \A k \in Handed + 1 .. Len(job) : Kind(k)' # "PROMOTE"
    <3>1. \A k \in Handed + 1 .. Len(job) : k \in 1 .. Len(job) /\ k > id
      BY <1>2, <1>5
    <3>2. \A k \in Handed + 1 .. Len(job) : Kind(k) # "PROMOTE"
      BY <1>2, <1>3, <3>1, NoLaterPromote
    <3> QED BY <1>1, <3>2 DEF Kind
  <2>3. Announces(durable, o)
    <3>1. Sets /\ Known \in Nat /\ Handed <= Known /\ Known <= Len(job)
      <4>1. Taken \in Nat /\ Known <= Taken /\ Taken <= Len(job) /\ Handed <= Known /\ Known \in Nat
        BY <1>9, ActingNumbers
      <4> QED BY <1>2, <4>1 DEF RoundsInvariant
    <3>2. id \in 1 .. Known /\ \A k \in id + 1 .. Known : k \in 1 .. Len(job) /\ k > id
      BY <1>2, <1>5, <3>1
    <3>3. \A k \in id + 1 .. Known : ~Promotion(k)
      BY <1>2, <1>3, <3>2, NoLaterPromote DEF Promotion
    <3> QED BY <1>2, <1>3, <3>1, <3>2, <3>3 DEF Sets, Holds, Served
  <2>4. view' = Lineage(durable)
    <3>1. Exact(id)
      BY <1>2, <1>3 DEF RoundsInvariant, Sets
    <3>2. Lineage(job[id].after) = Lineage(Promise(o))
      BY <1>1, <1>2, <3>1 DEF Exact, Moves, Owner
    <3> QED BY <1>1, <2>3, <3>2 DEF Announces
  <2>5. Born(o)' /\ Announces(durable, o)'
    BY <1>7, <2>1, <2>3 DEF Born, Announces, Promise
  <2> QED BY <1>1, <1>2, <1>4, <1>7, <2>1, <2>2, <2>4, <2>5 DEF Bell
<1> QED BY <1>9, <1>10, <1>11, <1>12, MainRounds

LEMMA PromoteRounds ==
    ASSUME FullInvariant, FullInvariant', RoundsInvariant, NEW id, NEW o, PromoteReceipt(id, o)
    PROVE  RoundsInvariant'
<1>1. CASE Live(o)
  BY <1>1, PromotedRounds
<1>2. CASE ~Live(o)
  <2>1. /\ Receipt(id, o) /\ ready' = FALSE /\ UNCHANGED pending
        /\ IF reconcile = rounds[o].wire
           THEN GiveUp
           ELSE rounds' = [rounds EXCEPT ![o].phase = "abandoned"] /\ UNCHANGED <<job, reconcile>>
    BY <1>2 DEF PromoteReceipt
  <2>2. Aside /\ UNCHANGED authority /\ o \in Owners /\ Born(o)
    BY <2>1, ReceiptFacts
  <2>3. CASE reconcile = rounds[o].wire
    BY <2>1, <2>2, <2>3, GivesUp
  <2>4. CASE reconcile # rounds[o].wire
    <3>1. rounds' = [rounds EXCEPT ![o].phase = "abandoned"] /\ UNCHANGED <<job, reconcile>>
      BY <2>1, <2>4
    <3>2. MainWork /\ Fresh = {}
      BY <2>1, <2>2, <3>1, RelievedWork DEF Relieved
    <3>3. rounds \in [Owners -> RoundRecords]
      BY DEF FullInvariant, ReceiveInvariant, Types
    <3>4. /\ \A p \in Owners : p # o => rounds'[p] = rounds[p]
          /\ rounds'[o] = [rounds[o] EXCEPT !.phase = "abandoned"] /\ rounds[o] \in RoundRecords
      BY <2>2, <3>1, <3>3
    <3>5. rounds'[o].phase = "abandoned"
      BY <3>4 DEF RoundRecords
    <3>6. \A p \in Owners : Ages(p)
      <4>1. Ages(o)
        BY <2>2, <3>4, AgesPhase
      <4> QED BY <3>4, <4>1, AgesSame
    <3>7. Acting /\ Submitting
      BY <3>2, <3>6, NoneFresh DEF Acting
    <3>8. Continues
      <4>1. \A p \in Owners : Speaking(p)' <=> Speaking(p)
        BY <2>2, <2>4, <3>1, <3>4, <3>5 DEF Speaking
      <4> QED BY <2>2, <3>1, <3>2, <4>1 DEF Continues
    <3>9. Ending /\ Bell'
      BY <2>1, <3>2, <3>4, <3>5 DEF Ending, Bell
    <3> QED BY <3>7, <3>8, <3>9, MainRounds
  <2> QED BY <2>3, <2>4
<1> QED BY <1>1, <1>2

\* A live round goes on: what is asked for is asked for it.
LEMMA Furthers ==
    ASSUME FullInvariant, FullInvariant', RoundsInvariant, MainWork, NEW o \in Owners, Live(o), Ages(o), Submitting,
           \A p \in Owners : p # o => rounds'[p] = rounds[p],
           rounds'[o].phase = rounds[o].phase, rounds'[o].wire = rounds[o].wire, rounds'[o].rev = rounds[o].rev,
           UNCHANGED <<reconcile, authority, ready>>, \A id \in Fresh : Owner(id)' = o
    PROVE  RoundsInvariant'
<1>1. \A p \in Owners : Ages(p)
  BY AgesSame
<1>2. Acting
  BY <1>1 DEF Acting
<1>3. /\ Speaking(o) /\ ~ready /\ rounds[o].phase = "live"
  BY LiveFacts
<1>4. \A p \in Owners : Speaking(p)' <=> Speaking(p)
  BY DEF Speaking
<1>5. Continues
  <2>1. ASSUME NEW id \in Fresh PROVE Speaking(Owner(id))'
    <3>1. Owner(id)' = o
      OBVIOUS
    <3>2. Speaking(o)'
      BY <1>3, <1>4
    <3> QED BY <3>1, <3>2 DEF Speaking
  <2> QED BY <1>4, <2>1 DEF Continues
<1>6. Ending
  BY <1>3 DEF Ending
<1>7. Bell'
  BY <1>3 DEF Bell
<1> QED BY <1>2, <1>5, <1>6, <1>7, MainRounds

\* The jobs of a live round in which block b was not asked for yet.
LEMMA NothingYet ==
    ASSUME FullInvariant, RoundsInvariant, NEW o \in Owners, Live(o), NEW b \in Blocks,
           rounds[o].step[b] \in {"none", "res", "put"}, NEW k \in 1 .. Len(job), Owner(k) = o
    PROVE  /\ Kind(k) \notin Closers
           /\ Kind(k) \in Deliverers => job[k].req.block # b
<1>1. Course
  BY DEF RoundsInvariant
<1>2. Pointed(k) /\ (rounds[o].promote # NoJob => rounds[o].step[b] = "durable")
  BY <1>1 DEF Course
<1>3. rounds[o].phase = "live"
  BY LiveFacts
<1>4. Kind(k) # "ABORT"
  BY <1>2, <1>3 DEF Pointed
<1>5. Kind(k) # "PROMOTE"
  <2>1. rounds[o].promote = NoJob
    BY <1>2
  <2>2. Kind(k) = "PROMOTE" => rounds[o].promote = k
    BY <1>2 DEF Pointed
  <2> QED BY <2>1, <2>2 DEF NoJob
<1>6. Kind(k) \in Deliverers => job[k].req.block # b
  BY <1>2 DEF Pointed
<1> QED BY <1>4, <1>5, <1>6 DEF Closers

\* A frame of a live round asks for a job.
Building(o, b, kind, r, rev, next) ==
    /\ Live(o) /\ rounds[o].step[b] \in {"none", "res", "put"}
    /\ kind \in Builders /\ r = Req(kind, o, rounds[o].wire, b) /\ rev = rounds[o].rev
    /\ UNCHANGED <<reconcile, authority, ready>>
    /\ job' = Append(job, NewJob(r, rev)) /\ pending' = Append(pending, Len(job) + 1)
    /\ rounds' = [rounds EXCEPT ![o] = next]
    /\ next.phase = rounds[o].phase /\ next.wire = rounds[o].wire /\ next.rev = rounds[o].rev
    /\ next.promote = rounds[o].promote /\ next.abort = rounds[o].abort
    /\ \A c \in Blocks : c # b => next.step[c] = rounds[o].step[c]
    /\ next.step[b] # "durable"
    /\ kind \in Deliverers => next.step[b] \in {"end", "reuse"}

LEMMA Builds ==
    ASSUME FullInvariant, FullInvariant', RoundsInvariant, Aside, NEW o \in Owners, NEW b \in Blocks,
           NEW kind, NEW r, NEW rev, NEW next, Building(o, b, kind, r, rev, next)
    PROVE  RoundsInvariant'
<1>0. /\ Live(o) /\ rounds[o].step[b] \in {"none", "res", "put"}
      /\ kind \in Builders /\ r = Req(kind, o, rounds[o].wire, b) /\ rev = rounds[o].rev
      /\ UNCHANGED <<reconcile, authority, ready>>
      /\ job' = Append(job, NewJob(r, rev)) /\ pending' = Append(pending, Len(job) + 1)
      /\ rounds' = [rounds EXCEPT ![o] = next]
      /\ next.phase = rounds[o].phase /\ next.wire = rounds[o].wire /\ next.rev = rounds[o].rev
      /\ next.promote = rounds[o].promote /\ next.abort = rounds[o].abort
      /\ \A c \in Blocks : c # b => next.step[c] = rounds[o].step[c]
      /\ next.step[b] # "durable"
      /\ kind \in Deliverers => next.step[b] \in {"end", "reuse"}
  BY DEF Building
<1>1. /\ Born(o) /\ rounds[o].rev = authority /\ rounds[o].wire \in DOMAIN Announced /\ rounds[o].phase = "live"
  BY <1>0, LiveFacts
<1>2. PICK n : n = Len(job) + 1
  OBVIOUS
<1>3. r \in Asked /\ r.kind = kind /\ r.owner = o /\ r.block = b
  BY <1>0, <1>1, Asks DEF Req, Builders
<1>4. /\ MainWork /\ \A id : id \in Fresh <=> id = n
      /\ Len(job) \in Nat /\ job'[n].req = r
  BY <1>0, <1>1, <1>2, <1>3, SubmitWork DEF Relieved
<1>5. n \in Fresh /\ \A id \in Fresh : id = n
  BY <1>4
<1>6. Kind(n)' = kind /\ Owner(n)' = o /\ job'[n].req.block = b /\ job'[n].rev = authority'
  BY <1>3, <1>4, <1>5 DEF Kind, Owner, MainWork
<1>7. rounds \in [Owners -> RoundRecords]
  BY DEF FullInvariant, ReceiveInvariant, Types
<1>8. rounds'[o] = next /\ \A p \in Owners : p # o => rounds'[p] = rounds[p]
  BY <1>0, <1>7
<1>9. Ages(o)
  BY <1>0, <1>1, <1>8 DEF Ages
<1>10. Proper(n)
  <2>1. Pointed(n)'
    <3>1. job'[n].rev = rounds'[o].rev /\ kind # "PROMOTE" /\ kind # "ABORT"
      BY <1>0, <1>1, <1>6, <1>8 DEF Builders
    <3>2. kind \in Deliverers => rounds'[o].step[b] \in {"end", "reuse"}
      BY <1>0, <1>8
    <3> QED BY <1>6, <3>1, <3>2 DEF Pointed, Deliverers
  <2>2. ASSUME NEW k \in 1 .. Len(job), Owner(k) = Owner(n)'
        PROVE  Kind(k) \notin Closers /\ (Kind(k) \in Deliverers => job[k].req.block # job'[n].req.block)
    <3>1. Owner(k) = o
      BY <1>6, <2>2
    <3> QED BY <1>0, <1>6, <3>1, NothingYet
  <2> QED BY <2>1, <2>2 DEF Proper, Closers
<1>11. Submitting
  BY <1>5, <1>10 DEF Submitting
<1>12. \A id \in Fresh : Owner(id)' = o
  BY <1>5, <1>6
<1> QED BY <1>0, <1>4, <1>8, <1>9, <1>11, <1>12, Furthers

LEMMA InfRounds ==
    ASSUME FullInvariant, FullInvariant', RoundsInvariant, NEW o \in Owners, NEW b \in Blocks, Inf(o, b)
    PROVE  RoundsInvariant'
<1>1. Live(o) /\ rounds[o].step[b] = "none" /\ UNCHANGED <<pc, writer, flags, completed, authority, ready, view>>
  BY DEF Inf
<1>2. Born(o) /\ rounds[o].phase = "live" /\ ~ready
  BY <1>1, LiveFacts
<1>3. Aside
  BY <1>1 DEF Aside, FullInvariant, ReceiveInvariant, Types
<1>4. rounds \in [Owners -> RoundRecords] /\ rounds[o] \in RoundRecords
  BY DEF FullInvariant, ReceiveInvariant, Types
<1>5. ASSUME NEW s, s \in {"res", "reuse"}, NEW next, next = [rounds[o] EXCEPT !.step[b] = s]
      PROVE  /\ next.phase = rounds[o].phase /\ next.wire = rounds[o].wire /\ next.rev = rounds[o].rev
             /\ next.promote = rounds[o].promote /\ next.abort = rounds[o].abort
             /\ next.step[b] = s /\ \A c \in Blocks : c # b => next.step[c] = rounds[o].step[c]
  BY <1>4, <1>5 DEF RoundRecords
<1>6. CASE ~Equal(rounds[o].wire, b)
  <2>1. rounds' = [rounds EXCEPT ![o].step[b] = "res"] /\ UNCHANGED <<job, pending, reconcile>>
    BY <1>6 DEF Inf
  <2>2. PICK next : next = [rounds[o] EXCEPT !.step[b] = "res"]
    OBVIOUS
  <2>3. rounds'[o] = next /\ \A p \in Owners : p # o => rounds'[p] = rounds[p]
    BY <1>4, <2>1, <2>2
  <2>4. MainWork /\ Fresh = {}
    BY <1>3, <2>1, RelievedWork DEF Relieved
  <2>5. /\ next.phase = rounds[o].phase /\ next.wire = rounds[o].wire /\ next.rev = rounds[o].rev
        /\ next.promote = rounds[o].promote /\ next.abort = rounds[o].abort
        /\ next.step[b] = "res" /\ \A c \in Blocks : c # b => next.step[c] = rounds[o].step[c]
    BY <1>5, <2>2
  <2>6. Ages(o)
    BY <1>1, <1>2, <2>3, <2>5 DEF Ages
  <2> QED BY <1>1, <2>1, <2>3, <2>4, <2>5, <2>6, NoneFresh, Furthers
<1>7. CASE Equal(rounds[o].wire, b) /\ Submittable(rounds[o].rev)
  <2>1. /\ Submit(Req("REUSE", o, rounds[o].wire, b), rounds[o].rev)
        /\ rounds' = [rounds EXCEPT ![o].step[b] = "reuse"] /\ UNCHANGED reconcile
    BY <1>7 DEF Inf
  <2>2. PICK next : next = [rounds[o] EXCEPT !.step[b] = "reuse"]
    OBVIOUS
  <2>3. rounds' = [rounds EXCEPT ![o] = next]
    BY <2>1, <2>2
  <2>4. /\ next.phase = rounds[o].phase /\ next.wire = rounds[o].wire /\ next.rev = rounds[o].rev
        /\ next.promote = rounds[o].promote /\ next.abort = rounds[o].abort
        /\ next.step[b] = "reuse" /\ \A c \in Blocks : c # b => next.step[c] = rounds[o].step[c]
    BY <1>5, <2>2
  <2>5. /\ job' = Append(job, NewJob(Req("REUSE", o, rounds[o].wire, b), rounds[o].rev))
        /\ pending' = Append(pending, Len(job) + 1)
    BY <2>1 DEF Submit
  <2>6. PICK kind, r, rev : kind \in Builders /\ kind = "REUSE" /\ r = Req(kind, o, rounds[o].wire, b) /\ rev = rounds[o].rev
    BY DEF Builders
  <2>7. job' = Append(job, NewJob(r, rev)) /\ (kind \in Deliverers => next.step[b] \in {"end", "reuse"})
        /\ next.step[b] # "durable" /\ rounds[o].step[b] \in {"none", "res", "put"}
        /\ UNCHANGED <<reconcile, authority, ready>> /\ Live(o)
    BY <1>1, <2>1, <2>4, <2>5, <2>6
  <2>8. Building(o, b, kind, r, rev, next)
    BY <2>3, <2>4, <2>5, <2>6, <2>7 DEF Building
  <2> QED BY <1>3, <2>8, Builds
<1>8. CASE Equal(rounds[o].wire, b) /\ ~Submittable(rounds[o].rev)
  <2>1. GiveUp /\ UNCHANGED pending
    BY <1>8 DEF Inf
  <2> QED BY <1>1, <1>2, <1>3, <2>1, GivesUp
<1> QED BY <1>6, <1>7, <1>8

LEMMA FrameRounds ==
    ASSUME FullInvariant, FullInvariant', RoundsInvariant, NEW o \in Owners, NEW b \in Blocks,
           BeginBlock(o, b) \/ PutRow(o, b) \/ EndBlock(o, b)
    PROVE  RoundsInvariant'
<1>1. rounds[o] \in RoundRecords
  BY DEF FullInvariant, ReceiveInvariant, Types
<1>2. PICK kind, from, next :
         /\ kind \in Builders /\ Frame(o, b, Req(kind, o, rounds[o].wire, b), from, next) /\ from \in {"res", "put"}
         /\ next.phase = rounds[o].phase /\ next.wire = rounds[o].wire /\ next.rev = rounds[o].rev
         /\ next.promote = rounds[o].promote /\ next.abort = rounds[o].abort
         /\ \A c \in Blocks : c # b => next.step[c] = rounds[o].step[c]
         /\ next.step[b] # "durable" /\ (kind \in Deliverers => next.step[b] \in {"end", "reuse"})
  <2>1. CASE BeginBlock(o, b)
    <3>1. PICK next : next = [rounds[o] EXCEPT !.step[b] = "put"]
      OBVIOUS
    <3>2. Frame(o, b, Req("BEGIN", o, rounds[o].wire, b), "res", next)
      BY <2>1, <3>1 DEF BeginBlock
    <3>3. /\ next.phase = rounds[o].phase /\ next.wire = rounds[o].wire /\ next.rev = rounds[o].rev
          /\ next.promote = rounds[o].promote /\ next.abort = rounds[o].abort
          /\ \A c \in Blocks : c # b => next.step[c] = rounds[o].step[c]
          /\ next.step[b] = "put"
      BY <1>1, <3>1 DEF RoundRecords
    <3> QED BY <3>2, <3>3 DEF Builders, Deliverers
  <2>2. CASE PutRow(o, b)
    <3>1. PICK next : next = [rounds[o] EXCEPT !.puts[b] = @ + 1]
      OBVIOUS
    <3>2. Frame(o, b, Req("PUT", o, rounds[o].wire, b), "put", next)
      BY <2>2, <3>1 DEF PutRow
    <3>3. /\ next.phase = rounds[o].phase /\ next.wire = rounds[o].wire /\ next.rev = rounds[o].rev
          /\ next.promote = rounds[o].promote /\ next.abort = rounds[o].abort
          /\ next.step = rounds[o].step
      BY <1>1, <3>1 DEF RoundRecords
    <3>4. rounds[o].step[b] = "put"
      BY <3>2 DEF Frame
    <3> QED BY <3>2, <3>3, <3>4 DEF Builders, Deliverers
  <2>3. CASE EndBlock(o, b)
    <3>1. PICK next : next = [rounds[o] EXCEPT !.step[b] = "end"]
      OBVIOUS
    <3>2. Frame(o, b, Req("END", o, rounds[o].wire, b), "put", next)
      BY <2>3, <3>1 DEF EndBlock
    <3>3. /\ next.phase = rounds[o].phase /\ next.wire = rounds[o].wire /\ next.rev = rounds[o].rev
          /\ next.promote = rounds[o].promote /\ next.abort = rounds[o].abort
          /\ \A c \in Blocks : c # b => next.step[c] = rounds[o].step[c]
          /\ next.step[b] = "end"
      BY <1>1, <3>1 DEF RoundRecords
    <3> QED BY <3>2, <3>3 DEF Builders, Deliverers
  <2> QED BY <2>1, <2>2, <2>3
<1>3. /\ Live(o) /\ rounds[o].step[b] = from
      /\ job' = Append(job, NewJob(Req(kind, o, rounds[o].wire, b), rounds[o].rev))
      /\ pending' = Append(pending, Len(job) + 1)
      /\ rounds' = [rounds EXCEPT ![o] = next]
      /\ UNCHANGED <<pc, writer, flags, completed, authority, reconcile, ready>>
  BY <1>2 DEF Frame, Submit
<1>4. Aside
  BY <1>3 DEF Aside, FullInvariant, ReceiveInvariant, Types
<1>5. rounds[o].step[b] \in {"none", "res", "put"}
  BY <1>2, <1>3
<1>6. PICK r, rev : r = Req(kind, o, rounds[o].wire, b) /\ rev = rounds[o].rev
  OBVIOUS
<1>7. job' = Append(job, NewJob(r, rev)) /\ pending' = Append(pending, Len(job) + 1)
      /\ rounds' = [rounds EXCEPT ![o] = next] /\ Live(o) /\ UNCHANGED <<reconcile, authority, ready>>
  BY <1>3, <1>6
<1>8. Building(o, b, kind, r, rev, next)
  BY <1>2, <1>5, <1>6, <1>7 DEF Building
<1> QED BY <1>4, <1>8, Builds

\* A block is acknowledged: its job was the one that was reported.
LEMMA Acknowledges ==
    ASSUME FullInvariant, RoundsInvariant, NEW id, NEW o, Receipt(id, o), Live(o), Kind(id) \in Deliverers,
           job[id].result = "OK"
    PROVE  /\ job[id].req.block \in Blocks /\ rounds[o].promote = NoJob /\ Reports(o, job[id].req.block)
           /\ \A k \in 1 .. Len(job) : Owner(k) = o => Kind(k) # "ABORT"
<1>1. /\ id \in 1 .. Len(job) /\ id > Told /\ id = Told + 1 /\ o = Owner(id) /\ o \in Owners
      /\ completed # <<>> /\ completed' = Tail(completed)
  BY ReceiptFacts
<1>2. Course /\ ReceiveInvariant
  BY DEF RoundsInvariant, FullInvariant
<1>3. PICK b : b = job[id].req.block
  OBVIOUS
<1>4. b \in Blocks
  BY <1>1, <1>2, <1>3, Speech DEF Deliverers, Builders
<1>5. rounds[o].step[b] \in {"end", "reuse"}
  BY <1>1, <1>2, <1>3 DEF Course, Pointed
<1>6. rounds[o].promote = NoJob
  BY <1>1, <1>2, <1>4, <1>5 DEF Course
<1>7. Reports(o, b)
  BY <1>1, <1>3 DEF Reports
<1>8. rounds[o].phase = "live"
  BY <1>1, LiveFacts
<1>9. \A k \in 1 .. Len(job) : Owner(k) = o => Kind(k) # "ABORT"
  BY <1>2, <1>8 DEF Course, Pointed
<1> QED BY <1>3, <1>4, <1>6, <1>7, <1>9

LEMMA BlockRounds ==
    ASSUME FullInvariant, FullInvariant', RoundsInvariant, NEW id, NEW o, BlockReceipt(id, o)
    PROVE  RoundsInvariant'
<1>1. Receipt(id, o) /\ Live(o) /\ Kind(id) \in Deliverers /\ job[id].result = "OK"
  BY DEF BlockReceipt, Kind, Deliverers, Durably
<1>2. PICK b : b = job[id].req.block
  OBVIOUS
<1>3. /\ b \in Blocks /\ rounds[o].promote = NoJob /\ Reports(o, b)
      /\ \A k \in 1 .. Len(job) : Owner(k) = o => Kind(k) # "ABORT"
  BY <1>1, <1>2, Acknowledges
<1>4. /\ Aside /\ UNCHANGED authority /\ o \in Owners /\ Born(o) /\ Len(job) \in Nat
  BY <1>1, ReceiptFacts
<1>5. ~ready /\ rounds[o].phase = "live" /\ rounds[o].rev = authority /\ rounds[o].wire \in DOMAIN Announced
  BY <1>1, <1>4, LiveFacts
<1>6. rounds \in [Owners -> RoundRecords] /\ rounds[o] \in RoundRecords
  BY <1>4 DEF FullInvariant, ReceiveInvariant, Types
<1>7. PICK acked : acked = [rounds EXCEPT ![o].step[b] = "durable"]
  OBVIOUS
<1>8. PICK x : x = [rounds[o] EXCEPT !.step[b] = "durable"]
  OBVIOUS
<1>9. /\ x.phase = rounds[o].phase /\ x.wire = rounds[o].wire /\ x.rev = rounds[o].rev
      /\ x.promote = rounds[o].promote /\ x.abort = rounds[o].abort
      /\ x.step[b] = "durable" /\ \A c \in Blocks : c # b => x.step[c] = rounds[o].step[c]
  BY <1>3, <1>6, <1>8 DEF RoundRecords
<1>10. acked[o] = x /\ (\A p \in Owners : p # o => acked[p] = rounds[p]) /\ acked = [rounds EXCEPT ![o] = x]
  BY <1>4, <1>6, <1>7, <1>8
<1>11. \/ rounds' = acked /\ UNCHANGED <<job, pending, reconcile, ready>>
       \/ /\ \A c \in Blocks : acked[o].step[c] = "durable"
          /\ rounds' = [acked EXCEPT ![o].promote = Len(job) + 1]
          /\ job' = Append(job, NewJob(Req("PROMOTE", o, rounds[o].wire, SomeBlock), rounds[o].rev))
          /\ pending' = Append(pending, Len(job) + 1)
          /\ UNCHANGED <<ready, reconcile>>
       \/ GiveUp /\ UNCHANGED <<pending, ready>>
  BY <1>2, <1>7 DEF BlockReceipt, PromotionAdmitted
<1>12. CASE rounds' = acked /\ UNCHANGED <<job, pending, reconcile, ready>>
  <2>1. MainWork /\ Fresh = {}
    BY <1>4, <1>12, RelievedWork DEF Relieved
  <2>2. rounds'[o] = x /\ \A p \in Owners : p # o => rounds'[p] = rounds[p]
    BY <1>10, <1>12
  <2>3. Ages(o)
    BY <1>3, <1>4, <1>5, <1>9, <2>2 DEF Ages
  <2>4. UNCHANGED <<reconcile, authority, ready>>
    BY <1>4, <1>12
  <2>5. rounds'[o].phase = rounds[o].phase /\ rounds'[o].wire = rounds[o].wire /\ rounds'[o].rev = rounds[o].rev
    BY <1>9, <2>2
  <2> QED BY <1>1, <1>4, <2>1, <2>2, <2>3, <2>4, <2>5, NoneFresh, Furthers
<1>13. CASE /\ \A c \in Blocks : acked[o].step[c] = "durable"
            /\ rounds' = [acked EXCEPT ![o].promote = Len(job) + 1]
            /\ job' = Append(job, NewJob(Req("PROMOTE", o, rounds[o].wire, SomeBlock), rounds[o].rev))
            /\ pending' = Append(pending, Len(job) + 1)
            /\ UNCHANGED <<ready, reconcile>>
  <2>1. PICK n : n = Len(job) + 1
    OBVIOUS
  <2>2. PICK r, rev : r = Req("PROMOTE", o, rounds[o].wire, SomeBlock) /\ rev = rounds[o].rev
    OBVIOUS
  <2>3. r \in Asked /\ r.kind = "PROMOTE" /\ r.owner = o
    BY <1>4, <1>5, <2>2, Asks DEF Req
  <2>4. job' = Append(job, NewJob(r, rev)) /\ pending' = Append(pending, Len(job) + 1) /\ rev = authority'
    BY <1>4, <1>5, <1>13, <2>2
  <2>5. MainWork /\ (\A id0 : id0 \in Fresh <=> id0 = n) /\ job'[n].req = r
    BY <1>4, <2>1, <2>3, <2>4, SubmitWork DEF Relieved
  <2>6. n \in Fresh /\ \A id0 \in Fresh : id0 = n
    BY <2>5
  <2>7. Kind(n)' = "PROMOTE" /\ Owner(n)' = o /\ job'[n].rev = authority'
    BY <2>3, <2>5, <2>6 DEF Kind, Owner, MainWork
  <2>8. PICK y : y = [x EXCEPT !.promote = n]
    OBVIOUS
  <2>9. y.phase = x.phase /\ y.wire = x.wire /\ y.rev = x.rev /\ y.step = x.step /\ y.abort = x.abort /\ y.promote = n
    BY <1>6, <1>8, <2>8 DEF RoundRecords
  <2>10. rounds'[o] = y /\ \A p \in Owners : p # o => rounds'[p] = rounds[p]
    BY <1>4, <1>6, <1>10, <1>13, <2>1, <2>8
  <2>11. \A c \in Blocks : y.step[c] = "durable"
    BY <1>10, <1>13, <2>9
  <2>12. Ages(o)
    BY <1>3, <1>4, <1>5, <1>9, <2>9, <2>10, <2>11 DEF Ages
  <2>13. Proper(n)
    <3>1. Pointed(n)'
      <4>1. rounds'[o].promote = n /\ rounds'[o].rev = authority'
        BY <1>4, <1>5, <1>9, <2>9, <2>10
      <4> QED BY <2>7, <4>1 DEF Pointed, Deliverers
    <3> QED BY <1>3, <2>7, <3>1 DEF Proper, Builders, Deliverers
  <2>14. Submitting
    BY <2>6, <2>13 DEF Submitting
  <2>15. \A id0 \in Fresh : Owner(id0)' = o
    BY <2>6, <2>7
  <2>16. rounds'[o].phase = rounds[o].phase /\ rounds'[o].wire = rounds[o].wire /\ rounds'[o].rev = rounds[o].rev
    BY <1>9, <2>9, <2>10
  <2>17. UNCHANGED <<reconcile, authority, ready>>
    BY <1>4, <1>13
  <2> QED BY <1>1, <1>4, <2>5, <2>10, <2>12, <2>14, <2>15, <2>16, <2>17, Furthers
<1>14. CASE GiveUp /\ UNCHANGED <<pending, ready>>
  BY <1>4, <1>5, <1>14, GivesUp
<1> QED BY <1>11, <1>12, <1>13, <1>14

-----------------------------------------------------------------------------
(* The first INF of a round.                                                  *)

\* The round o that opens, for round w of the wire.
Opening(o, w, b) ==
    LET x == rounds'[o]
    IN  /\ x.wire = w /\ x.rev = authority' /\ x.promote = NoJob /\ x.abort = NoJob
        /\ \A c \in Blocks : x.step[c] # "durable"
        /\ Equal(w, b) => x.step[b] = "reuse"

\* It is taken up ...
TakesUp(o, w, b) ==
    /\ rounds'[o].phase = "live" /\ reconcile' = w /\ ~failed /\ ~stopping
    /\ \A p \in Owners : p # o => rounds'[p] = IF w # reconcile THEN Abandoned[p] ELSE rounds[p]
    /\ \E js : /\ js = job \/ js = Cancelled(ActiveJobs)
               /\ \/ job' = js /\ UNCHANGED pending
                  \/ /\ Equal(w, b) /\ job' = Append(js, NewJob(Req("REUSE", o, w, b), authority'))
                     /\ pending' = Append(pending, Len(job) + 1)

\* ... or turned away, and the active round with it.
TurnsAway(o) ==
    /\ rounds'[o].phase \in {"abandoned", "gone"} /\ reconcile' = 0
    /\ \A p \in Owners : p # o => rounds'[p] = Abandoned[p]
    /\ job' = Cancelled(ActiveJobs) /\ UNCHANGED pending

LEMMA FirstInfShape ==
    ASSUME FullInvariant, RoundsInvariant, NEW o \in Owners, NEW b \in Blocks, NEW w \in DOMAIN Announced, FirstInf(o, w, b)
    PROVE  /\ Aside /\ ~Born(o) /\ ~ready' /\ authority \in Nat
           /\ \A p \in Owners : ~Live(p) \/ rounds[p].wire # w
           /\ authority' = IF w # reconcile THEN authority + 1 ELSE authority
           /\ Opening(o, w, b)
           /\ TakesUp(o, w, b) \/ TurnsAway(o)
<1>1. authority \in Nat /\ rounds \in [Owners -> RoundRecords]
  BY DEF FullInvariant, ReceiveInvariant, Types
<1>2. /\ ~Born(o) /\ \A p \in Owners : ~Live(p) \/ rounds[p].wire # w
      /\ authority' = (IF w # reconcile THEN authority + 1 ELSE authority)
      /\ UNCHANGED <<pc, writer, flags, completed>>
  BY DEF FirstInf, Born
<1>3. Aside
  BY <1>1, <1>2 DEF Aside
<1>4. ~ready'
  <2>1. ready' = (ready /\ ~(w # reconcile))
    BY DEF FirstInf, StillReady
  <2>2. w # 0
    BY ReceiveAssumption
  <2>3. ready => reconcile = 0
    BY DEF RoundsInvariant, Bell
  <2> QED BY <2>1, <2>2, <2>3
<1>5. PICK s, rev : s = (IF Equal(w, b) THEN "reuse" ELSE "res") /\ rev = authority'
  OBVIOUS
<1>6. PICK born : born = [Unborn EXCEPT !.phase = "live", !.wire = w, !.rev = rev, !.step[b] = s]
  OBVIOUS
<1>7. /\ born.phase = "live" /\ born.wire = w /\ born.rev = rev /\ born.promote = NoJob /\ born.abort = NoJob
      /\ born.step = [[c \in Blocks |-> "none"] EXCEPT ![b] = s]
      /\ \A phase : /\ [born EXCEPT !.phase = phase].phase = phase
                    /\ [born EXCEPT !.phase = phase].wire = w /\ [born EXCEPT !.phase = phase].rev = rev
                    /\ [born EXCEPT !.phase = phase].promote = NoJob /\ [born EXCEPT !.phase = phase].abort = NoJob
                    /\ [born EXCEPT !.phase = phase].step = born.step
  BY <1>6 DEF Unborn
<1>8. /\ \A c \in Blocks : born.step[c] # "durable"
      /\ Equal(w, b) => born.step[b] = "reuse"
  BY <1>5, <1>7
<1>9. \/ /\ ~failed /\ ~stopping
         /\ rounds' = [(IF w # reconcile THEN Abandoned ELSE rounds) EXCEPT ![o] = born] /\ reconcile' = w
         /\ \E js : /\ js = job \/ js = Cancelled(ActiveJobs)
                    /\ \/ job' = js /\ UNCHANGED pending
                       \/ /\ Equal(w, b) /\ job' = Append(js, NewJob(Req("REUSE", o, w, b), authority'))
                          /\ pending' = Append(pending, Len(job) + 1)
      \/ /\ \E phase \in {"abandoned", "gone"} :
               rounds' = [p \in Owners |-> IF p = o THEN [born EXCEPT !.phase = phase] ELSE Abandoned[p]]
         /\ reconcile' = 0 /\ job' = Cancelled(ActiveJobs) /\ UNCHANGED pending
  BY <1>2, <1>5, <1>6 DEF FirstInf
<1>10. CASE /\ ~failed /\ ~stopping
            /\ rounds' = [(IF w # reconcile THEN Abandoned ELSE rounds) EXCEPT ![o] = born] /\ reconcile' = w
            /\ \E js : /\ js = job \/ js = Cancelled(ActiveJobs)
                       /\ \/ job' = js /\ UNCHANGED pending
                          \/ /\ Equal(w, b) /\ job' = Append(js, NewJob(Req("REUSE", o, w, b), authority'))
                             /\ pending' = Append(pending, Len(job) + 1)
  <2>1. PICK rs : rs = (IF w # reconcile THEN Abandoned ELSE rounds) /\ rounds' = [rs EXCEPT ![o] = born]
    BY <1>10
  <2>2. DOMAIN rs = Owners
    BY <1>1, <2>1 DEF Abandoned
  <2>3. rounds'[o] = born /\ \A p \in Owners : p # o => rounds'[p] = rs[p]
    BY <2>1, <2>2
  <2>4. \A p \in Owners : p # o => rounds'[p] = IF w # reconcile THEN Abandoned[p] ELSE rounds[p]
    BY <2>1, <2>3
  <2>5. Opening(o, w, b)
    BY <1>5, <1>7, <1>8, <2>3 DEF Opening
  <2>6. TakesUp(o, w, b)
    BY <1>7, <1>10, <2>3, <2>4 DEF TakesUp
  <2> QED BY <1>1, <1>2, <1>3, <1>4, <2>5, <2>6
<1>11. CASE /\ \E phase \in {"abandoned", "gone"} :
                  rounds' = [p \in Owners |-> IF p = o THEN [born EXCEPT !.phase = phase] ELSE Abandoned[p]]
            /\ reconcile' = 0 /\ job' = Cancelled(ActiveJobs) /\ UNCHANGED pending
  <2>1. PICK phase \in {"abandoned", "gone"} :
            rounds' = [p \in Owners |-> IF p = o THEN [born EXCEPT !.phase = phase] ELSE Abandoned[p]]
    BY <1>11
  <2>2. PICK x : x = [born EXCEPT !.phase = phase]
    OBVIOUS
  <2>3. rounds'[o] = x /\ \A p \in Owners : p # o => rounds'[p] = Abandoned[p]
    BY <2>1, <2>2
  <2>4. x.phase = phase /\ x.wire = w /\ x.rev = rev /\ x.promote = NoJob /\ x.abort = NoJob /\ x.step = born.step
    BY <1>7, <2>2
  <2>5. Opening(o, w, b)
    BY <1>5, <1>8, <2>3, <2>4 DEF Opening
  <2>6. TurnsAway(o)
    BY <1>11, <2>3, <2>4 DEF TurnsAway
  <2> QED BY <1>1, <1>2, <1>3, <1>4, <2>5, <2>6
<1> QED BY <1>9, <1>10, <1>11

LEMMA NotYetAsked ==
    ASSUME FullInvariant, NEW o \in Owners, ~Born(o)
    PROVE  /\ own[o] = NoStage /\ \A k \in 1 .. Len(job) : Owner(k) # o
<1>1. ReceiveInvariant
  BY DEF FullInvariant
<1>2. own[o] = NoStage
  BY <1>1 DEF ReceiveInvariant, Words, Instructed, ControllerOf
<1>3. \A k \in 1 .. Len(job) : Owner(k) # o
  BY <1>1, Speech
<1> QED BY <1>2, <1>3

LEMMA AwayRounds ==
    ASSUME FullInvariant, FullInvariant', RoundsInvariant, NEW o \in Owners, NEW b \in Blocks, NEW w \in DOMAIN Announced,
           FirstInf(o, w, b), TurnsAway(o)
    PROVE  RoundsInvariant'
<1>1. Aside /\ ~Born(o) /\ ~ready' /\ Opening(o, w, b)
  BY FirstInfShape
<1>2. /\ reconcile' = 0 /\ job' = Cancelled(ActiveJobs) /\ UNCHANGED pending
      /\ \A p \in Owners : p # o => rounds'[p] = Abandoned[p]
  BY DEF TurnsAway
<1>3. Withdraws /\ Relieved(job')
  BY <1>2, AbandonsWork
<1>4. MainWork /\ Fresh = {}
  BY <1>1, <1>2, <1>3, RelievedWork
<1>5. Ages(o)
  BY <1>1 DEF Ages, Opening
<1>6. \A p \in Owners : p # o => Ages(p) /\ (rounds'[p].phase = "gone" => rounds[p].phase = "gone")
  BY <1>2, AbandonedAges
<1>7. Acting /\ Submitting
  BY <1>4, <1>5, <1>6, NoneFresh DEF Acting
<1>8. Ended(o)
  <2>1. Handed \in Nat /\ Len(job) \in Nat
    BY <1>7, ActingNumbers
  <2>2. \A k \in Handed + 1 .. Len(job) : k \in 1 .. Len(job)
    BY <2>1
  <2> QED BY <1>1, <2>2, NotYetAsked DEF Ended
<1>9. Ending
  BY <1>4, <1>6, <1>8 DEF Ending
<1>10. Bell'
  BY <1>1 DEF Bell
<1> QED BY <1>3, <1>7, <1>9, <1>10, MainRounds

\* No round and no job speaks for the authority that round w of the wire opens under.
LEMMA NewVoice ==
    ASSUME FullInvariant, RoundsInvariant, NEW o \in Owners, NEW b \in Blocks, NEW w \in DOMAIN Announced,
           FirstInf(o, w, b), TakesUp(o, w, b), MainWork
    PROVE  /\ \A id \in 1 .. Len(job) : ~Current(id)'
           /\ \A p \in Owners : p # o => ~Speaking(p)'
<1>1. /\ \A p \in Owners : ~Live(p) \/ rounds[p].wire # w
      /\ authority' = (IF w # reconcile THEN authority + 1 ELSE authority)
  BY FirstInfShape
<1>2. /\ reconcile' = w /\ ~failed /\ ~stopping
      /\ \A p \in Owners : p # o => rounds'[p] = IF w # reconcile THEN Abandoned[p] ELSE rounds[p]
  BY DEF TakesUp
<1>3. \A id \in 1 .. Len(job) : job'[id].rev = job[id].rev /\ Kind(id)' = Kind(id)
  BY DEF MainWork, Carried, Kind
<1>4. rounds \in [Owners -> RoundRecords] /\ ReceiveInvariant
  BY DEF FullInvariant, ReceiveInvariant, Types
<1>5. CASE w # reconcile
  <2>1. authority' = authority + 1
    BY <1>1, <1>5
  <2>2. ASSUME NEW p \in Owners, p # o PROVE rounds'[p].rev = rounds[p].rev
    <3>1. rounds'[p] = [rounds[p] EXCEPT !.phase = "abandoned"] \/ rounds'[p] = rounds[p]
      BY <1>2, <1>5, <2>2 DEF Abandoned
    <3>2. rounds[p] \in RoundRecords
      BY <1>4
    <3> QED BY <3>1, <3>2 DEF RoundRecords
  <2> QED BY <1>3, <2>1, <2>2, Revokes
<1>6. CASE w = reconcile
  <2>1. authority' = authority /\ reconcile' = reconcile
    BY <1>1, <1>2, <1>6
  <2>2. \A p \in Owners : ~Speaking(p)
    BY <1>1, <1>2, <1>6 DEF Speaking, Live
  <2>3. \A p \in Owners : p # o => ~Speaking(p)'
    BY <1>2, <1>6, <2>1, <2>2 DEF Speaking
  <2>4. reconcile # 0 /\ Revisions
    BY <1>6, ReceiveAssumption DEF RoundsInvariant
  <2>5. ASSUME NEW id \in 1 .. Len(job), Current(id)' PROVE FALSE
    <3>1. Current(id)
      BY <1>3, <2>1, <2>5 DEF Current
    <3>2. Owner(id) \in Owners
      BY <1>4, Speech
    <3> QED BY <2>2, <2>4, <3>1, <3>2 DEF Revisions
  <2> QED BY <2>3, <2>5
<1> QED BY <1>5, <1>6

LEMMA TakenUpRounds ==
    ASSUME FullInvariant, FullInvariant', RoundsInvariant, NEW o \in Owners, NEW b \in Blocks, NEW w \in DOMAIN Announced,
           FirstInf(o, w, b), TakesUp(o, w, b)
    PROVE  RoundsInvariant'
<1>1. Aside /\ ~Born(o) /\ ~ready' /\ Opening(o, w, b)
  BY FirstInfShape
<1>2. /\ rounds'[o].phase = "live" /\ reconcile' = w
      /\ \A p \in Owners : p # o => rounds'[p] = Abandoned[p] \/ rounds'[p] = rounds[p]
  BY DEF TakesUp
<1>3. PICK js : /\ js = job \/ js = Cancelled(ActiveJobs)
                /\ \/ job' = js /\ UNCHANGED pending
                   \/ /\ Equal(w, b) /\ job' = Append(js, NewJob(Req("REUSE", o, w, b), authority'))
                      /\ pending' = Append(pending, Len(job) + 1)
  BY DEF TakesUp
<1>4. Relieved(js)
  BY <1>3 DEF Relieved
<1>5. Ages(o) /\ Speaking(o)'
  BY <1>1, <1>2 DEF Ages, Opening, Speaking
<1>6. \A p \in Owners : p # o => Ages(p) /\ (rounds'[p].phase = "gone" => rounds[p].phase = "gone")
  BY <1>2, AbandonedAges, AgesSame
<1>7. ASSUME MainWork, Submitting, \A id \in Fresh : Owner(id)' = o PROVE RoundsInvariant'
  <2>1. Acting
    BY <1>5, <1>6, <1>7 DEF Acting
  <2>2. Renews
    <3>1. (\A id \in 1 .. Len(job) : ~Current(id)') /\ \A p \in Owners : p # o => ~Speaking(p)'
      BY <1>7, NewVoice
    <3>2. ASSUME NEW id \in Fresh PROVE Speaking(Owner(id))'
      BY <1>5, <1>7, <3>2 DEF Speaking
    <3> QED BY <3>1, <3>2 DEF Renews
  <2>3. Ending
    BY <1>2, <1>6, <1>7 DEF Ending
  <2>4. Bell'
    BY <1>1 DEF Bell
  <2> QED BY <1>7, <2>1, <2>2, <2>3, <2>4, MainRounds
<1>8. CASE job' = js /\ UNCHANGED pending
  <2>1. Relieved(job')
    BY <1>4, <1>8
  <2>2. MainWork /\ Fresh = {}
    BY <1>1, <1>8, <2>1, RelievedWork
  <2> QED BY <1>7, <2>2, NoneFresh
<1>9. CASE /\ Equal(w, b) /\ job' = Append(js, NewJob(Req("REUSE", o, w, b), authority'))
           /\ pending' = Append(pending, Len(job) + 1)
  <2>1. PICK r, rev : r = Req("REUSE", o, w, b) /\ rev = authority'
    OBVIOUS
  <2>2. r \in Asked /\ r.kind = "REUSE" /\ r.owner = o /\ r.block = b
    BY <2>1, Asks DEF Req
  <2>3. job' = Append(js, NewJob(r, rev)) /\ pending' = Append(pending, Len(job) + 1)
    BY <1>9, <2>1
  <2>4. MainWork /\ (\A id : id \in Fresh <=> id = Len(job) + 1) /\ job'[Len(job) + 1].req = r
    BY <1>1, <1>4, <2>1, <2>2, <2>3, SubmitWork
  <2>5. PICK n : n = Len(job) + 1
    OBVIOUS
  <2>6. n \in Fresh /\ (\A id \in Fresh : id = n) /\ job'[n].req = r
    BY <2>4, <2>5
  <2>7. Kind(n)' = "REUSE" /\ Owner(n)' = o /\ job'[n].req.block = b /\ job'[n].rev = authority'
    BY <2>2, <2>4, <2>6 DEF Kind, Owner, MainWork
  <2>8. Pointed(n)'
    <3>1. rounds'[o].rev = authority' /\ rounds'[o].step[b] = "reuse"
      BY <1>1, <1>9 DEF Opening
    <3> QED BY <2>7, <3>1 DEF Pointed, Deliverers
  <2>9. Proper(n)
    BY <1>1, <2>7, <2>8, NotYetAsked DEF Proper
  <2>10. Submitting
    BY <2>6, <2>9 DEF Submitting
  <2>11. \A id \in Fresh : Owner(id)' = o
    BY <2>6, <2>7
  <2> QED BY <1>7, <2>4, <2>10, <2>11
<1> QED BY <1>3, <1>8, <1>9

LEMMA FirstInfRounds ==
    ASSUME FullInvariant, FullInvariant', RoundsInvariant, NEW o \in Owners, NEW b \in Blocks, NEW w \in DOMAIN Announced,
           FirstInf(o, w, b)
    PROVE  RoundsInvariant'
BY FirstInfShape, AwayRounds, TakenUpRounds

-----------------------------------------------------------------------------
(* The end of the completion event.                                           *)

LEMMA FailedEnd ==
    ASSUME FullInvariant, FullInvariant', RoundsInvariant, TickEnd, ~Admitting
    PROVE  RoundsInvariant'
<1>1. /\ UNCHANGED <<pc, writer, flags, completed, authority, pending>>
      /\ reconcile' = 0 /\ ~ready' /\ job' = Cancelled(ActiveJobs)
      /\ rounds' = [o \in Owners |-> IF Abandoned[o].phase = "abandoned" /\ rounds[o].abort = NoJob
                                     THEN [rounds[o] EXCEPT !.phase = "gone"] ELSE rounds[o]]
  BY DEF TickEnd
<1>2. Aside
  BY <1>1 DEF Aside, FullInvariant, ReceiveInvariant, Types
<1>3. Withdraws /\ Relieved(job')
  BY <1>1, AbandonsWork
<1>4. MainWork /\ Fresh = {}
  BY <1>1, <1>2, <1>3, RelievedWork
<1>5. ASSUME NEW o \in Owners PROVE Ages(o)
  <2>1. CASE Abandoned[o].phase = "abandoned" /\ rounds[o].abort = NoJob
    <3>1. Born(o)
      BY <1>5, <2>1 DEF Abandoned, Active, Born
    <3>2. rounds'[o] = [rounds[o] EXCEPT !.phase = "gone"]
      BY <1>1, <1>5, <2>1
    <3> QED BY <3>1, <3>2, AgesPhase
  <2>2. CASE ~(Abandoned[o].phase = "abandoned" /\ rounds[o].abort = NoJob)
    <3>1. rounds'[o] = rounds[o]
      BY <1>1, <1>5, <2>2
    <3> QED BY <3>1, AgesSame
  <2> QED BY <2>1, <2>2
<1>6. Acting /\ Submitting
  BY <1>4, <1>5, NoneFresh DEF Acting
<1>7. Ending
  <2>1. failed = TRUE
    BY DEF Admitting, RoundsInvariant, Receiving
  <2> QED BY <2>1 DEF Ending
<1>8. Bell'
  BY <1>1 DEF Bell
<1> QED BY <1>3, <1>6, <1>7, <1>8, MainRounds

\* What the first n of an order ask for is added to the jobs and to the queue.
LEMMA AbortsWork ==
    ASSUME FullInvariant, Aside, UNCHANGED authority, NEW order, NEW n \in Nat, job' = job \o Aborts(order, n),
           pending' = pending \o [i \in 1 .. n |-> Len(job) + i]
    PROVE  /\ MainWork /\ Len(job) \in Nat /\ \A id \in Fresh : id > Len(job)
           /\ \A id \in Fresh : \E i \in 1 .. n : /\ id = Len(job) + i
                                                  /\ Kind(id)' = "ABORT" /\ Owner(id)' = order[i]
<1>1. job \in Seq(JobRecords) /\ pending \in Seq(Nat) /\ authority \in Nat
  BY DEF FullInvariant, ReceiveInvariant, Types
<1>2. PICK m \in Nat : m = Len(job)
  BY <1>1
<1>3. PICK js, T : js = Aborts(order, n) /\ js \in Seq(T) /\ Len(js) = n
  BY AbortsLong
<1>4. PICK ps : ps = [i \in 1 .. n |-> m + i]
  OBVIOUS
<1>5. ps \in Seq(Nat) /\ Len(ps) = n
  <2>1. ps \in [1 .. n -> Nat]
    BY <1>2, <1>4
  <2> QED BY <2>1, FunctionLen
<1>6. job' = job \o js /\ pending' = pending \o ps
  BY <1>2, <1>3, <1>4
<1>7. Len(pending') = Len(pending) + n /\ Len(pending) \in Nat
  BY <1>1, <1>5, <1>6
<1>8. /\ Len(job') = m + n
      /\ \A id \in 1 .. m : job'[id] = job[id]
      /\ \A i \in 1 .. n : job'[m + i] = js[i]
  <2>1. job \in Seq(JobRecords \cup T) /\ js \in Seq(JobRecords \cup T)
    BY <1>1, <1>3, SeqMonotonic
  <2>2. PICK U : job \in Seq(U) /\ js \in Seq(U)
    BY <2>1
  <2> QED BY <1>2, <1>3, <1>6, <2>2
<1>9. ASSUME NEW i \in 1 .. n
      PROVE  /\ js[i].req.kind = "ABORT" /\ js[i].req.owner = order[i] /\ js[i].rev = authority
             /\ js[i].result = "none" /\ js[i].committing = FALSE
  <2>1. js[i] = NewJob(Req("ABORT", order[i], rounds[order[i]].wire, SomeBlock), authority)
    BY <1>3 DEF Aborts
  <2>2. PICK r : r = Req("ABORT", order[i], rounds[order[i]].wire, SomeBlock)
    OBVIOUS
  <2>3. r.kind = "ABORT" /\ r.owner = order[i]
    BY <2>2 DEF Req
  <2>4. js[i] = NewJob(r, authority)
    BY <2>1, <2>2
  <2> QED BY <2>3, <2>4 DEF NewJob
<1>10. ASSUME NEW id \in Fresh PROVE \E i \in 1 .. n : id = m + i
  <2>1. id \in m + 1 .. m + n
    BY <1>2, <1>8 DEF Fresh
  <2>2. id - m \in 1 .. n /\ id = m + (id - m)
    BY <2>1
  <2> QED BY <2>2
<1>11. ASSUME NEW id \in Fresh
       PROVE  /\ \E i \in 1 .. n : id = m + i /\ Kind(id)' = "ABORT" /\ Owner(id)' = order[i]
              /\ job'[id].result = "none" /\ ~job'[id].committing /\ job'[id].rev = authority'
  <2>1. PICK i \in 1 .. n : id = m + i
    BY <1>10
  <2>2. job'[id] = js[i]
    BY <1>8, <2>1
  <2> QED BY <1>9, <2>1, <2>2 DEF Kind, Owner
<1>12. \A id \in 1 .. Len(job) : Carried(id)
  BY <1>2, <1>8 DEF Carried
<1>13. Taken' = Taken
  <2>1. PICK q \in Nat : q = Len(pending)
    BY <1>7
  <2>2. Taken = m - q /\ Taken' = (m + n) - (q + n)
    BY <1>2, <1>7, <1>8, <2>1 DEF Taken
  <2> QED BY <2>2
<1>14. Len(job') \in Nat /\ Len(job) <= Len(job')
  BY <1>2, <1>8
<1>15. MainWork
  <2>1. /\ UNCHANGED <<pc, group, at, candidate, outcome, durable, own, admission, failed, stopping>>
        /\ authority' \in Nat /\ authority <= authority'
        /\ completed' = completed \/ (completed # <<>> /\ completed' = Tail(completed))
    BY DEF Aside, writer, flags
  <2> QED BY <1>11, <1>12, <1>13, <1>14, <2>1 DEF MainWork
<1>16. \A id \in Fresh : id > Len(job)
  BY <1>2, <1>10
<1> QED BY <1>2, <1>11, <1>15, <1>16

\* The rounds that ask stand once in an order.
LEMMA Once ==
    ASSUME FullInvariant, NEW order \in NewestFirst(Asking), NEW i \in 1 .. Len(order), NEW k \in 1 .. Len(order),
           order[i] = order[k]
    PROVE  i = k
<1>1. order \in Seq(Owners) /\ Len(order) \in Nat
  BY Orders
<1>2. DOMAIN order = 1 .. Len(order) /\ order[i] \in Owners
  BY <1>1
<1>3. order[i] \in Nat
  BY <1>2, ReceiveAssumption
<1>4. \A x, y \in DOMAIN order : x < y => order[x] > order[y]
  BY DEF NewestFirst
<1>5. ~(i < k) /\ ~(k < i)
  BY <1>2, <1>3, <1>4
<1> QED BY <1>1, <1>5

LEMMA AskingEnd ==
    ASSUME FullInvariant, FullInvariant', RoundsInvariant, TickEnd, Admitting
    PROVE  RoundsInvariant'
<1>1. /\ UNCHANGED <<pc, writer, flags, completed, authority, reconcile, ready, view>>
  BY DEF TickEnd
<1>2. Aside
  BY <1>1 DEF Aside, FullInvariant, ReceiveInvariant, Types
<1>3. PICK order \in NewestFirst(Asking), n \in Nat :
         /\ n <= Len(order)
         /\ job' = job \o Aborts(order, n)
         /\ pending' = pending \o [i \in 1 .. n |-> Len(job) + i]
         /\ rounds' = [o \in Owners |->
                         IF o \in Asking
                         THEN [rounds[o] EXCEPT !.rev = authority,
                                                !.abort = IF o \in {order[i] : i \in 1 .. n}
                                                          THEN Len(job) + CHOOSE i \in 1 .. n : order[i] = o
                                                          ELSE NoJob]
                         ELSE rounds[o]]
  BY TickEndAsks DEF FullInvariant
<1>4. /\ MainWork /\ Len(job) \in Nat
      /\ \A id \in Fresh : \E i \in 1 .. n : /\ id = Len(job) + i
                                             /\ Kind(id)' = "ABORT" /\ Owner(id)' = order[i]
  BY <1>1, <1>2, <1>3, AbortsWork
<1>5. Len(order) \in Nat /\ (\A i \in 1 .. Len(order) : order[i] \in Asking) /\ \A i \in 1 .. n : i \in 1 .. Len(order)
  <2>1. Len(order) \in Nat /\ \A i \in 1 .. Len(order) : order[i] \in Asking
    BY Orders
  <2>2. n <= Len(order)
    BY <1>3
  <2>3. \A i \in 1 .. n : i \in 1 .. Len(order)
    BY <2>1, <2>2
  <2> QED BY <2>1, <2>3
<1>6. ASSUME NEW o \in Owners, o \in Asking
      PROVE  /\ rounds'[o].phase = "abandoned" /\ rounds'[o].wire = rounds[o].wire
             /\ rounds'[o].promote = rounds[o].promote /\ rounds'[o].step = rounds[o].step
             /\ \A i \in 1 .. n : order[i] = o => rounds'[o].abort = Len(job) + i
  <2>1. rounds[o] \in RoundRecords
    BY DEF FullInvariant, ReceiveInvariant, Types
  <2>2. PICK a : /\ rounds'[o] = [rounds[o] EXCEPT !.rev = authority, !.abort = a]
                 /\ a = IF o \in {order[i] : i \in 1 .. n} THEN Len(job) + CHOOSE i \in 1 .. n : order[i] = o ELSE NoJob
    BY <1>3, <1>6
  <2>3. /\ rounds'[o].phase = "abandoned" /\ rounds'[o].wire = rounds[o].wire
        /\ rounds'[o].promote = rounds[o].promote /\ rounds'[o].step = rounds[o].step
        /\ rounds'[o].abort = a
    BY <1>6, <2>1, <2>2 DEF RoundRecords, Asking
  <2>4. ASSUME NEW i \in 1 .. n, order[i] = o PROVE a = Len(job) + i
    <3>1. PICK k \in 1 .. n : k = (CHOOSE j \in 1 .. n : order[j] = o) /\ order[k] = o
      BY <2>4
    <3>2. k = i
      BY <1>5, <2>4, <3>1, Once
    <3> QED BY <2>2, <2>4, <3>1, <3>2
  <2> QED BY <2>3, <2>4
<1>7. \A o \in Owners : o \notin Asking => rounds'[o] = rounds[o]
  BY <1>3
<1>8. ASSUME NEW o \in Owners PROVE Ages(o) /\ rounds'[o].phase = rounds[o].phase
  <2>1. CASE o \in Asking
    <3>1. Told' \in Nat /\ rounds[o].abort = 0 /\ rounds[o].phase = "abandoned"
      <4>1. Told' = Told
        BY <1>1, <1>4 DEF Told, Handed, MainWork
      <4>2. Told \in Nat
        BY Places DEF RoundsInvariant
      <4> QED BY <2>1, <4>1, <4>2 DEF Asking, NoJob
    <3>2. rounds[o].abort <= Told'
      BY <3>1
    <3> QED BY <1>6, <2>1, <3>1, <3>2 DEF Ages, Born
  <2>2. CASE o \notin Asking
    BY <1>7, <2>2, AgesSame
  <2> QED BY <2>1, <2>2
<1>9. Acting
  BY <1>4, <1>8 DEF Acting
<1>10. Submitting
  <2>1. ASSUME NEW id \in Fresh PROVE Proper(id)
    <3>1. PICK i \in 1 .. n : id = Len(job) + i /\ Kind(id)' = "ABORT" /\ Owner(id)' = order[i]
      BY <1>4
    <3>2. PICK o : o = order[i]
      OBVIOUS
    <3>3. o \in Asking /\ o \in Owners
      BY <1>5, <3>1, <3>2 DEF Asking
    <3>4. rounds'[o].phase = "abandoned" /\ rounds'[o].abort = id
      BY <1>6, <3>1, <3>2, <3>3
    <3>5. Owner(id)' = o
      BY <3>1, <3>2
    <3>6. Pointed(id)'
      BY <3>1, <3>4, <3>5 DEF Pointed, Deliverers
    <3> QED BY <3>1, <3>6 DEF Proper, Builders, Deliverers
  <2> QED BY <1>4, <2>1 DEF Submitting
<1>11. Continues
  <2>1. ASSUME NEW o \in Owners PROVE Speaking(o)' <=> Speaking(o)
    BY <1>1, <1>6, <1>7 DEF Speaking, Asking
  <2> QED BY <1>1, <1>4, <2>1 DEF Continues
<1>12. Ending
  BY <1>4, <1>8 DEF Ending
<1>13. Ringing
  BY <1>1, <1>4, <1>8 DEF Ringing
<1> QED BY <1>9, <1>10, <1>11, <1>12, <1>13, MainRounds, MainBell

-----------------------------------------------------------------------------
(* The theorems.                                                              *)

LEMMA RoundsStep ==
    ASSUME FullInvariant, RoundsInvariant, [ReceiveNext]_allVars
    PROVE  FullInvariant' /\ RoundsInvariant'
<1>1. FullInvariant'
  BY ReceiveStep
<1>2. authority \in Nat
  BY DEF FullInvariant, ReceiveInvariant, Types
<1>3. CASE (Works \/ Breaks) /\ UNCHANGED receive
  BY <1>1, <1>3, WriterRounds
<1>4. CASE Tick
  <2>1. CASE TickBegin
    <3>1. UNCHANGED <<vars, rounds, reconcile, ready, view>>
      BY <2>1 DEF TickBegin
    <3>2. Aside /\ UNCHANGED <<job, pending, rounds, reconcile, ready, view, authority>>
      BY <1>2, <3>1 DEF Aside, vars, writer, flags
    <3> QED BY <1>1, <3>2, Unmoved
  <2>2. CASE TickEnd
    BY <1>1, <2>2, FailedEnd, AskingEnd
  <2>3. \/ TickBegin \/ TickEnd
        \/ \E id \in DOMAIN job, o \in Owners :
              \/ AbortReceipt(id, o) \/ PromoteReceipt(id, o) \/ StaleReceipt(id, o)
              \/ FailedReceipt(id, o) \/ BlockReceipt(id, o)
    BY <1>4 DEF Tick
  <2>4. CASE \E id \in DOMAIN job, o \in Owners :
                \/ AbortReceipt(id, o) \/ PromoteReceipt(id, o) \/ StaleReceipt(id, o)
                \/ FailedReceipt(id, o) \/ BlockReceipt(id, o)
    <3>1. PICK id \in DOMAIN job, o \in Owners :
              \/ AbortReceipt(id, o) \/ PromoteReceipt(id, o) \/ StaleReceipt(id, o)
              \/ FailedReceipt(id, o) \/ BlockReceipt(id, o)
      BY <2>4
    <3> QED BY <1>1, <3>1, AbortRounds, PromoteRounds, StaleRounds, FailedRounds, BlockRounds
  <2> QED BY <2>1, <2>2, <2>3, <2>4
<1>5. CASE Frames
  <2>1. PICK o \in Owners, b \in Blocks :
            \/ Inf(o, b) \/ \E w \in DOMAIN Announced : FirstInf(o, w, b)
            \/ BeginBlock(o, b) \/ PutRow(o, b) \/ EndBlock(o, b)
    BY <1>5 DEF Frames
  <2>2. CASE Inf(o, b)
    BY <1>1, <2>2, InfRounds
  <2>3. CASE \E w \in DOMAIN Announced : FirstInf(o, w, b)
    BY <1>1, <2>3, FirstInfRounds
  <2>4. CASE BeginBlock(o, b) \/ PutRow(o, b) \/ EndBlock(o, b)
    BY <1>1, <2>4, FrameRounds
  <2> QED BY <2>1, <2>2, <2>3, <2>4
<1>6. CASE Timeout
  BY <1>1, <1>6, TimeoutRounds
<1>7. CASE Withdraw
  BY <1>1, <1>7, WithdrawRounds
<1>8. CASE UNCHANGED allVars
  <2>1. Aside /\ UNCHANGED <<job, pending, rounds, reconcile, ready, view, authority>>
    BY <1>2, <1>8 DEF Aside, allVars, vars, receive, writer, flags
  <2> QED BY <1>1, <2>1, Unmoved
<1> QED BY <1>1, <1>3, <1>4, <1>5, <1>6, <1>7, <1>8 DEF ReceiveNext

LEMMA RoundsStart ==
    ASSUME ReceiveInit
    PROVE  RoundsInvariant
<1>1. /\ pc = "wait" /\ group = <<>> /\ completed = <<>> /\ job = <<>> /\ pending = <<>> /\ at = 1
      /\ durable = EmptyRoot /\ own = NoOwners
      /\ failed = FALSE /\ stopping = FALSE /\ admission = TRUE
      /\ rounds = [o \in Owners |-> Unborn] /\ reconcile = 0 /\ ready = FALSE
  BY DEF ReceiveInit, Init
<1>2. Len(job) = 0 /\ Len(group) = 0 /\ Len(completed) = 0 /\ Len(pending) = 0 /\ completed \in Seq(Nat)
  BY <1>1
<1>3. \A id : id \notin 1 .. Len(job)
  BY <1>2
<1>4. Taken = 0 /\ Handed = 0 /\ Told = 0 /\ Known = 0 /\ pc \notin Preparing
  <2>1. Taken = 0
    BY <1>2 DEF Taken
  <2>2. Handed = 0
    BY <1>2, <2>1 DEF Handed
  <2>3. Told = 0
    BY <1>2, <2>2 DEF Told
  <2>4. Known = 0 /\ pc \notin Preparing
    BY <1>1, <2>1, <2>2 DEF Known, Preparing
  <2> QED BY <2>1, <2>2, <2>3, <2>4
<1>5. \A o \in Owners : /\ rounds[o].phase = "unborn" /\ rounds[o].promote = NoJob
                        /\ \A b \in Blocks : rounds[o].step[b] = "none"
                        /\ durable.stages[o] = NoStage /\ own[o] = NoStage
  BY <1>1 DEF Unborn, EmptyRoot, NoOwners
<1>6. Receiving
  <2>1. \A i : i \notin 1 .. Len(completed)
    BY <1>2
  <2>2. {admission, failed} \subseteq BOOLEAN /\ stopping = FALSE /\ admission = ~failed /\ pc # "commit"
    BY <1>1
  <2> QED BY <1>2, <1>3, <1>4, <2>1, <2>2 DEF Receiving
<1>7. Course
  BY <1>3, <1>5 DEF Course
<1>8. Revisions
  BY <1>3, <1>5 DEF Revisions, Speaking
<1>9. \A id : id \notin 1 .. Handed /\ id \notin Handed + 1 .. Taken /\ id \notin 1 .. Known
              /\ id \notin Handed + 1 .. Len(job)
  BY <1>2, <1>4
<1>10. Apart
  BY <1>9 DEF Apart
<1>11. Sets
  BY <1>3, <1>4, <1>9 DEF Sets, Holds, Covers, Closed, Served
<1>12. Control
  BY <1>4, <1>5, <1>9 DEF Control, Healthy
<1>13. Over
  BY <1>5 DEF Over
<1>14. Bell
  BY <1>1 DEF Bell
<1> QED BY <1>6, <1>7, <1>8, <1>10, <1>11, <1>12, <1>13, <1>14 DEF RoundsInvariant

\* What the receipts of a round stand for, whatever the writer, the peer and the deadlines
\* do: the inductive invariant of the theorems that follow.
THEOREM RoundsInvariantHolds == ReceiveSpec => [](FullInvariant /\ RoundsInvariant)
<1>1. ReceiveInit => FullInvariant /\ RoundsInvariant
  BY ReceiveStart, RoundsStart
<1>2. FullInvariant /\ RoundsInvariant /\ [ReceiveNext]_allVars => (FullInvariant /\ RoundsInvariant)'
  BY RoundsStep
<1> QED BY <1>1, <1>2, PTL DEF ReceiveSpec

\* A block that was acknowledged stays durable, with the contents that were announced,
\* until its round is promoted or given up: nothing the writer does for another round or
\* for a late job of this one takes it back.
THEOREM BlocksStayDurable == ReceiveSpec => []AckedDurable
<1>1. ASSUME FullInvariant, RoundsInvariant, NEW o \in Owners, NEW b \in Blocks,
             rounds[o].phase = "live", rounds[o].step[b] = "durable", rounds[o].promote \notin ToSet(Durable)
      PROVE  /\ durable.stages[o] # NoStage /\ b \in Mask(durable.stages[o])
             /\ durable.stages[o].roots[b] = Announced[rounds[o].wire].blocks[b].digest
  <2>1. Receiving /\ Course /\ Sets /\ Faithful(durable)
    BY <1>1 DEF RoundsInvariant, FullInvariant, ReceiveInvariant, Words
  <2>2. PICK id \in 1 .. Told : /\ Kind(id) \in Deliverers /\ Owner(id) = o /\ job[id].req.block = b
                                /\ job[id].result = "OK"
    BY <1>1, <2>1 DEF Course, Delivered
  <2>3. id \in 1 .. Known
    <3>1. Told \in Nat /\ Handed \in Nat /\ Taken \in Nat /\ Known \in {Handed, Taken} /\ Told <= Handed
          /\ Handed <= Worked /\ Worked <= Taken /\ Worked \in Nat
      BY <1>1, <2>1, Places
    <3> QED BY <2>2, <3>1
  <2>4. b \in Mask(durable.stages[o])
    BY <1>1, <2>1, <2>2, <2>3 DEF Sets, Holds, Covers, Good, Durable
  <2>5. durable.stages[o] # NoStage /\ b \in DOMAIN durable.stages[o].roots
    BY <2>4 DEF Mask
  <2>6. HeadOf(o, durable.stages[o])
    BY <2>1, <2>5 DEF Faithful
  <2> QED BY <2>4, <2>5, <2>6 DEF HeadOf, Promise
<1>2. FullInvariant /\ RoundsInvariant => AckedDurable
  BY <1>1 DEF AckedDurable
<1> QED BY <1>2, RoundsInvariantHolds, PTL

\* READY is served from exactly one complete round: its lineage and its six blocks.
THEOREM ReadyIsExact == ReceiveSpec => []ReadyExact
<1>1. ASSUME FullInvariant, RoundsInvariant, ready
      PROVE  /\ view = Lineage(durable)
             /\ \E o \in Owners : /\ rounds[o].phase = "gone"
                                  /\ view = Lineage(Announced[rounds[o].wire])
                                  /\ durable.blocks = AnnouncedBlocks(rounds[o].wire)
  BY <1>1 DEF RoundsInvariant, Bell, Announces, Promise
<1>2. FullInvariant /\ RoundsInvariant => ReadyExact
  BY <1>1 DEF ReadyExact
<1> QED BY <1>2, RoundsInvariantHolds, PTL

\* A round that is over has left nothing behind: no durable pending root, no controller,
\* however late the jobs it had submitted are worked on.
THEOREM NothingLeftBehind == ReceiveSpec => []NoOrphanRoots
<1>1. FullInvariant /\ RoundsInvariant => NoOrphanRoots
  BY DEF RoundsInvariant, Over, Control, NoOrphanRoots
<1> QED BY <1>1, RoundsInvariantHolds, PTL

\* What the controllers of the writer believe to be durable is, whenever it waits for
\* work, also after groups of which some jobs or all were turned away.
THEOREM ControllersAgree == ReceiveSpec => []StagesAgree
<1>1. ASSUME FullInvariant, RoundsInvariant, pc = "wait", NEW o \in Owners, Healthy(own[o])
      PROVE  own[o].ready = Mask(durable.stages[o])
  <2>1. Receiving /\ Control
    BY <1>1 DEF RoundsInvariant
  <2>2. group = <<>>
    BY <1>1 DEF FullInvariant, ReceiveInvariant, Line
  <2>3. pc \notin Preparing
    BY <1>1 DEF Preparing
  <2>4. Worked = Handed /\ Handed \in Nat
    <3>1. Taken = Handed + Len(group) /\ Handed \in Nat /\ Len(group) = 0
      BY <1>1, <2>1, <2>2, Places
    <3> QED BY <2>3, <3>1 DEF Worked
  <2>5. Of(o) = {}
    BY <2>4 DEF Of, Tried
  <2> QED BY <1>1, <2>1, <2>3, <2>5 DEF Control, Leaves
<1>2. FullInvariant /\ RoundsInvariant => StagesAgree
  BY <1>1 DEF StagesAgree, Healthy
<1> QED BY <1>2, RoundsInvariantHolds, PTL
=============================================================================
