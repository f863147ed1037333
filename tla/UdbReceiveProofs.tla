-------------------------- MODULE UdbReceiveProofs --------------------------
(* Proofs about UdbReceive, for every set of rounds, owners and blocks, and every  *)
(* bound: what the writer keeps of a round is what the authority announced for it, *)
(* so a promotion moves the store to exactly one announced round.                  *)
(*                                                                                *)
(* Jobs are numbered as they are submitted, and the jobs that wait and those of the *)
(* group are intervals of the numbers.                                             *)
EXTENDS UdbReceive, SequenceTheorems, FiniteSetTheorems, TLAPS

-----------------------------------------------------------------------------
(* Types.                                                                     *)

Roots == [src : {NoSource} \cup {Announced[w].src : w \in DOMAIN Announced},
          seq : {0} \cup {Announced[w].seq : w \in DOMAIN Announced},
          blocks : [Blocks -> {0} \cup Promised],
          stages : [Owners -> Heads \cup {NoStage}], log : Seq(Nat)]

\* PROMOTE and ABORT name no block.
Asked == {Req(kind, o, w, b) : kind \in {"BEGIN", "PUT", "END", "REUSE"}, o \in Owners,
                               w \in DOMAIN Announced, b \in Blocks}
           \cup {Req(kind, o, w, SomeBlock) : kind \in {"PROMOTE", "ABORT"}, o \in Owners, w \in DOMAIN Announced}

JobRecords == [req : Asked, rev : Nat, result : Results, cancelled : BOOLEAN,
               committing : BOOLEAN, before : Roots, after : Roots]

RoundRecords == [phase : Phases, wire : {0} \cup DOMAIN Announced, rev : Nat,
                 step : [Blocks -> Steps], puts : [Blocks -> Nat], promote : Nat, abort : Nat]

Types ==
    /\ pc \in {"wait", "check", "prepare", "commit", "install", "complete", "ended"}
    /\ job \in Seq(JobRecords) /\ pending \in Seq(Nat) /\ group \in Seq(Nat)
    /\ candidate \in Roots /\ durable \in Roots
    /\ own \in [Owners -> Controllers \cup {NoStage}]
    /\ at \in Nat
    /\ outcome \in {"OK", "BUSY", "LIMIT", "ERROR"}
    /\ rounds \in [Owners -> RoundRecords]
    /\ authority \in Nat

-----------------------------------------------------------------------------
(* The line of jobs.                                                          *)

\* Jobs up to these numbers were taken by the writer, and handed over.
Taken == Len(job) - Len(pending)
Handed == Taken - Len(group)

Preparing == {"check", "prepare", "commit"}

\* The group is through the journal.
Recorded == pc \in {"install", "complete"} /\ outcome = "OK"

Line ==
    /\ 0 <= Handed
    /\ \A i \in 1 .. Len(pending) : pending[i] = Taken + i
    /\ \A i \in 1 .. Len(group) : group[i] = Handed + i
    /\ pc \in {"wait", "ended"} => group = <<>>
    /\ pc \in Preparing => at \in 1 .. Len(group) + 1 /\ outcome = "OK"
    /\ pc = "prepare" => at <= Len(group)

\* A job enters the log of the candidate when it is prepared, and the ledger with its group.
Logs ==
    /\ \A i \in 1 .. Len(Durable) : Durable[i] \in 1 .. Taken /\ (~Recorded => Durable[i] <= Handed)
    /\ pc \in Preparing => \A i \in 1 .. Len(candidate.log) : candidate.log[i] \in 1 .. Handed + at - 1

-----------------------------------------------------------------------------
(* What is known of a round.                                                  *)

Born(o) == rounds[o].phase # "unborn"
Promise(o) == Announced[rounds[o].wire]

\* Every job is asked for by a round that was opened, in the words of its announcement.
Speaks(r) ==
    /\ Born(r.owner) /\ Lineage(r) = Lineage(Promise(r.owner))
    /\ r.kind \in {"BEGIN", "PUT", "END", "REUSE"} => r.digest = Promise(r.owner).blocks[r.block].digest

\* The pending roots of a round carry its lineage and the digests it announced ...
HeadOf(o, h) ==
    /\ h \in Heads /\ Born(o) /\ h.lineage = Lineage(Promise(o))
    /\ \A b \in DOMAIN h.roots : h.roots[b] = Promise(o).blocks[b].digest

Faithful(root) ==
    root \in Roots /\ \A o \in Owners : root.stages[o] # NoStage => HeadOf(o, root.stages[o])

\* ... and so does its controller, for every block that was opened.
ControllerOf(o, c) ==
    /\ c \in Controllers /\ Born(o) /\ c.lineage = Lineage(Promise(o))
    /\ \A b \in DOMAIN c.spec : c.spec[b].digest = Promise(o).blocks[b].digest
    /\ DOMAIN c.rows \subseteq DOMAIN c.spec

Instructed(owners) ==
    /\ owners \in [Owners -> Controllers \cup {NoStage}]
    /\ \A o \in Owners : owners[o] # NoStage => ControllerOf(o, owners[o])

\* What a durable job of request r may have done to the root set it started from.
Moves(r, before, after) ==
    IF r.kind = "PROMOTE"
    THEN /\ after.blocks = AnnouncedBlocks(rounds[r.owner].wire)
         /\ Lineage(after) = Lineage(Promise(r.owner))
         /\ after.stages[r.owner] = NoStage
    ELSE after.blocks = before.blocks /\ Lineage(after) = Lineage(before)

Exact(id) == Moves(job[id].req, job[id].before, job[id].after)

Opened == \A o \in Owners : Born(o) => rounds[o].wire \in DOMAIN Announced

Words ==
    /\ Opened
    /\ \A id \in 1 .. Len(job) : Speaks(job[id].req)
    /\ Instructed(own)
    /\ Faithful(durable)
    /\ pc \in Preparing => Faithful(candidate)

Deeds ==
    /\ \A i \in 1 .. Len(Durable) : Exact(Durable[i])
    /\ pc \in Preparing => \A i \in 1 .. Len(candidate.log) : Exact(candidate.log[i])

ReceiveInvariant == Types /\ Line /\ Logs /\ Words /\ Deeds

-----------------------------------------------------------------------------
(* What a job does to the pending roots and to the controllers.               *)

LEMMA Request ==
    ASSUME NEW r \in Asked
    PROVE  /\ r.kind \in StageKinds /\ r.kind \notin Mutations /\ r.owner \in Owners
           /\ Lineage(r) \in Lineages
           /\ r.kind \in {"BEGIN", "PUT", "END", "REUSE"} =>
                 r.block \in Blocks /\ r.count \in Counts /\ r.digest \in Promised
BY DEF Asked, Req, StageKinds, Mutations, Lineages, Lineage, Counts, Promised

LEMMA OneHead ==
    ASSUME NEW base, Faithful(base), NEW o \in Owners, NEW h, h = NoStage \/ HeadOf(o, h)
    PROVE  /\ Faithful([base EXCEPT !.stages[o] = h])
           /\ [base EXCEPT !.stages[o] = h].blocks = base.blocks
           /\ Lineage([base EXCEPT !.stages[o] = h]) = Lineage(base)
<1> DEFINE next == [base EXCEPT !.stages[o] = h]
<1>1. base \in Roots /\ h \in Heads \cup {NoStage}
  BY DEF Faithful, HeadOf
<1>2. /\ next \in Roots /\ next.blocks = base.blocks /\ next.src = base.src /\ next.seq = base.seq
      /\ next.stages = [base.stages EXCEPT ![o] = h] /\ base.stages \in [Owners -> Heads \cup {NoStage}]
  BY <1>1 DEF Roots
<1>3. ASSUME NEW p \in Owners, next.stages[p] # NoStage PROVE HeadOf(p, next.stages[p])
  <2>1. CASE p = o
    BY <1>2, <1>3, <2>1
  <2>2. CASE p # o
    <3>1. next.stages[p] = base.stages[p]
      BY <1>2, <2>2
    <3> QED BY <1>3, <3>1 DEF Faithful
  <2> QED BY <2>1, <2>2
<1> QED BY <1>2, <1>3 DEF Faithful, Lineage

LEMMA OneController ==
    ASSUME NEW owners, Instructed(owners), NEW o \in Owners, NEW c, c = NoStage \/ ControllerOf(o, c)
    PROVE  Instructed([owners EXCEPT ![o] = c])
<1> DEFINE next == [owners EXCEPT ![o] = c]
<1>1. owners \in [Owners -> Controllers \cup {NoStage}] /\ c \in Controllers \cup {NoStage}
  BY DEF Instructed, ControllerOf
<1>2. next \in [Owners -> Controllers \cup {NoStage}]
  BY <1>1
<1>3. ASSUME NEW p \in Owners, next[p] # NoStage PROVE ControllerOf(p, next[p])
  <2>1. CASE p = o
    BY <1>1, <1>3, <2>1
  <2>2. CASE p # o
    <3>1. next[p] = owners[p]
      BY <1>1, <2>2
    <3> QED BY <1>3, <3>1 DEF Instructed
  <2> QED BY <2>1, <2>2
<1> QED BY <1>2, <1>3 DEF Instructed

\* A block is saved with the digest its round announced.
LEMMA SavedHead ==
    ASSUME Opened, NEW base, Faithful(base), NEW o \in Owners, Born(o), NEW b \in Blocks,
           NEW root, root = Saved(base, o, Lineage(Promise(o)), b, Promise(o).blocks[b].digest)
    PROVE  /\ HeadOf(o, root.stages[o]) /\ root = [base EXCEPT !.stages[o] = root.stages[o]]
           /\ \A c : c \in DOMAIN root.stages[o].roots <=> c \in Mask(base.stages[o]) \cup {b}
<1> DEFINE kept == Mask(base.stages[o])
           digest == Promise(o).blocks[b].digest
           roots == [c \in kept \cup {b} |-> IF c = b THEN digest ELSE base.stages[o].roots[c]]
           h == [lineage |-> Lineage(Promise(o)), roots |-> roots]
<1>1. rounds[o].wire \in DOMAIN Announced
  BY DEF Opened
<1>2. digest \in Promised /\ Lineage(Promise(o)) \in Lineages
  BY <1>1 DEF Promised, Lineages, Promise
<1>3. /\ kept \subseteq Blocks
      /\ \A c \in kept : base.stages[o].roots[c] \in Promised
                        /\ base.stages[o].roots[c] = Promise(o).blocks[c].digest
  <2>1. CASE base.stages[o] = NoStage
    BY <2>1 DEF Mask
  <2>2. CASE base.stages[o] # NoStage
    <3>1. HeadOf(o, base.stages[o]) /\ kept = DOMAIN base.stages[o].roots
      BY <2>2 DEF Faithful, Mask
    <3>2. base.stages[o].roots \in Partly(Promised)
      BY <3>1 DEF HeadOf, Heads
    <3> QED BY <3>1, <3>2 DEF HeadOf, Partly
  <2> QED BY <2>1, <2>2
<1>4. roots \in Partly(Promised)
  <2>1. kept \cup {b} \in SUBSET Blocks
    BY <1>3
  <2>2. roots \in [kept \cup {b} -> Promised]
    BY <1>2, <1>3
  <2> QED BY <2>1, <2>2 DEF Partly
<1>5. h \in Heads
  BY <1>2, <1>4 DEF Heads
<1>6. \A c \in DOMAIN roots : roots[c] = Promise(o).blocks[c].digest
  BY <1>3
<1>7. HeadOf(o, h)
  BY <1>5, <1>6 DEF HeadOf
<1>8. Saved(base, o, Lineage(Promise(o)), b, digest) = [base EXCEPT !.stages[o] = h]
  BY DEF Saved
<1>9. \A c : c \in DOMAIN h.roots <=> c \in kept \cup {b}
  OBVIOUS
<1>10. root = [base EXCEPT !.stages[o] = h]
  BY <1>8
<1> HIDE DEF h
<1>11. root.stages = [base.stages EXCEPT ![o] = h] /\ base.stages \in [Owners -> Heads \cup {NoStage}]
  BY <1>10 DEF Faithful, Roots
<1>12. root.stages[o] = h
  BY <1>11
<1> QED BY <1>7, <1>9, <1>10, <1>12

LEMMA Saves ==
    ASSUME Opened, NEW base, Faithful(base), NEW o \in Owners, Born(o), NEW b \in Blocks
    PROVE  LET root == Saved(base, o, Lineage(Promise(o)), b, Promise(o).blocks[b].digest)
           IN  /\ Faithful(root) /\ root.blocks = base.blocks /\ Lineage(root) = Lineage(base)
<1> DEFINE root == Saved(base, o, Lineage(Promise(o)), b, Promise(o).blocks[b].digest)
<1>1. PICK h : h = root.stages[o]
  OBVIOUS
<1>2. HeadOf(o, h) /\ root = [base EXCEPT !.stages[o] = h]
  BY <1>1, SavedHead
<1> HIDE DEF root
<1>3. Faithful(root) /\ root.blocks = base.blocks /\ Lineage(root) = Lineage(base)
  BY <1>2, OneHead
<1> QED BY <1>3 DEF root

LEMMA Drops ==
    ASSUME NEW base, Faithful(base), NEW o \in Owners
    PROVE  /\ Faithful(Dropped(base, o)) /\ Dropped(base, o).stages[o] = NoStage
           /\ Dropped(base, o).blocks = base.blocks /\ Lineage(Dropped(base, o)) = Lineage(base)
<1>1. Dropped(base, o).stages[o] = NoStage
  BY DEF Dropped, Faithful, Roots
<1> QED BY <1>1, OneHead DEF Dropped

\* With all the blocks there, the pending roots are the round.
LEMMA Promotes ==
    ASSUME Opened, NEW base, Faithful(base), NEW o \in Owners,
           base.stages[o] # NoStage, Mask(base.stages[o]) = Blocks
    PROVE  /\ Faithful(Promoted(base, o)) /\ Promoted(base, o).stages[o] = NoStage
           /\ Promoted(base, o).blocks = AnnouncedBlocks(rounds[o].wire)
           /\ Lineage(Promoted(base, o)) = Lineage(Promise(o))
<1> DEFINE h == base.stages[o]
           next == Promoted(base, o)
<1>1. h \in Heads /\ Born(o) /\ h.lineage = Lineage(Promise(o))
      /\ \A b \in DOMAIN h.roots : h.roots[b] = Promise(o).blocks[b].digest
  BY DEF Faithful, HeadOf
<1>2. DOMAIN h.roots = Blocks /\ h.roots \in [Blocks -> Promised]
  <2>1. DOMAIN h.roots = Blocks
    BY DEF Mask
  <2> QED BY <1>1, <2>1 DEF Heads, Partly
<1>3. rounds[o].wire \in DOMAIN Announced
  BY <1>1 DEF Opened
<1>4. h.lineage.src = Promise(o).src /\ h.lineage.seq = Promise(o).seq
  BY <1>1 DEF Lineage
<1>5. /\ Promise(o).src \in {NoSource} \cup {Announced[w].src : w \in DOMAIN Announced}
      /\ Promise(o).seq \in {0} \cup {Announced[w].seq : w \in DOMAIN Announced}
  BY <1>3 DEF Promise
<1>6. h.roots = AnnouncedBlocks(rounds[o].wire)
  BY <1>1, <1>2 DEF AnnouncedBlocks, Promise
<1>7. Faithful(Dropped(base, o)) /\ Dropped(base, o).stages[o] = NoStage
  BY Drops
<1>8. /\ next \in Roots /\ next.blocks = h.roots /\ next.stages = Dropped(base, o).stages
      /\ next.src = Promise(o).src /\ next.seq = Promise(o).seq
  <2>1. Dropped(base, o) \in Roots
    BY <1>7 DEF Faithful
  <2>2. h.roots \in [Blocks -> {0} \cup Promised]
    BY <1>2
  <2>3. next = [Dropped(base, o) EXCEPT !.blocks = h.roots, !.src = Promise(o).src, !.seq = Promise(o).seq]
    BY <1>4 DEF Promoted
  <2> HIDE DEF next, h
  <2> QED BY <1>5, <2>1, <2>2, <2>3 DEF Roots
<1>9. Faithful(next)
  BY <1>7, <1>8 DEF Faithful
<1>10. Lineage(next) = Lineage(Promise(o))
  BY <1>8 DEF Lineage
<1> QED BY <1>6, <1>7, <1>8, <1>9, <1>10

LEMMA Spoils ==
    ASSUME NEW owners, Instructed(owners), NEW o \in Owners
    PROVE  Instructed(Spoiled(owners, o))
<1>1. CASE owners[o] = NoStage
  BY <1>1 DEF Spoiled
<1>2. CASE owners[o] # NoStage
  <2> DEFINE c == [owners[o] EXCEPT !.failed = TRUE]
  <2>1. ControllerOf(o, owners[o])
    BY <1>2 DEF Instructed
  <2>2. /\ c \in Controllers /\ c.lineage = owners[o].lineage /\ c.spec = owners[o].spec
        /\ c.rows = owners[o].rows
    BY <2>1 DEF ControllerOf, Controllers
  <2>3. ControllerOf(o, c)
    BY <2>1, <2>2 DEF ControllerOf
  <2>4. Spoiled(owners, o) = [owners EXCEPT ![o] = c]
    BY <1>2 DEF Spoiled
  <2> HIDE DEF c
  <2>5. Instructed([owners EXCEPT ![o] = c])
    BY <2>3, OneController
  <2> QED BY <2>4, <2>5
<1> QED BY <1>1, <1>2

LEMMA Admission ==
    ASSUME Opened, NEW r \in Asked, Speaks(r), NEW owners, Instructed(owners)
    PROVE  Instructed(Admitted(owners, r)) /\ ControllerOf(r.owner, Admitted(owners, r)[r.owner])
<1>1. r.owner \in Owners /\ Lineage(r) \in Lineages /\ Born(r.owner) /\ Lineage(r) = Lineage(Promise(r.owner))
  BY Request DEF Speaks
<1>2. CASE owners[r.owner] # NoStage
  BY <1>1, <1>2 DEF Admitted, Instructed
<1>3. CASE owners[r.owner] = NoStage
  <2> DEFINE c == Controller(r)
  <2>1. <<>> \in Partly(Specs) /\ <<>> \in Partly(Nat) /\ DOMAIN <<>> = {}
    <3>1. \A S : <<>> \in [{} -> S]
      OBVIOUS
    <3>2. {} \in SUBSET Blocks
      OBVIOUS
    <3> QED BY <3>1, <3>2 DEF Partly
  <2>2. c \in Controllers /\ c.lineage = Lineage(r) /\ c.spec = <<>> /\ c.rows = <<>>
    BY <1>1, <2>1 DEF Controller, Controllers
  <2>3. ControllerOf(r.owner, c)
    BY <1>1, <2>1, <2>2 DEF ControllerOf
  <2>4. Admitted(owners, r) = [owners EXCEPT ![r.owner] = c]
    BY <1>3 DEF Admitted
  <2>5. [owners EXCEPT ![r.owner] = c][r.owner] = c
    BY <1>1 DEF Instructed
  <2> HIDE DEF c
  <2>6. Instructed([owners EXCEPT ![r.owner] = c])
    BY <1>1, <2>3, OneController
  <2> QED BY <2>3, <2>4, <2>5, <2>6
<1> QED BY <1>2, <1>3
-----------------------------------------------------------------------------
(* What the preparation of a job may come to.                                 *)

\* The outcome a of request r on the root set base.
Sound(r, base, a) ==
    /\ Faithful(a.root) /\ Instructed(a.own)
    /\ a.result \in {"OK", "REJECTED", "STAGED", "NOT_FOUND"}
    /\ a.result = "OK" => Moves(r, base, a.root)

LEMMA Extends ==
    ASSUME NEW S, NEW f \in Partly(S), NEW b \in Blocks, NEW x \in S
    PROVE  With(f, b, x) \in Partly(S)
<1>1. PICK B \in SUBSET Blocks : f \in [B -> S]
  BY DEF Partly
<1>2. With(f, b, x) \in [B \cup {b} -> S] /\ B \cup {b} \in SUBSET Blocks
  BY <1>1 DEF With
<1> QED BY <1>2 DEF Partly

\* What may become of a controller.
LEMMA Opens ==
    ASSUME Opened, NEW r \in Asked, Speaks(r), r.kind \in {"BEGIN", "PUT", "END", "REUSE"},
           NEW c, ControllerOf(r.owner, c)
    PROVE  ControllerOf(r.owner, [c EXCEPT !.spec = With(c.spec, r.block, [count |-> r.count, digest |-> r.digest])])
<1> DEFINE new == [count |-> r.count, digest |-> r.digest]
           next == [c EXCEPT !.spec = With(c.spec, r.block, new)]
<1>1. r.block \in Blocks /\ r.digest = Promise(r.owner).blocks[r.block].digest
  BY Request DEF Speaks
<1>2. new \in Specs /\ new.digest = r.digest
  BY Request DEF Specs
<1>3. c \in Controllers /\ Born(r.owner) /\ c.lineage = Lineage(Promise(r.owner))
      /\ (\A b \in DOMAIN c.spec : c.spec[b].digest = Promise(r.owner).blocks[b].digest)
      /\ DOMAIN c.rows \subseteq DOMAIN c.spec
  BY DEF ControllerOf
<1>4. c.spec \in Partly(Specs)
  BY <1>3 DEF Controllers
<1> HIDE DEF new
<1>5. /\ With(c.spec, r.block, new) \in Partly(Specs)
      /\ DOMAIN With(c.spec, r.block, new) = DOMAIN c.spec \cup {r.block}
      /\ With(c.spec, r.block, new)[r.block] = new
      /\ \A b \in DOMAIN c.spec : b # r.block => With(c.spec, r.block, new)[b] = c.spec[b]
  <2>1. With(c.spec, r.block, new) \in Partly(Specs)
    BY <1>1, <1>2, <1>4, Extends
  <2> QED BY <2>1 DEF With
<1>6. /\ next \in Controllers /\ next.lineage = c.lineage /\ next.rows = c.rows
      /\ next.spec = With(c.spec, r.block, new)
  BY <1>3, <1>5 DEF Controllers
<1>7. \A b \in DOMAIN next.spec : next.spec[b].digest = Promise(r.owner).blocks[b].digest
  BY <1>1, <1>2, <1>3, <1>5, <1>6
<1>8. ControllerOf(r.owner, next)
  BY <1>3, <1>5, <1>6, <1>7 DEF ControllerOf
<1> QED BY <1>8 DEF new

LEMMA Counts0 ==
    ASSUME NEW o, NEW c, ControllerOf(o, c), NEW b \in DOMAIN c.spec
    PROVE  /\ ControllerOf(o, [c EXCEPT !.rows = With(c.rows, b, 0)])
           /\ ControllerOf(o, [c EXCEPT !.ready = @ \cup {b}])
           /\ ControllerOf(o, [c EXCEPT !.sealed = @ \cup {b}])
           /\ b \in Blocks
<1>1. c \in Controllers /\ DOMAIN c.rows \subseteq DOMAIN c.spec
  BY DEF ControllerOf
<1>2. b \in Blocks /\ c.rows \in Partly(Nat)
  BY <1>1 DEF Controllers, Partly
<1>3. /\ With(c.rows, b, 0) \in Partly(Nat)
      /\ DOMAIN With(c.rows, b, 0) = DOMAIN c.rows \cup {b}
  <2>1. With(c.rows, b, 0) \in Partly(Nat)
    BY <1>2, Extends
  <2> QED BY <2>1 DEF With
<1>4. /\ [c EXCEPT !.rows = With(c.rows, b, 0)] \in Controllers
      /\ [c EXCEPT !.ready = @ \cup {b}] \in Controllers
      /\ [c EXCEPT !.sealed = @ \cup {b}] \in Controllers
  BY <1>1, <1>2, <1>3 DEF Controllers
<1>5. ControllerOf(o, [c EXCEPT !.rows = With(c.rows, b, 0)])
  BY <1>1, <1>3, <1>4 DEF ControllerOf, Controllers
<1>6. ControllerOf(o, [c EXCEPT !.ready = @ \cup {b}])
  BY <1>1, <1>4 DEF ControllerOf, Controllers
<1>7. ControllerOf(o, [c EXCEPT !.sealed = @ \cup {b}])
  BY <1>1, <1>4 DEF ControllerOf, Controllers
<1> QED BY <1>2, <1>5, <1>6, <1>7

LEMMA Counts1 ==
    ASSUME NEW o, NEW c, ControllerOf(o, c), NEW b \in DOMAIN c.rows
    PROVE  ControllerOf(o, [c EXCEPT !.rows[b] = @ + 1])
<1> DEFINE rows == [c.rows EXCEPT ![b] = @ + 1]
           next == [c EXCEPT !.rows = rows]
<1>1. c \in Controllers
  BY DEF ControllerOf
<1>2. PICK B \in SUBSET Blocks : c.rows \in [B -> Nat]
  BY <1>1 DEF Controllers, Partly
<1>3. rows \in [B -> Nat] /\ DOMAIN rows = DOMAIN c.rows
  BY <1>2
<1>4. rows \in Partly(Nat)
  BY <1>3 DEF Partly
<1> HIDE DEF rows
<1>5. next \in Controllers /\ next.rows = rows /\ next.spec = c.spec /\ next.lineage = c.lineage
  BY <1>1, <1>4 DEF Controllers
<1>6. ControllerOf(o, next)
  BY <1>3, <1>5 DEF ControllerOf
<1>7. [c EXCEPT !.rows[b] = @ + 1] = next
  BY DEF next, rows
<1> QED BY <1>6, <1>7

LEMMA Refuses ==
    ASSUME NEW base, Faithful(base), NEW owners, Instructed(owners), NEW r \in Asked,
           NEW a \in Failing("REJECTED", base, owners, r.owner)
    PROVE  Sound(r, base, a)
<1>1. r.owner \in Owners
  BY Request
<1>2. a.result = "REJECTED" /\ a.root = base /\ a.own = Spoiled(owners, r.owner)
  BY DEF Failing, Answer
<1>3. Instructed(Spoiled(owners, r.owner))
  BY <1>1, Spoils
<1> QED BY <1>2, <1>3 DEF Sound
LEMMA BeginSound ==
    ASSUME Opened, NEW r \in Asked, Speaks(r), NEW base, Faithful(base), NEW owners, Instructed(owners),
           r.kind \in {"BEGIN", "REUSE"}, NEW a \in BeginOutcomes(r, base, owners)
    PROVE  Sound(r, base, a)
<1> DEFINE made == Admitted(owners, r)
           c == made[r.owner]
           spec == With(c.spec, r.block, [count |-> r.count, digest |-> r.digest])
           next == [made EXCEPT ![r.owner].spec = spec]
           opened == [c EXCEPT !.spec = spec]
<1>1. /\ r.owner \in Owners /\ r.block \in Blocks
      /\ Born(r.owner) /\ r.digest = Promise(r.owner).blocks[r.block].digest
  BY Request DEF Speaks
<1>2. Instructed(made) /\ ControllerOf(r.owner, c)
  BY Admission
<1>3. ControllerOf(r.owner, opened)
  BY <1>2, Opens
<1>4. /\ r.block \in DOMAIN opened.spec /\ made \in [Owners -> Controllers \cup {NoStage}]
      /\ next = [made EXCEPT ![r.owner] = opened] /\ next[r.owner] = opened /\ opened.rows = c.rows
  <2>1. opened.spec = spec /\ opened.rows = c.rows
    BY <1>2 DEF ControllerOf, Controllers
  <2>2. r.block \in DOMAIN spec
    BY DEF With
  <2>3. made \in [Owners -> Controllers \cup {NoStage}]
    BY <1>2 DEF Instructed
  <2> QED BY <1>1, <2>1, <2>2, <2>3
<1>5. Instructed(next)
  <2> HIDE DEF opened
  <2>1. Instructed([made EXCEPT ![r.owner] = opened])
    BY <1>1, <1>2, <1>3, OneController
  <2> QED BY <1>4, <2>1
<1>6. CASE a \in Failing("REJECTED", base, owners, r.owner)
  BY <1>6, Refuses
<1>7. CASE a \in Failing("REJECTED", base, made, r.owner)
  BY <1>2, <1>7, Refuses
<1>8. CASE a \in Failing("REJECTED", base, next, r.owner)
  BY <1>5, <1>8, Refuses
<1>9. CASE a = Answer("STAGED", base, [next EXCEPT ![r.owner].rows = With(c.rows, r.block, 0)])
  <2> DEFINE d == [opened EXCEPT !.rows = With(opened.rows, r.block, 0)]
  <2>1. ControllerOf(r.owner, d)
    BY <1>3, <1>4, Counts0
  <2>2. [next EXCEPT ![r.owner].rows = With(c.rows, r.block, 0)] = [next EXCEPT ![r.owner] = d]
    BY <1>4
  <2> HIDE DEF d
  <2>3. Instructed([next EXCEPT ![r.owner] = d])
    BY <1>1, <1>5, <2>1, OneController
  <2> QED BY <1>9, <2>2, <2>3 DEF Answer, Sound
<1>10. CASE a = Answer("OK", Saved(base, r.owner, c.lineage, r.block, r.digest),
                       [next EXCEPT ![r.owner].ready = @ \cup {r.block}])
  <2> DEFINE d == [opened EXCEPT !.ready = @ \cup {r.block}]
             root == Saved(base, r.owner, c.lineage, r.block, r.digest)
  <2>1. ControllerOf(r.owner, d)
    BY <1>3, <1>4, Counts0
  <2>2. [next EXCEPT ![r.owner].ready = @ \cup {r.block}] = [next EXCEPT ![r.owner] = d]
    BY <1>4
  <2>3. c.lineage = Lineage(Promise(r.owner))
    BY <1>2 DEF ControllerOf
  <2>4. Faithful(root) /\ root.blocks = base.blocks /\ Lineage(root) = Lineage(base)
    BY <1>1, <2>3, Saves
  <2> HIDE DEF d, root
  <2>5. Instructed([next EXCEPT ![r.owner] = d])
    BY <1>1, <1>5, <2>1, OneController
  <2>6. Moves(r, base, root)
    BY <2>4 DEF Moves
  <2> QED BY <1>10, <2>2, <2>4, <2>5, <2>6 DEF Answer, Sound, root
<1> QED BY <1>6, <1>7, <1>8, <1>9, <1>10 DEF BeginOutcomes

LEMMA PutSound ==
    ASSUME NEW r \in Asked, NEW base, Faithful(base), NEW owners, Instructed(owners),
           NEW a \in PutOutcomes(r, base, owners)
    PROVE  Sound(r, base, a)
<1> DEFINE c == owners[r.owner]
           next == [owners EXCEPT ![r.owner].rows[r.block] = @ + 1]
           d == [c EXCEPT !.rows[r.block] = @ + 1]
<1>1. CASE a \in Failing("REJECTED", base, owners, r.owner)
  BY <1>1, Refuses
<1>2. CASE c # NoStage /\ r.block \in DOMAIN c.rows /\ a = Answer("STAGED", base, next)
  <2>1. r.owner \in Owners /\ ControllerOf(r.owner, c)
    BY <1>2, Request DEF Instructed
  <2>2. ControllerOf(r.owner, d)
    BY <1>2, <2>1, Counts1
  <2>3. next = [owners EXCEPT ![r.owner] = d]
    OBVIOUS
  <2> HIDE DEF d
  <2>4. Instructed([owners EXCEPT ![r.owner] = d])
    BY <2>1, <2>2, OneController
  <2> QED BY <1>2, <2>3, <2>4 DEF Answer, Sound
<1> QED BY <1>1, <1>2 DEF PutOutcomes

LEMMA EndSound ==
    ASSUME Opened, NEW r \in Asked, Speaks(r), r.kind = "END",
           NEW base, Faithful(base), NEW owners, Instructed(owners), NEW a \in EndOutcomes(r, base, owners)
    PROVE  Sound(r, base, a)
<1> DEFINE c == owners[r.owner]
           shut == [c EXCEPT !.sealed = @ \cup {r.block}]
           sealed == [owners EXCEPT ![r.owner].sealed = @ \cup {r.block}]
           root == Saved(base, r.owner, c.lineage, r.block, c.spec[r.block].digest)
           after == [sealed EXCEPT ![r.owner].ready = @ \cup {r.block}]
<1>1. CASE a \in Failing("REJECTED", base, owners, r.owner)
  BY <1>1, Refuses
<1>2. CASE /\ c # NoStage /\ r.block \in DOMAIN c.rows
           /\ a \in Failing("REJECTED", base, sealed, r.owner) \/ a = Answer("OK", root, after)
  <2>1. /\ r.owner \in Owners /\ ControllerOf(r.owner, c)
        /\ owners \in [Owners -> Controllers \cup {NoStage}]
    BY <1>2, Request DEF Instructed
  <2>2. r.block \in DOMAIN c.spec /\ r.block \in Blocks
    BY <1>2, <2>1, Request DEF ControllerOf
  <2>3. ControllerOf(r.owner, shut) /\ shut.spec = c.spec
    BY <2>1, <2>2, Counts0 DEF ControllerOf, Controllers
  <2>4. sealed = [owners EXCEPT ![r.owner] = shut] /\ sealed[r.owner] = shut
    BY <2>1
  <2>5. Instructed(sealed)
    <3> HIDE DEF shut
    <3>1. Instructed([owners EXCEPT ![r.owner] = shut])
      BY <2>1, <2>3, OneController
    <3> QED BY <2>4, <3>1
  <2>6. CASE a \in Failing("REJECTED", base, sealed, r.owner)
    BY <2>5, <2>6, Refuses
  <2>7. CASE a = Answer("OK", root, after)
    <3> DEFINE d == [shut EXCEPT !.ready = @ \cup {r.block}]
    <3>1. ControllerOf(r.owner, d)
      BY <2>2, <2>3, Counts0
    <3>2. after = [sealed EXCEPT ![r.owner] = d]
      BY <2>4
    <3>3. Instructed(after)
      <4> HIDE DEF d
      <4>1. Instructed([sealed EXCEPT ![r.owner] = d])
        BY <2>1, <2>5, <3>1, OneController
      <4> QED BY <3>2, <4>1
    <3>4. /\ c.lineage = Lineage(Promise(r.owner)) /\ Born(r.owner)
          /\ c.spec[r.block].digest = Promise(r.owner).blocks[r.block].digest
      BY <2>1, <2>2 DEF ControllerOf
    <3>5. Faithful(root) /\ root.blocks = base.blocks /\ Lineage(root) = Lineage(base)
      BY <2>1, <2>2, <3>4, Saves
    <3> HIDE DEF root
    <3>6. Moves(r, base, root)
      BY <3>5 DEF Moves
    <3> QED BY <2>7, <3>3, <3>5, <3>6 DEF Answer, Sound
  <2> QED BY <1>2, <2>6, <2>7
<1> QED BY <1>1, <1>2 DEF EndOutcomes

LEMMA PromoteSound ==
    ASSUME Opened, NEW r \in Asked, r.kind = "PROMOTE",
           NEW base, Faithful(base), NEW owners, Instructed(owners), NEW a \in PromoteOutcomes(r, base, owners)
    PROVE  Sound(r, base, a)
<1>1. r.owner \in Owners
  BY Request
<1>2. CASE a \in Failing("REJECTED", base, owners, r.owner)
  BY <1>2, Refuses
<1>3. CASE a = Answer("NOT_FOUND", base, owners)
  BY <1>3 DEF Answer, Sound
<1>4. CASE /\ base.stages[r.owner] # NoStage /\ Mask(base.stages[r.owner]) = Blocks
           /\ a = Answer("OK", Promoted(base, r.owner), owners)
  <2>1. /\ Faithful(Promoted(base, r.owner)) /\ Promoted(base, r.owner).stages[r.owner] = NoStage
        /\ Promoted(base, r.owner).blocks = AnnouncedBlocks(rounds[r.owner].wire)
        /\ Lineage(Promoted(base, r.owner)) = Lineage(Promise(r.owner))
    BY <1>1, <1>4, Promotes
  <2>2. Moves(r, base, Promoted(base, r.owner))
    BY <2>1 DEF Moves
  <2> QED BY <1>4, <2>1, <2>2 DEF Answer, Sound
<1> QED BY <1>2, <1>3, <1>4 DEF PromoteOutcomes

LEMMA AbortSound ==
    ASSUME NEW r \in Asked, r.kind = "ABORT",
           NEW base, Faithful(base), NEW owners, Instructed(owners), NEW a \in AbortOutcomes(r, base, owners)
    PROVE  Sound(r, base, a)
<1>1. r.owner \in Owners
  BY Request
<1>2. /\ Faithful(Dropped(base, r.owner)) /\ Dropped(base, r.owner).blocks = base.blocks
      /\ Lineage(Dropped(base, r.owner)) = Lineage(base)
  BY <1>1, Drops
<1>3. Moves(r, base, Dropped(base, r.owner))
  BY <1>2 DEF Moves
<1> QED BY <1>2, <1>3 DEF AbortOutcomes, Answer, Sound

LEMMA OutcomeSound ==
    ASSUME Opened, NEW r \in Asked, Speaks(r), NEW base, Faithful(base), NEW owners, Instructed(owners),
           NEW id, NEW a \in Outcomes(r, base, owners, id)
    PROVE  Sound(r, base, a)
<1>1. r.kind \in StageKinds /\ a \in StageOutcomes(r, base, owners)
  BY Request DEF Outcomes
<1>2. CASE r.kind \in {"BEGIN", "REUSE"}
  BY <1>1, <1>2, BeginSound DEF StageOutcomes
<1>3. CASE r.kind = "PUT"
  BY <1>1, <1>3, PutSound DEF StageOutcomes
<1>4. CASE r.kind = "END"
  BY <1>1, <1>4, EndSound DEF StageOutcomes
<1>5. CASE r.kind = "PROMOTE"
  BY <1>1, <1>5, PromoteSound DEF StageOutcomes
<1>6. CASE r.kind = "ABORT"
  BY <1>1, <1>6, AbortSound DEF StageOutcomes
<1> QED BY <1>1, <1>2, <1>3, <1>4, <1>5, <1>6 DEF StageKinds

LEMMA FinishedSound ==
    ASSUME NEW r \in Asked, NEW result, NEW owners, Instructed(owners)
    PROVE  Instructed(Finished(r, result, owners))
<1>1. r.owner \in Owners
  BY Request
<1>2. Instructed([owners EXCEPT ![r.owner] = NoStage])
  BY <1>1, OneController
<1>3. Instructed(Spoiled(owners, r.owner))
  BY <1>1, Spoils
<1> QED BY <1>2, <1>3 DEF Finished

LEMMA BegunSound ==
    ASSUME Opened, NEW r \in Asked, Speaks(r), NEW owners, Instructed(owners), NEW begun \in Begun(r, owners)
    PROVE  Instructed(begun)
<1>1. Instructed(Admitted(owners, r))
  BY Admission
<1> QED BY <1>1 DEF Begun
-----------------------------------------------------------------------------
(* Facts every step needs.                                                    *)

LEMMA Numbers ==
    ASSUME Types, Line
    PROVE  /\ Len(job) \in Nat /\ Len(pending) \in Nat /\ Len(group) \in Nat
           /\ Len(Durable) \in Nat /\ Len(candidate.log) \in Nat
           /\ Taken \in Nat /\ Handed \in Nat
           /\ Len(job) = Taken + Len(pending) /\ Taken = Handed + Len(group)
           /\ DOMAIN job = 1 .. Len(job)
<1>1. Durable \in Seq(Nat) /\ candidate.log \in Seq(Nat)
  BY DEF Types, Roots, Durable
<1>2. job \in Seq(JobRecords) /\ pending \in Seq(Nat) /\ group \in Seq(Nat)
  BY DEF Types
<1>3. /\ Len(job) \in Nat /\ Len(pending) \in Nat /\ Len(group) \in Nat
      /\ Len(Durable) \in Nat /\ Len(candidate.log) \in Nat /\ DOMAIN job = 1 .. Len(job)
  BY <1>1, <1>2, LenProperties
<1>4. /\ Taken \in Int /\ Handed \in Int
      /\ Len(job) = Taken + Len(pending) /\ Taken = Handed + Len(group)
  BY <1>3 DEF Taken, Handed
<1>5. Taken \in Nat /\ Handed \in Nat
  BY <1>3, <1>4 DEF Line
<1> QED BY <1>3, <1>4, <1>5

LEMMA Members ==
    ASSUME Types, Line
    PROVE  /\ \A id \in 1 .. Len(job) : job[id] \in JobRecords
           /\ \A i \in 1 .. Len(group) : group[i] = Handed + i /\ group[i] \in 1 .. Len(job)
<1>1. \A id \in 1 .. Len(job) : job[id] \in JobRecords
  <2>1. job \in Seq(JobRecords)
    BY DEF Types
  <2> QED BY <2>1
<1>2. ASSUME NEW i \in 1 .. Len(group) PROVE group[i] = Handed + i /\ group[i] \in 1 .. Len(job)
  <2>1. group[i] = Handed + i
    BY DEF Line
  <2>2. Handed + Len(group) <= Len(job) /\ Handed \in Nat /\ Len(group) \in Nat /\ Len(job) \in Nat
    BY Numbers
  <2> QED BY <2>1, <2>2
<1> QED BY <1>1, <1>2

LEMMA SameJobs ==
    ASSUME job \in Seq(JobRecords), NEW f \in [DOMAIN job -> JobRecords]
    PROVE  f \in Seq(JobRecords) /\ Len(f) = Len(job) /\ DOMAIN job = 1 .. Len(job)
<1>1. DOMAIN job = 1 .. Len(job) /\ Len(job) \in Nat
  BY LenProperties
<1>2. f \in [1 .. Len(job) -> JobRecords]
  BY <1>1
<1>3. f \in Seq(JobRecords)
  BY <1>1, <1>2, SeqDef
<1>4. DOMAIN f = 1 .. Len(f) /\ Len(f) \in Nat /\ DOMAIN f = 1 .. Len(job)
  BY <1>2, <1>3, LenProperties
<1>5. Len(f) = Len(job)
  BY <1>1, <1>4
<1> QED BY <1>1, <1>3, <1>5

LEMMA OneJob ==
    ASSUME job \in Seq(JobRecords), NEW id \in 1 .. Len(job), NEW j \in JobRecords
    PROVE  /\ [job EXCEPT ![id] = j] \in Seq(JobRecords) /\ Len([job EXCEPT ![id] = j]) = Len(job)
           /\ [job EXCEPT ![id] = j][id] = j
           /\ \A k \in 1 .. Len(job) : k # id => [job EXCEPT ![id] = j][k] = job[k]
<1>1. DOMAIN job = 1 .. Len(job) /\ job \in [DOMAIN job -> JobRecords]
  BY LenProperties, ElementOfSeq
<1>2. [job EXCEPT ![id] = j] \in [DOMAIN job -> JobRecords]
  BY <1>1
<1> QED BY <1>1, <1>2, SameJobs

LEMMA FunctionSeq ==
    ASSUME NEW S, NEW n \in Nat, NEW f \in [1 .. n -> S]
    PROVE  f \in Seq(S)
BY SeqDef

LEMMA FunctionLen ==
    ASSUME NEW S, NEW n \in Nat, NEW f \in [1 .. n -> S]
    PROVE  f \in Seq(S) /\ Len(f) = n
<1>1. f \in Seq(S)
  BY FunctionSeq
<1>2. Len(f) \in Nat /\ DOMAIN f = 1 .. Len(f)
  BY <1>1, LenProperties
<1>3. 1 .. Len(f) = 1 .. n
  BY <1>2
<1>4. Len(f) = n
  BY <1>2, <1>3
<1> QED BY <1>1, <1>4

LEMMA NewJobType ==
    ASSUME NEW r \in Asked, NEW rev \in Nat
    PROVE  NewJob(r, rev) \in JobRecords /\ NewJob(r, rev).req = r
<1>1. <<>> \in Seq(Nat)
  OBVIOUS
<1>2. EmptyRoot \in Roots
  BY <1>1 DEF EmptyRoot, Roots
<1> QED BY <1>2 DEF NewJob, JobRecords, Results

\* The receipts of job id are left alone.
SameReceipts(id) ==
    /\ job'[id].req = job[id].req
    /\ job'[id].before = job[id].before /\ job'[id].after = job[id].after

\* Rounds keep what they announced.
SameRounds ==
    \A o \in Owners : Born(o) => Born(o)' /\ rounds'[o].wire = rounds[o].wire

LEMMA StillSpeaks ==
    ASSUME NEW r \in Asked, Speaks(r), SameRounds
    PROVE  Speaks(r)'
<1>1. r.owner \in Owners
  BY Request
<1> QED BY <1>1 DEF Speaks, SameRounds, Promise

LEMMA StillExact ==
    ASSUME NEW id, job[id].req \in Asked, Speaks(job[id].req), SameRounds, SameReceipts(id), Exact(id)
    PROVE  Exact(id)'
<1>1. job[id].req.owner \in Owners /\ Born(job[id].req.owner)
  BY Request DEF Speaks
<1>2. rounds'[job[id].req.owner].wire = rounds[job[id].req.owner].wire
  BY <1>1 DEF SameRounds
<1> QED BY <1>2 DEF SameReceipts, Exact, Moves, Promise

LEMMA StillFaithful ==
    ASSUME NEW root, Faithful(root), SameRounds
    PROVE  Faithful(root)'
<1>1. ASSUME NEW o \in Owners, root.stages[o] # NoStage PROVE HeadOf(o, root.stages[o])'
  <2>1. HeadOf(o, root.stages[o])
    BY <1>1 DEF Faithful
  <2>2. Born(o)' /\ rounds'[o].wire = rounds[o].wire
    BY <2>1 DEF HeadOf, SameRounds
  <2> QED BY <2>1, <2>2 DEF HeadOf, Promise
<1> QED BY <1>1 DEF Faithful

LEMMA StillInstructed ==
    ASSUME NEW owners, Instructed(owners), SameRounds
    PROVE  Instructed(owners)'
<1>1. ASSUME NEW o \in Owners, owners[o] # NoStage PROVE ControllerOf(o, owners[o])'
  <2>1. ControllerOf(o, owners[o])
    BY <1>1 DEF Instructed
  <2>2. Born(o)' /\ rounds'[o].wire = rounds[o].wire
    BY <2>1 DEF ControllerOf, SameRounds
  <2> QED BY <2>1, <2>2 DEF ControllerOf, Promise
<1> QED BY <1>1 DEF Instructed

\* Whatever a step makes of the writer's state, the rounds keep their words.
LEMMA WordsKept ==
    ASSUME Types, Words, SameRounds, Opened',
           \E owners : own' = owners /\ Instructed(owners),
           \E root : durable' = root /\ Faithful(root),
           pc' \in Preparing => \E root : candidate' = root /\ Faithful(root),
           job' \in Seq(JobRecords),
           \A id \in 1 .. Len(job') : \/ Speaks(job[id].req)'
                                      \/ id \in 1 .. Len(job) /\ job'[id].req = job[id].req
    PROVE  Words'
<1>1. PICK owners : own' = owners /\ Instructed(owners)
  OBVIOUS
<1>2. PICK root : durable' = root /\ Faithful(root)
  OBVIOUS
<1>3. Instructed(own)'
  <2>1. Instructed(owners)'
    BY <1>1, StillInstructed
  <2> QED BY <1>1, <2>1 DEF Instructed, ControllerOf
<1>4. Faithful(durable)'
  <2>1. Faithful(root)'
    BY <1>2, StillFaithful
  <2> QED BY <1>2, <2>1 DEF Faithful, HeadOf
<1>5. ASSUME pc' \in Preparing PROVE Faithful(candidate)'
  <2>1. PICK next : candidate' = next /\ Faithful(next)
    BY <1>5
  <2>2. Faithful(next)'
    BY <2>1, StillFaithful
  <2> QED BY <2>1, <2>2 DEF Faithful, HeadOf
<1>6. ASSUME NEW id \in 1 .. Len(job') PROVE Speaks(job[id].req)'
  <2>1. CASE id \in 1 .. Len(job) /\ job'[id].req = job[id].req
    <3>1. PICK r \in Asked : job'[id].req = r /\ Speaks(r)
      <4>1. job[id] \in JobRecords
        BY <2>1 DEF Types
      <4> QED BY <2>1, <4>1 DEF JobRecords, Words
    <3>2. Speaks(r)'
      BY <3>1, StillSpeaks
    <3> QED BY <3>1, <3>2 DEF Speaks, Born, Promise
  <2> QED BY <2>1
<1>7. Preparing' = Preparing
  BY DEF Preparing
<1> QED BY <1>3, <1>4, <1>5, <1>6, <1>7 DEF Words
LEMMA RequestsSpeak ==
    ASSUME Types, Words
    PROVE  \A id \in 1 .. Len(job) : job[id].req \in Asked /\ Speaks(job[id].req)
<1>1. \A id \in 1 .. Len(job) : job[id] \in JobRecords
  BY DEF Types
<1> QED BY <1>1 DEF JobRecords, Words

LEMMA LogMembers ==
    ASSUME Types, Line, Logs
    PROVE  /\ \A i \in 1 .. Len(Durable) : Durable[i] \in 1 .. Len(job)
           /\ pc \in Preparing =>
                 \A i \in 1 .. Len(candidate.log) : candidate.log[i] \in 1 .. Len(job)
<1>1. /\ Taken \in Nat /\ Handed \in Nat /\ Len(job) \in Nat /\ Len(group) \in Nat /\ Len(pending) \in Nat
      /\ Len(job) = Taken + Len(pending) /\ Taken = Handed + Len(group)
  BY Numbers
<1>2. ASSUME NEW i \in 1 .. Len(Durable) PROVE Durable[i] \in 1 .. Len(job)
  <2>1. Durable[i] \in 1 .. Taken
    BY DEF Logs
  <2> QED BY <1>1, <2>1
<1>3. ASSUME pc \in Preparing, NEW i \in 1 .. Len(candidate.log) PROVE candidate.log[i] \in 1 .. Len(job)
  <2>1. candidate.log[i] \in 1 .. Handed + at - 1 /\ at \in 1 .. Len(group) + 1
    BY <1>3 DEF Logs, Line
  <2> QED BY <1>1, <2>1
<1> QED BY <1>2, <1>3

\* The writer works on its group: the lists stand and no receipt in a log moves.
LEMMA Stands ==
    ASSUME ReceiveInvariant,
           UNCHANGED <<pending, group, candidate, durable, rounds, authority>>,
           job' \in Seq(JobRecords), Len(job') = Len(job),
           \A id \in 1 .. Len(job) : job'[id].req = job[id].req,
           \A i \in 1 .. Len(Durable) : SameReceipts(Durable[i]),
           pc' \in Preparing => \A i \in 1 .. Len(candidate.log) : SameReceipts(candidate.log[i]),
           \E owners : own' = owners /\ Instructed(owners),
           pc' \in {"wait", "check", "prepare", "commit", "install", "complete", "ended"},
           at' \in Nat, outcome' \in {"OK", "BUSY", "LIMIT", "ERROR"},
           pc' \in {"wait", "ended"} => group = <<>>,
           pc' \in Preparing => pc \in Preparing /\ at' \in at .. Len(group) + 1 /\ outcome' = "OK",
           pc' = "prepare" => at' <= Len(group),
           Recorded => Recorded'
    PROVE  ReceiveInvariant'
<1>0. Types /\ Line /\ Logs /\ Words /\ Deeds
  BY DEF ReceiveInvariant
<1>1. PICK owners : own' = owners /\ Instructed(owners)
  OBVIOUS
<1>2. SameRounds /\ Opened'
  BY <1>0 DEF SameRounds, Born, Opened, Words
<1>3. Taken' = Taken /\ Handed' = Handed /\ Durable' = Durable
  BY DEF Taken, Handed, Durable
<1>4. Types'
  BY <1>0, <1>1 DEF Types, Instructed
<1>5. /\ Handed \in Nat /\ Taken \in Nat /\ Len(group) \in Nat /\ at \in Nat
      /\ Taken = Handed + Len(group)
  BY <1>0, Numbers DEF Types
<1>6. Line'
  <2>1. at' \in at .. Len(group) + 1 /\ at >= 1 => at' \in 1 .. Len(group) + 1
    BY <1>5
  <2> QED BY <1>0, <1>3, <2>1 DEF Line, Preparing
<1>7. Logs'
  <2>1. ASSUME NEW i \in 1 .. Len(Durable) PROVE Durable[i] \in 1 .. Taken /\ (~Recorded' => Durable[i] <= Handed)
    BY <1>0 DEF Logs
  <2>2. ASSUME pc' \in Preparing, NEW i \in 1 .. Len(candidate.log)
        PROVE  candidate.log[i] \in 1 .. Handed + at' - 1
    <3>1. candidate.log[i] \in 1 .. Handed + at - 1
      BY <1>0, <2>2 DEF Logs
    <3> QED BY <1>5, <2>2, <3>1
  <2> QED BY <1>3, <2>1, <2>2 DEF Logs, Preparing
<1>8. Words'
  <2>1. /\ \E root : durable' = root /\ Faithful(root)
        /\ pc' \in Preparing => \E root : candidate' = root /\ Faithful(root)
    BY <1>0 DEF Words
  <2>2. \A id \in 1 .. Len(job') : id \in 1 .. Len(job) /\ job'[id].req = job[id].req
    OBVIOUS
  <2> QED BY <1>0, <1>1, <1>2, <2>1, <2>2, WordsKept
<1>9. Deeds'
  <2>1. ASSUME NEW i \in 1 .. Len(Durable) PROVE Exact(Durable[i])'
    <3>1. PICK id : id = Durable[i] /\ id \in 1 .. Len(job)
      BY <1>0, LogMembers
    <3>2. Exact(id) /\ SameReceipts(id) /\ job[id].req \in Asked /\ Speaks(job[id].req)
      BY <1>0, <3>1, RequestsSpeak DEF Deeds
    <3>3. Exact(id)'
      BY <1>2, <3>2, StillExact
    <3> QED BY <1>3, <3>1, <3>3 DEF Exact
  <2>2. ASSUME pc' \in Preparing, NEW i \in 1 .. Len(candidate.log) PROVE Exact(candidate.log[i])'
    <3>1. PICK id : id = candidate.log[i] /\ id \in 1 .. Len(job)
      BY <1>0, <2>2, LogMembers
    <3>2. Exact(id) /\ SameReceipts(id) /\ job[id].req \in Asked /\ Speaks(job[id].req)
      BY <1>0, <2>2, <3>1, RequestsSpeak DEF Deeds
    <3>3. Exact(id)'
      BY <1>2, <3>2, StillExact
    <3> QED BY <3>1, <3>3 DEF Exact
  <2> QED BY <1>3, <2>1, <2>2 DEF Deeds, Preparing
<1> QED BY <1>4, <1>6, <1>7, <1>8, <1>9 DEF ReceiveInvariant
-----------------------------------------------------------------------------
(* The writer.                                                                *)

\* A step that moves only the place of the writer and its outcome.
LEMMA Idles ==
    ASSUME ReceiveInvariant,
           UNCHANGED <<pending, group, candidate, durable, own, job, rounds, authority>>,
           pc' \in {"wait", "check", "prepare", "commit", "install", "complete", "ended"},
           at' \in Nat, outcome' \in {"OK", "BUSY", "LIMIT", "ERROR"},
           pc' \in {"wait", "ended"} => group = <<>>,
           pc' \in Preparing => pc \in Preparing /\ at' \in at .. Len(group) + 1 /\ outcome' = "OK",
           pc' = "prepare" => at' <= Len(group),
           Recorded => Recorded'
    PROVE  ReceiveInvariant'
<1>1. job' \in Seq(JobRecords) /\ Len(job') = Len(job) /\ \A id : SameReceipts(id)
  BY DEF ReceiveInvariant, Types, SameReceipts
<1>2. \E owners : own' = owners /\ Instructed(owners)
  BY DEF ReceiveInvariant, Words
<1>3. \A id \in 1 .. Len(job) : job'[id].req = job[id].req
  OBVIOUS
<1> QED BY <1>1, <1>2, <1>3, Stands

LEMMA EndStep ==
    ASSUME ReceiveInvariant, End, UNCHANGED receive
    PROVE  ReceiveInvariant'
<1>1. /\ UNCHANGED <<pending, group, candidate, durable, own, job, rounds, authority, at, outcome>>
      /\ pc = "wait" /\ pc' = "ended"
  BY DEF End, writer, receive
<1>2. group = <<>> /\ at \in Nat /\ outcome \in {"OK", "BUSY", "LIMIT", "ERROR"} /\ ~Recorded
  BY <1>1 DEF ReceiveInvariant, Types, Line, Recorded
<1> QED BY <1>1, <1>2, Idles DEF Preparing

LEMMA ContinueStep ==
    ASSUME ReceiveInvariant, Continue, UNCHANGED receive
    PROVE  ReceiveInvariant'
<1>1. /\ UNCHANGED <<pending, group, candidate, durable, own, job, rounds, authority, at, outcome>>
      /\ pc = "prepare" /\ pc' = "check"
  BY DEF Continue, receive
<1>2. /\ at \in 1 .. Len(group) + 1 /\ at \in Nat /\ outcome = "OK" /\ ~Recorded /\ Len(group) \in Nat
  BY <1>1, Numbers DEF ReceiveInvariant, Types, Line, Recorded, Preparing
<1>3. at' \in at .. Len(group) + 1
  BY <1>1, <1>2
<1> QED BY <1>1, <1>2, <1>3, Idles DEF Preparing

\* A job gets a result and the writer passes on.
LEMMA PassesOn ==
    ASSUME ReceiveInvariant, pc \in {"check", "prepare"}, at <= Len(group),
           NEW result \in Results, job' = [job EXCEPT ![group[at]].result = result],
           UNCHANGED <<pending, group, candidate, durable, outcome, rounds, authority>>,
           at' = at + 1, pc' = "check",
           \E owners : own' = owners /\ Instructed(owners)
    PROVE  ReceiveInvariant'
<1>0. Types /\ Line
  BY DEF ReceiveInvariant
<1>1. /\ at \in 1 .. Len(group) /\ Len(group) \in Nat /\ outcome = "OK"
  <2>1. at \in 1 .. Len(group) + 1 /\ outcome = "OK"
    BY <1>0 DEF Line, Preparing
  <2>2. Len(group) \in Nat
    BY <1>0, Numbers
  <2> QED BY <2>1, <2>2
<1>2. PICK id \in 1 .. Len(job) : id = group[at]
  BY <1>0, <1>1, Members
<1>3. job[id] \in JobRecords
  BY <1>0, Members
<1> DEFINE j == [job[id] EXCEPT !.result = result]
<1>4. /\ j \in JobRecords /\ j.req = job[id].req /\ j.before = job[id].before /\ j.after = job[id].after
      /\ job' = [job EXCEPT ![id] = j]
  BY <1>2, <1>3 DEF JobRecords
<1> HIDE DEF j
<1>5. /\ job' \in Seq(JobRecords) /\ Len(job') = Len(job) /\ job'[id] = j
      /\ \A k \in 1 .. Len(job) : k # id => job'[k] = job[k]
  <2>1. job \in Seq(JobRecords)
    BY <1>0 DEF Types
  <2>2. j \in JobRecords
    BY <1>4
  <2>3. /\ [job EXCEPT ![id] = j] \in Seq(JobRecords) /\ Len([job EXCEPT ![id] = j]) = Len(job)
        /\ [job EXCEPT ![id] = j][id] = j
        /\ \A k \in 1 .. Len(job) : k # id => [job EXCEPT ![id] = j][k] = job[k]
    BY <2>1, <2>2, OneJob
  <2> QED BY <1>4, <2>3
<1>6. \A k \in 1 .. Len(job) : SameReceipts(k)
  BY <1>4, <1>5 DEF SameReceipts
<1>7. /\ \A i \in 1 .. Len(Durable) : SameReceipts(Durable[i])
      /\ \A i \in 1 .. Len(candidate.log) : SameReceipts(candidate.log[i])
  <2>1. pc \in Preparing
    BY DEF Preparing
  <2> QED BY <1>0, <1>6, <2>1, LogMembers DEF ReceiveInvariant
<1>8. at' \in Nat /\ at' \in at .. Len(group) + 1 /\ outcome' = "OK" /\ ~Recorded
  BY <1>1 DEF Recorded
<1>9. \A k \in 1 .. Len(job) : job'[k].req = job[k].req
  BY <1>6 DEF SameReceipts
<1> QED BY <1>5, <1>7, <1>8, <1>9, Stands DEF Preparing

\* The job being worked on.
LEMMA AtWork ==
    ASSUME ReceiveInvariant, pc \in {"check", "prepare"}, at <= Len(group)
    PROVE  group[at] \in 1 .. Len(job) /\ job[group[at]].req \in Asked /\ Speaks(job[group[at]].req)
<1>0. Types /\ Line /\ Words
  BY DEF ReceiveInvariant
<1>1. at \in 1 .. Len(group)
  <2>1. at \in 1 .. Len(group) + 1
    BY <1>0 DEF Line, Preparing
  <2>2. Len(group) \in Nat
    BY <1>0, Numbers
  <2> QED BY <2>1, <2>2
<1>2. group[at] \in 1 .. Len(job)
  BY <1>0, <1>1, Members
<1> QED BY <1>0, <1>2, RequestsSpeak

LEMMA CheckStep ==
    ASSUME ReceiveInvariant, Check, UNCHANGED receive
    PROVE  ReceiveInvariant'
<1>1. /\ UNCHANGED <<pending, group, candidate, durable, outcome, rounds, authority>>
      /\ pc = "check" /\ at <= Len(group)
  BY DEF Check, receive
<1>2. CASE UNCHANGED <<at, own, job>> /\ pc' = "prepare"
  <2>1. /\ at \in 1 .. Len(group) + 1 /\ at \in Nat /\ outcome = "OK" /\ ~Recorded /\ Len(group) \in Nat
    BY <1>1, Numbers DEF ReceiveInvariant, Types, Line, Recorded, Preparing
  <2>2. at' \in at .. Len(group) + 1 /\ at' \in Nat /\ at' <= Len(group)
    BY <1>1, <1>2, <2>1
  <2> QED BY <1>1, <1>2, <2>1, <2>2, Idles DEF Preparing
<1>3. CASE /\ job' = [job EXCEPT ![group[at]].result = "BUSY"]
           /\ own' = Finished(job[group[at]].req, "BUSY", own)
           /\ at' = at + 1 /\ pc' = pc
  <2>1. Instructed(Finished(job[group[at]].req, "BUSY", own))
    BY <1>1, AtWork, FinishedSound DEF ReceiveInvariant, Words
  <2>2. "BUSY" \in Results
    BY DEF Results, Negative
  <2> QED BY <1>1, <1>3, <2>1, <2>2, PassesOn
<1> QED BY <1>2, <1>3 DEF Check

LEMMA PrepareFailsStep ==
    ASSUME ReceiveInvariant, PrepareFails, UNCHANGED receive
    PROVE  ReceiveInvariant'
<1>1. /\ UNCHANGED <<pending, group, candidate, durable, outcome, rounds, authority>>
      /\ pc = "prepare" /\ pc' = "check" /\ at' = at + 1
  BY DEF PrepareFails, receive
<1>2. at <= Len(group)
  BY <1>1 DEF ReceiveInvariant, Line
<1>3. PICK result \in {"LIMIT", "ERROR"}, begun \in Begun(job[group[at]].req, own) :
         /\ job' = [job EXCEPT ![group[at]].result = result]
         /\ own' = Finished(job[group[at]].req, result, begun)
  BY DEF PrepareFails
<1>4. Instructed(begun)
  BY <1>1, <1>2, AtWork, BegunSound DEF ReceiveInvariant, Words
<1>5. Instructed(Finished(job[group[at]].req, result, begun))
  BY <1>1, <1>2, <1>4, AtWork, FinishedSound
<1>6. result \in Results
  BY DEF Results, Negative
<1> QED BY <1>1, <1>2, <1>3, <1>5, <1>6, PassesOn
\* A prepared job joins the log of the candidate with its receipts.
LEMMA Joins1 ==
    ASSUME ReceiveInvariant, pc = "prepare", UNCHANGED receive,
           NEW a, Sound(job[group[at]].req, candidate, a), a.result = "OK",
           candidate' = [a.root EXCEPT !.log = Append(candidate.log, group[at])],
           job' = [job EXCEPT ![group[at]].result = "OK", ![group[at]].before = candidate,
                              ![group[at]].after = candidate'],
           UNCHANGED <<pending, group, durable, outcome, authority>>,
           at' = at + 1, pc' = "check",
           \E owners : own' = owners /\ Instructed(owners)
    PROVE  ReceiveInvariant'
<1>0. Types /\ Line /\ Logs /\ Words /\ Deeds
  BY DEF ReceiveInvariant
<1>1. at \in 1 .. Len(group) /\ Len(group) \in Nat /\ outcome = "OK" /\ ~Recorded /\ pc \in Preparing
      /\ rounds' = rounds
  <2>1. at \in 1 .. Len(group) + 1 /\ outcome = "OK" /\ at <= Len(group)
    BY <1>0 DEF Line, Preparing
  <2>2. Len(group) \in Nat
    BY <1>0, Numbers
  <2> QED BY <2>1, <2>2 DEF Recorded, Preparing, receive
<1>2. PICK id \in 1 .. Len(job) : id = group[at]
  BY <1>0, <1>1, Members
<1>3. id = Handed + at /\ job[id] \in JobRecords /\ job[id].req \in Asked /\ Speaks(job[id].req)
  BY <1>0, <1>1, <1>2, Members, RequestsSpeak
<1>4. PICK base : base = candidate
  OBVIOUS
<1>5. PICK root : root = candidate'
  OBVIOUS
<1>6. /\ Faithful(a.root) /\ Moves(job[id].req, base, a.root)
      /\ a.root \in Roots /\ base \in Roots /\ base.log \in Seq(Nat)
  <2>1. Faithful(a.root) /\ Moves(job[id].req, base, a.root)
    BY <1>2, <1>4 DEF Sound
  <2>2. base \in Roots
    BY <1>0, <1>4 DEF Types
  <2> QED BY <2>1, <2>2 DEF Faithful, Roots
<1>7. root = [a.root EXCEPT !.log = Append(base.log, id)]
  BY <1>2, <1>4, <1>5
<1>8. Append(base.log, id) \in Seq(Nat) /\ Len(Append(base.log, id)) = Len(base.log) + 1
      /\ \A i \in 1 .. Len(base.log) : Append(base.log, id)[i] = base.log[i]
      /\ Append(base.log, id)[Len(base.log) + 1] = id
  <2>1. id \in Nat
    OBVIOUS
  <2> QED BY <1>6, <2>1, AppendProperties
<1>9. /\ root \in Roots /\ root.log = Append(base.log, id) /\ root.stages = a.root.stages
      /\ root.blocks = a.root.blocks /\ Lineage(root) = Lineage(a.root)
  BY <1>6, <1>7, <1>8 DEF Roots, Lineage
<1>10. Faithful(root) /\ Moves(job[id].req, base, root)
  BY <1>6, <1>9 DEF Faithful, Moves
<1> DEFINE j == [job[id] EXCEPT !.result = "OK", !.before = base, !.after = root]
<1>11. j \in JobRecords /\ j.req = job[id].req /\ j.before = base /\ j.after = root
  <2>1. "OK" \in Results
    BY DEF Results
  <2> QED BY <1>3, <1>6, <1>9, <2>1 DEF JobRecords
<1>12. job' = [job EXCEPT ![id] = j]
  BY <1>2, <1>4, <1>5
<1> HIDE DEF j
<1>13. /\ job' \in Seq(JobRecords) /\ Len(job') = Len(job) /\ job'[id] = j
       /\ \A k \in 1 .. Len(job) : k # id => job'[k] = job[k]
  <2>1. job \in Seq(JobRecords)
    BY <1>0 DEF Types
  <2>2. /\ [job EXCEPT ![id] = j] \in Seq(JobRecords) /\ Len([job EXCEPT ![id] = j]) = Len(job)
        /\ [job EXCEPT ![id] = j][id] = j
        /\ \A k \in 1 .. Len(job) : k # id => [job EXCEPT ![id] = j][k] = job[k]
    BY <1>11, <2>1, OneJob
  <2> QED BY <1>12, <2>2
<1>14. SameRounds /\ Opened'
  BY <1>0, <1>1 DEF SameRounds, Born, Opened, Words
<1>15. Taken' = Taken /\ Handed' = Handed /\ Durable' = Durable
  BY <1>13 DEF Taken, Handed, Durable
<1>16. /\ Taken \in Nat /\ Handed \in Nat /\ Len(base.log) \in Nat
  BY <1>0, <1>4, Numbers
<1>17. PICK owners : own' = owners /\ Instructed(owners)
  OBVIOUS
<1>18. Types'
  <2>1. candidate' \in Roots /\ at' \in Nat
    BY <1>1, <1>5, <1>9
  <2>2. own' \in [Owners -> Controllers \cup {NoStage}]
    BY <1>17 DEF Instructed
  <2>3. /\ pending' \in Seq(Nat) /\ group' \in Seq(Nat) /\ durable' \in Roots
        /\ outcome' \in {"OK", "BUSY", "LIMIT", "ERROR"} /\ authority' \in Nat
        /\ rounds' \in [Owners -> RoundRecords]
    BY <1>0, <1>1 DEF Types
  <2> QED BY <1>13, <2>1, <2>2, <2>3 DEF Types
<1>19. Line'
  <2>1. at' \in 1 .. Len(group) + 1
    BY <1>1
  <2> QED BY <1>0, <1>1, <1>15, <2>1 DEF Line, Preparing
<1>20. Logs'
  <2>1. ASSUME NEW i \in 1 .. Len(Durable) PROVE Durable[i] \in 1 .. Taken /\ Durable[i] <= Handed
    BY <1>0, <1>1 DEF Logs
  <2>2. ASSUME NEW i \in 1 .. Len(root.log) PROVE root.log[i] \in 1 .. Handed + at' - 1
    <3>1. CASE i = Len(base.log) + 1
      BY <1>1, <1>3, <1>8, <1>9, <1>16, <3>1
    <3>2. CASE i \in 1 .. Len(base.log)
      <4>1. base.log[i] \in 1 .. Handed + at - 1
        BY <1>0, <1>1, <1>4, <3>2 DEF Logs
      <4>2. root.log[i] = base.log[i]
        BY <1>8, <1>9, <3>2
      <4>3. \A k \in 1 .. Handed + at - 1 : k \in 1 .. Handed + (at + 1) - 1
        BY <1>1, <1>16
      <4> QED BY <4>1, <4>2, <4>3
    <3> QED BY <1>8, <1>9, <1>16, <3>1, <3>2
  <2> QED BY <1>5, <1>15, <2>1, <2>2 DEF Logs, Preparing
<1>21. Words'
  <2>1. /\ \E r : durable' = r /\ Faithful(r)
        /\ \E r : candidate' = r /\ Faithful(r)
    BY <1>0, <1>5, <1>10 DEF Words
  <2>2. \A k \in 1 .. Len(job') : k \in 1 .. Len(job) /\ job'[k].req = job[k].req
    BY <1>11, <1>13
  <2> QED BY <1>0, <1>13, <1>14, <1>17, <2>1, <2>2, WordsKept
<1>22. ASSUME NEW k \in 1 .. Len(job), k # id, Exact(k) PROVE Exact(k)'
  <2>1. SameReceipts(k) /\ job[k].req \in Asked /\ Speaks(job[k].req)
    BY <1>0, <1>13, <1>22, RequestsSpeak DEF SameReceipts
  <2> QED BY <1>14, <1>22, <2>1, StillExact
<1>23. Exact(id)'
  BY <1>1, <1>10, <1>11, <1>13 DEF Exact, Moves, Promise
<1>24. Deeds'
  <2>1. ASSUME NEW i \in 1 .. Len(Durable) PROVE Exact(Durable[i])'
    <3>1. PICK k : k = Durable[i] /\ k \in 1 .. Len(job)
      BY <1>0, LogMembers
    <3>2. k # id /\ Exact(k)
      BY <1>0, <1>1, <1>3, <1>16, <3>1 DEF Deeds, Logs
    <3>3. Exact(k)'
      BY <1>22, <3>1, <3>2
    <3> QED BY <1>15, <3>1, <3>3 DEF Exact
  <2>2. ASSUME NEW i \in 1 .. Len(root.log) PROVE Exact(candidate.log[i])'
    <3>1. CASE i = Len(base.log) + 1
      <4>1. candidate'.log[i] = id
        BY <1>5, <1>8, <1>9, <3>1
      <4> QED BY <1>23, <4>1 DEF Exact
    <3>2. CASE i \in 1 .. Len(base.log)
      <4>1. PICK k : k = base.log[i] /\ k \in 1 .. Len(job)
        BY <1>0, <1>1, <1>4, <3>2, LogMembers
      <4>2. k \in 1 .. Handed + at - 1 /\ Exact(k)
        BY <1>0, <1>1, <1>4, <3>2, <4>1 DEF Deeds, Logs
      <4>3. k # id
        BY <1>1, <1>3, <1>16, <4>2
      <4>4. Exact(k)'
        BY <1>22, <4>1, <4>2, <4>3
      <4>5. candidate'.log[i] = k
        BY <1>5, <1>8, <1>9, <3>2, <4>1
      <4> QED BY <4>4, <4>5 DEF Exact
    <3>3. i = Len(base.log) + 1 \/ i \in 1 .. Len(base.log)
      BY <1>8, <1>9, <1>16
    <3> QED BY <3>1, <3>2, <3>3
  <2> QED BY <1>5, <1>15, <2>1, <2>2 DEF Deeds, Preparing
<1> QED BY <1>18, <1>19, <1>20, <1>21, <1>24 DEF ReceiveInvariant

LEMMA PrepareStep ==
    ASSUME ReceiveInvariant, Prepare, UNCHANGED receive
    PROVE  ReceiveInvariant'
<1>1. /\ UNCHANGED <<pending, group, durable, outcome, rounds, authority>>
      /\ pc = "prepare" /\ pc' = "check" /\ at' = at + 1
  BY DEF Prepare, receive
<1>2. at <= Len(group)
  BY <1>1 DEF ReceiveInvariant, Line
<1>3. PICK a \in Outcomes(job[group[at]].req, candidate, own, group[at]) :
         LET root == [a.root EXCEPT !.log = Append(candidate.log, group[at])]
         IN  /\ own' = IF a.result \in Negative
                       THEN Finished(job[group[at]].req, a.result, a.own) ELSE a.own
             /\ IF a.result = "OK"
                THEN /\ candidate' = root
                     /\ job' = [job EXCEPT ![group[at]].result = "OK",
                                           ![group[at]].before = candidate,
                                           ![group[at]].after = root]
                ELSE /\ job' = [job EXCEPT ![group[at]].result = a.result]
                     /\ UNCHANGED candidate
  BY DEF Prepare, StartRoot
<1>4. Sound(job[group[at]].req, candidate, a)
  <2>1. Opened /\ Instructed(own) /\ Faithful(candidate)
    BY <1>1 DEF ReceiveInvariant, Words, Preparing
  <2> QED BY <1>1, <1>2, <2>1, AtWork, OutcomeSound
<1>5. \E owners : own' = owners /\ Instructed(owners)
  <2>1. Instructed(Finished(job[group[at]].req, a.result, a.own))
    BY <1>1, <1>2, <1>4, AtWork, FinishedSound DEF Sound
  <2> QED BY <1>3, <1>4, <2>1 DEF Sound
<1>6. CASE a.result = "OK"
  BY <1>1, <1>3, <1>4, <1>5, <1>6, Joins1
<1>7. CASE a.result # "OK"
  <2>1. a.result \in Results
    BY <1>4 DEF Sound, Results, Negative
  <2> QED BY <1>1, <1>2, <1>3, <1>5, <1>7, <2>1, PassesOn
<1> QED BY <1>6, <1>7
\* The barrier marks jobs and nothing else of them.
LEMMA BarrierStep ==
    ASSUME ReceiveInvariant, Barrier, UNCHANGED receive
    PROVE  ReceiveInvariant'
<1>0. Types /\ Line
  BY DEF ReceiveInvariant
<1>1. /\ UNCHANGED <<pending, group, at, candidate, durable, own, rounds, authority>>
      /\ pc = "check" /\ outcome = "OK" /\ ~Recorded /\ at \in Nat
      /\ at' \in at .. Len(group) + 1
  <2>1. /\ UNCHANGED <<pending, group, at, candidate, durable, own, rounds, authority>> /\ pc = "check"
    BY DEF Barrier, receive
  <2>2. at \in 1 .. Len(group) + 1 /\ outcome = "OK"
    BY <1>0, <2>1 DEF Line, Preparing
  <2>3. Len(group) \in Nat
    BY <1>0, Numbers
  <2> QED BY <2>1, <2>2, <2>3 DEF Recorded
<1>2. CASE UNCHANGED job /\ pc' = "install" /\ outcome' \in {"OK", "BUSY"}
  BY <1>1, <1>2, Idles DEF Preparing
<1>3. CASE /\ job' = [id \in DOMAIN job |->
                        [job[id] EXCEPT !.committing = @ \/ \E i \in GoodJobs : group[i] = id]]
           /\ pc' = "commit" /\ UNCHANGED outcome
  <2>1. DOMAIN job = 1 .. Len(job) /\ \A id \in 1 .. Len(job) : job[id] \in JobRecords
    BY <1>0, Numbers, Members
  <2>2. ASSUME NEW id \in 1 .. Len(job)
        PROVE  job'[id] \in JobRecords /\ SameReceipts(id)
    <3>1. job'[id] = [job[id] EXCEPT !.committing = @ \/ \E i \in GoodJobs : group[i] = id]
      BY <1>3, <2>1
    <3>2. job[id] \in JobRecords
      BY <2>1
    <3>3. \A v \in BOOLEAN : /\ [job[id] EXCEPT !.committing = v] \in JobRecords
                             /\ [job[id] EXCEPT !.committing = v].req = job[id].req
                             /\ [job[id] EXCEPT !.committing = v].before = job[id].before
                             /\ [job[id] EXCEPT !.committing = v].after = job[id].after
      BY <3>2 DEF JobRecords
    <3>4. (job[id].committing \/ \E i \in GoodJobs : group[i] = id) \in BOOLEAN
      OBVIOUS
    <3> QED BY <3>1, <3>3, <3>4 DEF SameReceipts
  <2>3. job' \in [DOMAIN job -> JobRecords]
    BY <1>3, <2>1, <2>2
  <2>4. job' \in Seq(JobRecords) /\ Len(job') = Len(job)
    <3>1. job \in Seq(JobRecords)
      BY <1>0 DEF Types
    <3> QED BY <2>3, <3>1, SameJobs
  <2>5. /\ \A i \in 1 .. Len(Durable) : SameReceipts(Durable[i])
        /\ \A i \in 1 .. Len(candidate.log) : SameReceipts(candidate.log[i])
    BY <1>0, <1>1, <2>2, LogMembers DEF ReceiveInvariant, Preparing
  <2>6. \A id \in 1 .. Len(job) : job'[id].req = job[id].req
    BY <2>2 DEF SameReceipts
  <2>7. \E owners : own' = owners /\ Instructed(owners)
    BY <1>1 DEF ReceiveInvariant, Words
  <2>8. at' \in Nat /\ outcome' = "OK"
    BY <1>1, <1>3
  <2> QED BY <1>1, <1>3, <2>4, <2>5, <2>6, <2>7, <2>8, Stands DEF Preparing
<1> QED BY <1>1, <1>2, <1>3 DEF Barrier

LEMMA RefusedStep ==
    ASSUME ReceiveInvariant, BarrierFails \/ CommitFails, UNCHANGED receive
    PROVE  ReceiveInvariant'
<1>0. Types /\ Line
  BY DEF ReceiveInvariant
<1>1. /\ UNCHANGED <<pending, group, at, candidate, durable, own, job, rounds, authority>>
      /\ pc \in Preparing /\ pc' = "install" /\ outcome' \in {"LIMIT", "ERROR"}
  BY DEF BarrierFails, CommitFails, receive, Preparing
<1>2. at' \in Nat /\ ~Recorded
  BY <1>0, <1>1 DEF Types, Recorded, Preparing
<1> QED BY <1>1, <1>2, Idles DEF Preparing

\* The candidate is the store.
LEMMA CommitStep ==
    ASSUME ReceiveInvariant, Commit, UNCHANGED receive
    PROVE  ReceiveInvariant'
<1>0. Types /\ Line /\ Logs /\ Words /\ Deeds
  BY DEF ReceiveInvariant
<1>1. /\ UNCHANGED <<pending, group, at, candidate, own, job, rounds, authority, outcome>>
      /\ pc = "commit" /\ pc' = "install" /\ durable' = candidate /\ pc \in Preparing
  BY DEF Commit, receive, Preparing
<1>2. /\ outcome = "OK" /\ at \in 1 .. Len(group) + 1
      /\ Taken \in Nat /\ Handed \in Nat /\ Len(group) \in Nat /\ Taken = Handed + Len(group)
  BY <1>0, <1>1, Numbers DEF Line
<1>3. Taken' = Taken /\ Handed' = Handed /\ Durable' = candidate.log
  BY <1>1 DEF Taken, Handed, Durable
<1>4. SameRounds /\ Opened' /\ \A id : SameReceipts(id)
  BY <1>0, <1>1 DEF SameRounds, Born, Opened, Words, SameReceipts
<1>5. Types'
  BY <1>0, <1>1 DEF Types
<1>6. Line'
  BY <1>0, <1>1, <1>3 DEF Line, Preparing
<1>7. Logs'
  <2>1. Recorded'
    BY <1>1, <1>2 DEF Recorded
  <2>2. ASSUME NEW i \in 1 .. Len(candidate.log) PROVE candidate.log[i] \in 1 .. Taken
    <3>1. candidate.log[i] \in 1 .. Handed + at - 1
      BY <1>0, <1>1 DEF Logs
    <3> QED BY <1>2, <3>1
  <2> QED BY <1>1, <1>3, <2>1, <2>2 DEF Logs, Preparing
<1>8. Words'
  <2>1. /\ \E owners : own' = owners /\ Instructed(owners)
        /\ \E root : durable' = root /\ Faithful(root)
        /\ pc' \notin Preparing
    BY <1>0, <1>1 DEF Words, Preparing
  <2>2. job' \in Seq(JobRecords) /\ \A id \in 1 .. Len(job') : id \in 1 .. Len(job) /\ job'[id].req = job[id].req
    BY <1>0, <1>1 DEF Types
  <2> QED BY <1>0, <1>4, <2>1, <2>2, WordsKept
<1>9. Deeds'
  <2>1. ASSUME NEW i \in 1 .. Len(candidate.log) PROVE Exact(Durable[i])'
    <3>1. PICK id : id = candidate.log[i] /\ id \in 1 .. Len(job)
      BY <1>0, <1>1, LogMembers
    <3>2. Exact(id) /\ job[id].req \in Asked /\ Speaks(job[id].req)
      BY <1>0, <1>1, <3>1, RequestsSpeak DEF Deeds
    <3>3. Exact(id)'
      BY <1>4, <3>2, StillExact
    <3> QED BY <1>3, <3>1, <3>3 DEF Exact
  <2> QED BY <1>1, <1>3, <2>1 DEF Deeds, Preparing
<1> QED BY <1>5, <1>6, <1>7, <1>8, <1>9 DEF ReceiveInvariant

\* The receipts of a group that was turned away are taken back; none of it is in the log.
LEMMA InstallStep ==
    ASSUME ReceiveInvariant, Install, UNCHANGED receive
    PROVE  ReceiveInvariant'
<1>0. Types /\ Line
  BY DEF ReceiveInvariant
<1> DEFINE good == {group[i] : i \in GoodJobs}
<1>1. /\ UNCHANGED <<pending, group, at, outcome, candidate, durable, own, rounds, authority>>
      /\ pc = "install" /\ pc' = "complete"
      /\ job' = [id \in DOMAIN job |->
                    IF id \notin good \/ outcome = "OK" THEN job[id]
                    ELSE [job[id] EXCEPT !.result = outcome, !.before = EmptyRoot, !.after = EmptyRoot]]
  BY DEF Install, writer, receive
<1>2. DOMAIN job = 1 .. Len(job) /\ \A id \in 1 .. Len(job) : job[id] \in JobRecords
  BY <1>0, Numbers, Members
<1>3. EmptyRoot \in Roots
  <2>1. <<>> \in Seq(Nat)
    OBVIOUS
  <2> QED BY <2>1 DEF EmptyRoot, Roots
<1>4. \A id \in good : id \in Handed + 1 .. Taken
  <2>1. GoodJobs \subseteq 1 .. Len(group)
    BY DEF GoodJobs
  <2>2. \A i \in 1 .. Len(group) : group[i] = Handed + i
    BY <1>0, Members
  <2>3. Handed \in Nat /\ Len(group) \in Nat /\ Taken = Handed + Len(group)
    BY <1>0, Numbers
  <2> QED BY <2>1, <2>2, <2>3
<1>5. ASSUME NEW id \in 1 .. Len(job)
      PROVE  /\ job'[id] \in JobRecords /\ job'[id].req = job[id].req
             /\ id \notin good \/ outcome = "OK" => job'[id] = job[id]
  <2>1. CASE id \notin good \/ outcome = "OK"
    BY <1>1, <1>2, <2>1
  <2>2. CASE ~(id \notin good \/ outcome = "OK")
    <3>1. job'[id] = [job[id] EXCEPT !.result = outcome, !.before = EmptyRoot, !.after = EmptyRoot]
      BY <1>1, <1>2, <2>2
    <3>2. outcome \in Results
      BY <1>0 DEF Types, Results, Negative
    <3>3. job[id] \in JobRecords
      BY <1>2
    <3>4. [job[id] EXCEPT !.result = outcome, !.before = EmptyRoot, !.after = EmptyRoot] \in JobRecords
      BY <1>3, <3>2, <3>3 DEF JobRecords
    <3> QED BY <2>2, <3>1, <3>3, <3>4 DEF JobRecords
  <2> QED BY <2>1, <2>2
<1> HIDE DEF good
<1>6. job' \in Seq(JobRecords) /\ Len(job') = Len(job)
  <2>1. job' \in [DOMAIN job -> JobRecords]
    BY <1>1, <1>2, <1>5
  <2>2. job \in Seq(JobRecords)
    BY <1>0 DEF Types
  <2> QED BY <2>1, <2>2, SameJobs
<1>7. ASSUME NEW i \in 1 .. Len(Durable) PROVE SameReceipts(Durable[i])
  <2>1. PICK id : id = Durable[i] /\ id \in 1 .. Len(job)
    BY <1>0, LogMembers DEF ReceiveInvariant
  <2>2. outcome # "OK" => id <= Handed
    BY <1>1, <2>1 DEF ReceiveInvariant, Logs, Recorded
  <2>3. id \notin good \/ outcome = "OK"
    <3>1. Handed \in Nat /\ Taken \in Nat
      BY <1>0, Numbers
    <3> QED BY <1>4, <2>1, <2>2, <3>1
  <2>4. job'[id] = job[id]
    BY <1>5, <2>1, <2>3
  <2> QED BY <2>1, <2>4 DEF SameReceipts
<1>8. \E owners : own' = owners /\ Instructed(owners)
  BY <1>1 DEF ReceiveInvariant, Words
<1>9. at' \in Nat /\ outcome' \in {"OK", "BUSY", "LIMIT", "ERROR"} /\ (Recorded => Recorded')
  BY <1>0, <1>1 DEF Types, Recorded
<1> QED BY <1>1, <1>5, <1>6, <1>7, <1>8, <1>9, Stands DEF Preparing

LEMMA SettledSound ==
    ASSUME ReceiveInvariant
    PROVE  Instructed(Settled)
<1>0. Types /\ Line /\ Words
  BY DEF ReceiveInvariant
<1>1. Instructed(own)
  BY <1>0 DEF Words
<1>2. ASSUME NEW id \in ToSet(group) PROVE Instructed(Finished(job[id].req, job[id].result, own))
  <2>1. PICK i \in 1 .. Len(group) : group[i] = id
    <3>1. group \in Seq(Nat)
      BY <1>0 DEF Types
    <3> QED BY <3>1 DEF ToSet
  <2>2. id \in 1 .. Len(job)
    BY <1>0, <2>1, Members
  <2>3. job[id].req \in Asked
    BY <1>0, <2>2, RequestsSpeak
  <2> QED BY <1>1, <2>3, FinishedSound
<1>3. ASSUME NEW o \in Owners PROVE Settled[o] = NoStage \/ ControllerOf(o, Settled[o])
  <2> DEFINE ends == {Finished(job[id].req, job[id].result, own)[o] : id \in ToSet(group)} \ {own[o]}
  <2>1. Settled[o] = IF NoStage \in ends THEN NoStage
                     ELSE IF ends = {} THEN own[o] ELSE CHOOSE c \in ends : TRUE
    BY DEF Settled
  <2>2. \A c \in ends : c = NoStage \/ ControllerOf(o, c)
    BY <1>2 DEF Instructed
  <2>3. own[o] = NoStage \/ ControllerOf(o, own[o])
    BY <1>1 DEF Instructed
  <2> HIDE DEF ends
  <2>4. ends # {} => (CHOOSE c \in ends : TRUE) \in ends
    OBVIOUS
  <2> QED BY <2>1, <2>2, <2>3, <2>4
<1>4. Settled = [o \in Owners |-> Settled[o]]
  BY DEF Settled
<1>5. Settled \in [Owners -> Controllers \cup {NoStage}]
  <2>1. \A o \in Owners : Settled[o] \in Controllers \cup {NoStage}
    BY <1>3 DEF ControllerOf
  <2> QED BY <1>4, <2>1
<1> QED BY <1>3, <1>5 DEF Instructed

LEMMA CompleteStep ==
    ASSUME ReceiveInvariant, Complete \/ CompleteFails, UNCHANGED receive
    PROVE  ReceiveInvariant'
<1>0. Types /\ Line /\ Logs /\ Words /\ Deeds
  BY DEF ReceiveInvariant
<1>1. /\ UNCHANGED <<pending, durable, job, rounds, authority>>
      /\ own' = Settled /\ group' = <<>> /\ candidate' = durable
      /\ at' = 1 /\ outcome' = "OK" /\ pc' = "wait"
  BY DEF Complete, CompleteFails, receive
<1>2. PICK owners : own' = owners /\ Instructed(owners)
  BY <1>1, SettledSound
<1>3. /\ Taken \in Nat /\ Handed \in Nat /\ Len(group) \in Nat
      /\ group' \in Seq(Nat) /\ Len(group') = 0
  <2>1. <<>> \in Seq(Nat) /\ Len(<<>>) = 0
    OBVIOUS
  <2> QED BY <1>0, <1>1, <2>1, Numbers
<1>4. Taken' = Taken /\ Handed' = Taken /\ Durable' = Durable
  <2>1. Taken' = Taken /\ Durable' = Durable
    BY <1>1 DEF Taken, Durable
  <2>2. Handed' = Taken
    BY <1>3, <2>1 DEF Handed
  <2> QED BY <2>1, <2>2
<1>5. SameRounds /\ Opened' /\ \A id : SameReceipts(id)
  BY <1>0, <1>1 DEF SameRounds, Born, Opened, Words, SameReceipts
<1>6. Types'
  BY <1>0, <1>1, <1>2, <1>3 DEF Types, Instructed
<1>7. Line'
  BY <1>0, <1>1, <1>3, <1>4 DEF Line, Preparing
<1>8. Logs'
  <2>1. ASSUME NEW i \in 1 .. Len(Durable) PROVE Durable[i] \in 1 .. Taken /\ Durable[i] <= Taken
    BY <1>0, <1>3 DEF Logs
  <2> QED BY <1>1, <1>4, <2>1 DEF Logs, Preparing
<1>9. Words'
  <2>1. /\ \E root : durable' = root /\ Faithful(root)
        /\ pc' \notin Preparing
    BY <1>0, <1>1 DEF Words, Preparing
  <2>2. job' \in Seq(JobRecords) /\ \A id \in 1 .. Len(job') : id \in 1 .. Len(job) /\ job'[id].req = job[id].req
    BY <1>0, <1>1 DEF Types
  <2> QED BY <1>0, <1>2, <1>5, <2>1, <2>2, WordsKept
<1>10. Deeds'
  <2>1. ASSUME NEW i \in 1 .. Len(Durable) PROVE Exact(Durable[i])'
    <3>1. PICK id : id = Durable[i] /\ id \in 1 .. Len(job)
      BY <1>0, LogMembers
    <3>2. Exact(id) /\ job[id].req \in Asked /\ Speaks(job[id].req)
      BY <1>0, <3>1, RequestsSpeak DEF Deeds
    <3>3. Exact(id)'
      BY <1>5, <3>2, StillExact
    <3> QED BY <1>4, <3>1, <3>3 DEF Exact
  <2> QED BY <1>1, <1>4, <2>1 DEF Deeds, Preparing
<1> QED BY <1>6, <1>7, <1>8, <1>9, <1>10 DEF ReceiveInvariant
LEMMA TakeStep ==
    ASSUME ReceiveInvariant, Take, UNCHANGED receive
    PROVE  ReceiveInvariant'
<1>0. Types /\ Line /\ Logs /\ Words /\ Deeds
  BY DEF ReceiveInvariant
<1>1. /\ UNCHANGED <<durable, own, job, rounds, authority>>
      /\ candidate' = durable /\ at' = 1 /\ outcome' = "OK" /\ pc = "wait" /\ pc' = "check" /\ pending # <<>>
  BY DEF Take, receive
<1>2. PICK n \in 1 .. Len(pending) :
         group' = SubSeq(pending, 1, n) /\ pending' = SubSeq(pending, n + 1, Len(pending))
  <2> DEFINE n == IF Len(pending) < GroupMax THEN Len(pending) ELSE GroupMax
  <2>1. Len(pending) \in Nat \ {0}
    <3>1. pending \in Seq(Nat)
      BY <1>0 DEF Types
    <3> QED BY <1>1, <3>1, EmptySeq
  <2>2. GroupMax \in Nat \ {0}
    BY WriterAssumption
  <2>3. n \in 1 .. Len(pending)
    BY <2>1, <2>2
  <2>4. group' = SubSeq(pending, 1, n) /\ pending' = SubSeq(pending, n + 1, Len(pending))
    BY DEF Take
  <2> QED BY <2>3, <2>4
<1>3. /\ \A i \in 1 .. Len(pending) : pending[i] \in Nat
      /\ Len(pending) \in Nat /\ n \in Nat /\ pending \in Seq(Nat)
  BY <1>0, LenProperties, ElementOfSeq DEF Types
<1>4. /\ group' \in Seq(Nat) /\ Len(group') = n
      /\ \A i \in 1 .. n : group'[i] = pending[i]
  BY <1>2, <1>3, SubSeqProperties
<1>5. /\ pending' \in Seq(Nat) /\ Len(pending') = Len(pending) - n
      /\ \A i \in 1 .. Len(pending) - n : pending'[i] = pending[n + i]
  BY <1>2, <1>3, SubSeqProperties
<1>6. Handed = Taken /\ Taken \in Nat
  <2>1. group = <<>> /\ Len(<<>>) = 0
    BY <1>0, <1>1 DEF Line
  <2> QED BY <1>0, <2>1, Numbers
<1>7. Taken' = Taken + n /\ Handed' = Handed /\ Durable' = Durable
  <2>1. Taken' = Taken + n /\ Durable' = Durable
    BY <1>0, <1>1, <1>3, <1>5, Numbers DEF Taken, Durable
  <2> QED BY <1>3, <1>4, <1>6, <2>1 DEF Handed
<1>8. SameRounds /\ Opened' /\ \A id : SameReceipts(id)
  BY <1>0, <1>1 DEF SameRounds, Born, Opened, Words, SameReceipts
<1>9. Types'
  BY <1>0, <1>1, <1>4, <1>5 DEF Types
<1>10. Line'
  <2>1. ASSUME NEW i \in 1 .. Len(pending') PROVE pending'[i] = Taken' + i
    <3>1. n + i \in 1 .. Len(pending) /\ i \in 1 .. Len(pending) - n /\ i \in Nat
      BY <1>3, <1>5
    <3>2. pending'[i] = Taken + (n + i)
      BY <1>0, <1>5, <3>1 DEF Line
    <3> QED BY <1>3, <1>6, <1>7, <3>1, <3>2
  <2>2. ASSUME NEW i \in 1 .. Len(group') PROVE group'[i] = Handed' + i
    <3>1. i \in 1 .. Len(pending) /\ i \in 1 .. n
      BY <1>3, <1>4
    <3> QED BY <1>0, <1>4, <1>6, <1>7, <3>1 DEF Line
  <2>3. at' \in 1 .. Len(group') + 1
    BY <1>1, <1>3, <1>4
  <2> QED BY <1>0, <1>1, <1>7, <2>1, <2>2, <2>3 DEF Line, Preparing
<1>11. /\ ~Recorded /\ \A i \in 1 .. Len(Durable) : Durable[i] \in 1 .. Taken /\ Durable[i] <= Handed
  BY <1>0, <1>1 DEF Logs, Recorded
<1>12. Logs'
  <2>1. ASSUME NEW i \in 1 .. Len(Durable)
        PROVE  Durable[i] \in 1 .. Taken + n /\ Durable[i] <= Handed /\ Durable[i] \in 1 .. Handed + 1 - 1
    BY <1>3, <1>6, <1>11
  <2>2. candidate'.log = Durable
    BY <1>1 DEF Durable
  <2> QED BY <1>1, <1>7, <2>1, <2>2 DEF Logs
<1>13. Words'
  <2>1. /\ \E owners : own' = owners /\ Instructed(owners)
        /\ \E root : durable' = root /\ Faithful(root)
        /\ \E root : candidate' = root /\ Faithful(root)
    BY <1>0, <1>1 DEF Words
  <2>2. job' \in Seq(JobRecords) /\ \A id \in 1 .. Len(job') : id \in 1 .. Len(job) /\ job'[id].req = job[id].req
    BY <1>0, <1>1 DEF Types
  <2> QED BY <1>0, <1>8, <2>1, <2>2, WordsKept
<1>14. Deeds'
  <2>1. ASSUME NEW i \in 1 .. Len(Durable) PROVE Exact(Durable[i])'
    <3>1. PICK id : id = Durable[i] /\ id \in 1 .. Len(job)
      BY <1>0, LogMembers
    <3>2. Exact(id) /\ job[id].req \in Asked /\ Speaks(job[id].req)
      BY <1>0, <3>1, RequestsSpeak DEF Deeds
    <3>3. Exact(id)'
      BY <1>8, <3>2, StillExact
    <3> QED BY <1>7, <3>1, <3>3 DEF Exact
  <2>2. candidate'.log = Durable
    BY <1>1 DEF Durable
  <2>3. ASSUME NEW i \in 1 .. Len(Durable) PROVE Exact(candidate.log[i])'
    BY <1>7, <2>1, <2>2 DEF Exact
  <2> QED BY <1>7, <2>1, <2>2, <2>3 DEF Deeds
<1> QED BY <1>9, <1>10, <1>12, <1>13, <1>14 DEF ReceiveInvariant

LEMMA WriterSteps ==
    ASSUME ReceiveInvariant, Works \/ Breaks, UNCHANGED receive
    PROVE  ReceiveInvariant'
BY TakeStep, EndStep, CheckStep, ContinueStep, PrepareStep, BarrierStep, CommitStep, InstallStep,
   CompleteStep, PrepareFailsStep, RefusedStep DEF Works, Breaks

-----------------------------------------------------------------------------
(* The main thread.                                                           *)

\* It adds to the jobs and cancels them, and moves the rounds; the rest is the writer's.
LEMMA MainKeeps ==
    ASSUME ReceiveInvariant, UNCHANGED <<pc, group, at, candidate, outcome, durable, own>>,
           rounds' \in [Owners -> RoundRecords], SameRounds, Opened', authority' \in Nat,
           job' \in Seq(JobRecords), \A id \in 1 .. Len(job) : SameReceipts(id),
           NEW n \in Nat, Len(job') = Len(job) + n,
           \A id \in Len(job) + 1 .. Len(job') : Speaks(job[id].req)',
           pending' \in Seq(Nat), Len(pending') = Len(pending) + n,
           \A i \in 1 .. Len(pending) : pending'[i] = pending[i],
           \A i \in 1 .. n : pending'[Len(pending) + i] = Len(job) + i
    PROVE  ReceiveInvariant'
<1>0. Types /\ Line /\ Logs /\ Words /\ Deeds
  BY DEF ReceiveInvariant
<1>1. /\ Len(job) \in Nat /\ Len(pending) \in Nat /\ Len(group) \in Nat /\ Taken \in Nat /\ Handed \in Nat
      /\ Len(job) = Taken + Len(pending)
  BY <1>0, Numbers
<1>2. Taken' = Taken /\ Handed' = Handed /\ Durable' = Durable /\ (Recorded' <=> Recorded)
  <2>1. Taken' = Taken
    BY <1>1 DEF Taken
  <2> QED BY <2>1 DEF Handed, Durable, Recorded
<1>3. Types'
  BY <1>0 DEF Types
<1>4. Line'
  <2>1. ASSUME NEW i \in 1 .. Len(pending') PROVE pending'[i] = Taken + i
    <3>1. CASE i \in 1 .. Len(pending)
      BY <1>0, <3>1 DEF Line
    <3>2. CASE i \notin 1 .. Len(pending)
      <4>1. PICK k \in 1 .. n : i = Len(pending) + k
        <5>1. i - Len(pending) \in 1 .. n /\ i = Len(pending) + (i - Len(pending))
          BY <1>1, <3>2
        <5> QED BY <5>1
      <4> QED BY <1>1, <4>1
    <3> QED BY <3>1, <3>2
  <2> QED BY <1>0, <1>2, <2>1 DEF Line, Preparing
<1>5. Logs'
  BY <1>0, <1>2 DEF Logs, Preparing
<1>6. Words'
  <2>1. /\ \E owners : own' = owners /\ Instructed(owners)
        /\ \E root : durable' = root /\ Faithful(root)
        /\ pc' \in Preparing => \E root : candidate' = root /\ Faithful(root)
    BY <1>0 DEF Words
  <2>2. ASSUME NEW id \in 1 .. Len(job')
        PROVE  Speaks(job[id].req)' \/ (id \in 1 .. Len(job) /\ job'[id].req = job[id].req)
    <3>1. id \in 1 .. Len(job) \/ id \in Len(job) + 1 .. Len(job')
      BY <1>1
    <3>2. CASE id \in 1 .. Len(job)
      BY <3>2 DEF SameReceipts
    <3>3. CASE id \in Len(job) + 1 .. Len(job')
      BY <3>3
    <3> QED BY <3>1, <3>2, <3>3
  <2> QED BY <1>0, <2>1, <2>2, WordsKept
<1>7. ASSUME NEW id \in 1 .. Len(job), Exact(id) PROVE Exact(id)'
  <2>1. job[id].req \in Asked /\ Speaks(job[id].req)
    BY <1>0, RequestsSpeak
  <2> QED BY <1>7, <2>1, StillExact
<1>8. Deeds'
  <2>1. ASSUME NEW i \in 1 .. Len(Durable) PROVE Exact(Durable[i])'
    <3>1. PICK id : id = Durable[i] /\ id \in 1 .. Len(job)
      BY <1>0, LogMembers
    <3>2. Exact(id)'
      BY <1>0, <1>7, <3>1 DEF Deeds
    <3> QED BY <1>2, <3>1, <3>2 DEF Exact
  <2>2. ASSUME pc \in Preparing, NEW i \in 1 .. Len(candidate.log) PROVE Exact(candidate.log[i])'
    <3>1. PICK id : id = candidate.log[i] /\ id \in 1 .. Len(job)
      BY <1>0, <2>2, LogMembers
    <3>2. Exact(id)'
      BY <1>0, <1>7, <2>2, <3>1 DEF Deeds
    <3> QED BY <3>1, <3>2 DEF Exact
  <2> QED BY <1>2, <2>1, <2>2 DEF Deeds, Preparing
<1> QED BY <1>3, <1>4, <1>5, <1>6, <1>8 DEF ReceiveInvariant

\* Jobs of which at most a flag is another.
Alike(js) ==
    /\ js \in Seq(JobRecords) /\ Len(js) = Len(job)
    /\ \A id \in 1 .. Len(job) :
          js[id].req = job[id].req /\ js[id].before = job[id].before /\ js[id].after = job[id].after

\* Rounds that keep their announcement, the unborn ones unborn.
Keeping(rs) ==
    /\ rs \in [Owners -> RoundRecords]
    /\ \A o \in Owners : /\ rs[o].wire = rounds[o].wire
                         /\ rs[o].phase = "unborn" <=> rounds[o].phase = "unborn"

LEMMA SameAlike == ASSUME Types PROVE Alike(job) /\ Keeping(rounds)
BY DEF Types, Alike, Keeping

LEMMA CancelledAlike ==
    ASSUME Types, Line, NEW ids
    PROVE  Alike(Cancelled(ids))
<1>1. DOMAIN job = 1 .. Len(job) /\ \A id \in 1 .. Len(job) : job[id] \in JobRecords
  BY Numbers, Members
<1>2. ASSUME NEW id \in 1 .. Len(job)
      PROVE  /\ Cancelled(ids)[id] \in JobRecords /\ Cancelled(ids)[id].req = job[id].req
             /\ Cancelled(ids)[id].before = job[id].before /\ Cancelled(ids)[id].after = job[id].after
  <2>1. Cancelled(ids)[id] \in {job[id], [job[id] EXCEPT !.cancelled = TRUE]}
    BY <1>1 DEF Cancelled
  <2>2. job[id] \in JobRecords
    BY <1>1
  <2> QED BY <2>1, <2>2 DEF JobRecords
<1>3. Cancelled(ids) \in [DOMAIN job -> JobRecords]
  <2>1. Cancelled(ids) = [id \in DOMAIN job |-> Cancelled(ids)[id]]
    BY DEF Cancelled
  <2> QED BY <1>1, <1>2, <2>1
<1>4. Cancelled(ids) \in Seq(JobRecords) /\ Len(Cancelled(ids)) = Len(job)
  <2>1. job \in Seq(JobRecords)
    BY DEF Types
  <2> QED BY <1>3, <2>1, SameJobs
<1> QED BY <1>2, <1>4 DEF Alike

LEMMA OneKeeps ==
    ASSUME NEW rs, Keeping(rs), NEW o \in Owners, NEW x \in RoundRecords,
           x.wire = rounds[o].wire, x.phase = "unborn" <=> rounds[o].phase = "unborn"
    PROVE  Keeping([rs EXCEPT ![o] = x])
<1>1. rs \in [Owners -> RoundRecords]
  BY DEF Keeping
<1>2. [rs EXCEPT ![o] = x] \in [Owners -> RoundRecords]
  BY <1>1
<1>3. ASSUME NEW p \in Owners
      PROVE  /\ [rs EXCEPT ![o] = x][p].wire = rounds[p].wire
             /\ [rs EXCEPT ![o] = x][p].phase = "unborn" <=> rounds[p].phase = "unborn"
  BY <1>1 DEF Keeping
<1> QED BY <1>2, <1>3 DEF Keeping

LEMMA AbandonedKeeps == ASSUME Types PROVE Keeping(Abandoned)
<1>1. rounds \in [Owners -> RoundRecords]
  BY DEF Types
<1>2. ASSUME NEW o \in Owners
      PROVE  /\ Abandoned[o] \in RoundRecords /\ Abandoned[o].wire = rounds[o].wire
             /\ Abandoned[o].phase = "unborn" <=> rounds[o].phase = "unborn"
  <2>1. rounds[o] \in RoundRecords /\ Abandoned[o] = IF Active(o) THEN [rounds[o] EXCEPT !.phase = "abandoned"]
                                                      ELSE rounds[o]
    BY <1>1 DEF Abandoned
  <2>2. "abandoned" \in Phases
    BY DEF Phases
  <2> QED BY <2>1, <2>2 DEF Active, RoundRecords
<1>3. Abandoned = [o \in Owners |-> Abandoned[o]]
  BY DEF Abandoned
<1> QED BY <1>2, <1>3 DEF Keeping

\* What every step of the main thread leaves alone, and what it does to the rounds.
Beside ==
    /\ UNCHANGED <<pc, writer>> /\ authority' \in Nat
    /\ rounds' \in [Owners -> RoundRecords] /\ SameRounds /\ Opened'

LEMMA KeepingRounds ==
    ASSUME Opened, \E rs : rounds' = rs /\ Keeping(rs)
    PROVE  rounds' \in [Owners -> RoundRecords] /\ SameRounds /\ Opened'
<1>1. PICK rs : rounds' = rs /\ Keeping(rs)
  OBVIOUS
<1>2. \A o \in Owners : rounds'[o].wire = rounds[o].wire /\ (Born(o)' <=> Born(o))
  BY <1>1 DEF Keeping, Born
<1>3. rounds' \in [Owners -> RoundRecords]
  BY <1>1 DEF Keeping
<1>4. SameRounds
  BY <1>2 DEF SameRounds
<1>5. Opened'
  BY <1>2 DEF Opened
<1> QED BY <1>3, <1>4, <1>5

\* A step that submits nothing.
LEMMA Quits ==
    ASSUME ReceiveInvariant, Beside, UNCHANGED pending, \E js : job' = js /\ Alike(js)
    PROVE  ReceiveInvariant'
<1>1. PICK js : job' = js /\ Alike(js)
  OBVIOUS
<1>2. /\ job' \in Seq(JobRecords) /\ Len(job') = Len(job) + 0 /\ Len(job) \in Nat
      /\ \A id \in 1 .. Len(job) : SameReceipts(id)
  <2>1. Len(job) \in Nat
    BY Numbers DEF ReceiveInvariant
  <2>2. \A id \in 1 .. Len(job) : SameReceipts(id)
    BY <1>1 DEF Alike, SameReceipts
  <2> QED BY <1>1, <2>1, <2>2 DEF Alike
<1>3. /\ pending' \in Seq(Nat) /\ Len(pending') = Len(pending) + 0
      /\ \A i \in 1 .. Len(pending) : pending'[i] = pending[i]
  <2>1. Len(pending) \in Nat /\ pending \in Seq(Nat)
    BY Numbers DEF ReceiveInvariant, Types
  <2> QED BY <2>1
<1>4. /\ \A id \in Len(job) + 1 .. Len(job') : Speaks(job[id].req)'
      /\ \A i \in 1 .. 0 : pending'[Len(pending) + i] = Len(job) + i
  BY <1>2
<1>5. /\ UNCHANGED <<pc, group, at, candidate, outcome, durable, own>>
      /\ rounds' \in [Owners -> RoundRecords] /\ SameRounds /\ Opened' /\ authority' \in Nat
  BY DEF Beside, writer
<1>6. 0 \in Nat
  OBVIOUS
<1> QED BY <1>2, <1>3, <1>4, <1>5, <1>6, MainKeeps

\* A step that submits one job.
LEMMA Submits ==
    ASSUME ReceiveInvariant, Beside, pending' = Append(pending, Len(job) + 1),
           \E js, r, rev : /\ Alike(js) /\ r \in Asked /\ rev \in Nat
                           /\ job' = Append(js, NewJob(r, rev)) /\ Speaks(r)'
    PROVE  ReceiveInvariant'
<1>1. PICK js, r, rev : /\ Alike(js) /\ r \in Asked /\ rev \in Nat
                        /\ job' = Append(js, NewJob(r, rev)) /\ Speaks(r)'
  OBVIOUS
<1> DEFINE new == NewJob(r, rev)
<1>2. new \in JobRecords /\ new.req = r
  BY <1>1, NewJobType
<1>3. Len(job) \in Nat /\ Len(pending) \in Nat /\ pending \in Seq(Nat)
  BY Numbers DEF ReceiveInvariant, Types
<1>4. /\ job' \in Seq(JobRecords) /\ Len(job') = Len(job) + 1 /\ job'[Len(job) + 1] = new
      /\ \A id \in 1 .. Len(job) : job'[id] = js[id]
  <2>1. js \in Seq(JobRecords) /\ Len(js) = Len(job)
    BY <1>1 DEF Alike
  <2> HIDE DEF new
  <2>2. /\ Append(js, new) \in Seq(JobRecords) /\ Len(Append(js, new)) = Len(js) + 1
        /\ (\A id \in 1 .. Len(js) : Append(js, new)[id] = js[id]) /\ Append(js, new)[Len(js) + 1] = new
    BY <1>2, <2>1, AppendProperties
  <2>3. job' = Append(js, new)
    BY <1>1 DEF new
  <2> QED BY <2>1, <2>2, <2>3
<1>5. \A id \in 1 .. Len(job) : SameReceipts(id)
  BY <1>1, <1>4 DEF Alike, SameReceipts
<1>6. /\ pending' \in Seq(Nat) /\ Len(pending') = Len(pending) + 1 /\ pending'[Len(pending) + 1] = Len(job) + 1
      /\ \A i \in 1 .. Len(pending) : pending'[i] = pending[i]
  <2>1. Len(job) + 1 \in Nat
    BY <1>3
  <2> QED BY <1>3, <2>1, AppendProperties
<1>7. \A id \in Len(job) + 1 .. Len(job') : Speaks(job[id].req)'
  <2>1. ASSUME NEW id \in Len(job) + 1 .. Len(job') PROVE Speaks(job[id].req)'
    <3>1. id = Len(job) + 1
      BY <1>3, <1>4
    <3>2. job'[id].req = r
      BY <1>2, <1>4, <3>1
    <3> QED BY <1>1, <3>2 DEF Speaks, Promise, Born
  <2> QED BY <2>1
<1>8. \A i \in 1 .. 1 : pending'[Len(pending) + i] = Len(job) + i
  BY <1>6
<1>9. /\ UNCHANGED <<pc, group, at, candidate, outcome, durable, own>>
      /\ rounds' \in [Owners -> RoundRecords] /\ SameRounds /\ Opened' /\ authority' \in Nat
  BY DEF Beside, writer
<1>10. 1 \in Nat
  OBVIOUS
<1> QED BY <1>4, <1>5, <1>6, <1>7, <1>8, <1>9, <1>10, MainKeeps

\* What a round asks for, it says in the words of its announcement.
LEMMA Asks ==
    ASSUME NEW o \in Owners, NEW w \in DOMAIN Announced, NEW kind, NEW b,
           \/ kind \in {"BEGIN", "PUT", "END", "REUSE"} /\ b \in Blocks
           \/ kind \in {"PROMOTE", "ABORT"} /\ b = SomeBlock
    PROVE  /\ Req(kind, o, w, b) \in Asked
           /\ (Born(o)' /\ rounds'[o].wire = w => Speaks(Req(kind, o, w, b))')
<1> DEFINE r == Req(kind, o, w, b)
<1>1. r \in Asked
  BY DEF Asked
<1>2. ASSUME Born(o)', rounds'[o].wire = w PROVE Speaks(r)'
  <2>1. /\ r.owner = o /\ r.kind = kind /\ r.block = b /\ Lineage(r) = Lineage(Announced[w])
        /\ r.digest = Announced[w].blocks[b].digest
    BY DEF Req, Lineage
  <2> QED BY <1>2, <2>1 DEF Speaks, Promise
<1> QED BY <1>1, <1>2

\* A round changes in one place.
LEMMA OtherStep ==
    ASSUME NEW x \in RoundRecords, NEW b \in Blocks, NEW s \in Steps
    PROVE  /\ [x EXCEPT !.step[b] = s] \in RoundRecords
           /\ [x EXCEPT !.step[b] = s].wire = x.wire /\ [x EXCEPT !.step[b] = s].phase = x.phase
<1> DEFINE step == [x.step EXCEPT ![b] = s]
<1>1. step \in [Blocks -> Steps]
  BY DEF RoundRecords
<1>2. [x EXCEPT !.step[b] = s] = [x EXCEPT !.step = step]
  OBVIOUS
<1> HIDE DEF step
<1> QED BY <1>1, <1>2 DEF RoundRecords

LEMMA OtherPuts ==
    ASSUME NEW x \in RoundRecords, NEW b \in Blocks
    PROVE  /\ [x EXCEPT !.puts[b] = @ + 1] \in RoundRecords
           /\ [x EXCEPT !.puts[b] = @ + 1].wire = x.wire /\ [x EXCEPT !.puts[b] = @ + 1].phase = x.phase
<1> DEFINE puts == [x.puts EXCEPT ![b] = @ + 1]
<1>1. puts \in [Blocks -> Nat]
  BY DEF RoundRecords
<1>2. [x EXCEPT !.puts[b] = @ + 1] = [x EXCEPT !.puts = puts]
  OBVIOUS
<1> HIDE DEF puts
<1> QED BY <1>1, <1>2 DEF RoundRecords

LEMMA Rounds ==
    ASSUME ReceiveInvariant
    PROVE  /\ Types /\ Line /\ Opened /\ authority \in Nat /\ Len(job) + 1 \in Nat
           /\ rounds \in [Owners -> RoundRecords]
           /\ \A o \in Owners : rounds[o] \in RoundRecords /\ rounds[o].rev \in Nat
           /\ \A o \in Owners : Born(o) => rounds[o].wire \in DOMAIN Announced
<1>1. Types /\ Line /\ Opened
  BY DEF ReceiveInvariant, Words
<1>2. rounds \in [Owners -> RoundRecords] /\ authority \in Nat
  BY <1>1 DEF Types
<1>3. Len(job) + 1 \in Nat
  BY <1>1, Numbers
<1> QED BY <1>1, <1>2, <1>3 DEF RoundRecords, Opened

\* The round of an owner is replaced.
LEMMA Replaces ==
    ASSUME ReceiveInvariant, NEW o \in Owners, NEW x \in RoundRecords,
           x.wire = rounds[o].wire, x.phase = "unborn" <=> rounds[o].phase = "unborn",
           rounds' = [rounds EXCEPT ![o] = x]
    PROVE  \E rs : rounds' = rs /\ Keeping(rs)
<1>1. Keeping(rounds)
  BY Rounds, SameAlike
<1>2. Keeping([rounds EXCEPT ![o] = x])
  BY <1>1, OneKeeps
<1> QED BY <1>2

LEMMA Gives ==
    ASSUME ReceiveInvariant, GiveUp
    PROVE  (\E js : job' = js /\ Alike(js)) /\ (\E rs : rounds' = rs /\ Keeping(rs))
<1>1. Alike(Cancelled(ActiveJobs)) /\ Keeping(Abandoned)
  BY Rounds, CancelledAlike, AbandonedKeeps
<1> QED BY <1>1 DEF GiveUp

\* What the frames and the receipts have in common.
LEMMA MovesOn ==
    ASSUME ReceiveInvariant, UNCHANGED <<pc, writer>>, authority' \in Nat,
           \E rs : rounds' = rs /\ Keeping(rs)
    PROVE  Beside
<1>1. Opened
  BY Rounds
<1>2. rounds' \in [Owners -> RoundRecords] /\ SameRounds /\ Opened'
  BY <1>1, KeepingRounds
<1> QED BY <1>2 DEF Beside

\* A round is given up and nothing is submitted.
LEMMA Ends ==
    ASSUME ReceiveInvariant, GiveUp, UNCHANGED <<pc, writer, pending>>, authority' \in Nat
    PROVE  ReceiveInvariant'
<1>1. (\E js : job' = js /\ Alike(js)) /\ (\E rs : rounds' = rs /\ Keeping(rs))
  BY Gives
<1>2. Beside
  BY <1>1, MovesOn
<1> QED BY <1>1, <1>2, Quits

\* The rounds move and nothing is submitted.
LEMMA Rests ==
    ASSUME ReceiveInvariant, \E rs : rounds' = rs /\ Keeping(rs),
           UNCHANGED <<pc, writer, pending, job>>, authority' \in Nat
    PROVE  ReceiveInvariant'
<1>1. \E js : job' = js /\ Alike(js)
  BY Rounds, SameAlike
<1>2. Beside
  BY MovesOn
<1> QED BY <1>1, <1>2, Quits

\* A round asks for something of its own.
LEMMA Submission ==
    ASSUME ReceiveInvariant, UNCHANGED <<pc, writer>>, authority' \in Nat,
           \E rs : rounds' = rs /\ Keeping(rs),
           NEW o \in Owners, Born(o), NEW kind, NEW b,
           \/ kind \in {"BEGIN", "PUT", "END", "REUSE"} /\ b \in Blocks
           \/ kind \in {"PROMOTE", "ABORT"} /\ b = SomeBlock,
           job' = Append(job, NewJob(Req(kind, o, rounds[o].wire, b), rounds[o].rev)),
           pending' = Append(pending, Len(job) + 1)
    PROVE  ReceiveInvariant'
<1>1. PICK w : w = rounds[o].wire
  OBVIOUS
<1>2. PICK rev : rev = rounds[o].rev
  OBVIOUS
<1>3. PICK js : js = job
  OBVIOUS
<1>4. w \in DOMAIN Announced /\ rev \in Nat /\ Alike(js)
  BY <1>1, <1>2, <1>3, Rounds, SameAlike
<1>5. Beside
  BY MovesOn
<1>6. Born(o)' /\ rounds'[o].wire = w
  BY <1>1, <1>5 DEF Beside, SameRounds
<1>7. Req(kind, o, w, b) \in Asked /\ (Born(o)' /\ rounds'[o].wire = w => Speaks(Req(kind, o, w, b))')
  BY <1>4, Asks
<1>8. PICK r : r = Req(kind, o, w, b)
  OBVIOUS
<1>9. r \in Asked /\ Speaks(r)'
  BY <1>6, <1>7, <1>8 DEF Speaks, Promise, Born
<1>10. job' = Append(js, NewJob(r, rev))
  BY <1>1, <1>2, <1>3, <1>8
<1> QED BY <1>4, <1>5, <1>9, <1>10, Submits

-----------------------------------------------------------------------------
(* Its steps.                                                                 *)

LEMMA InfStep ==
    ASSUME ReceiveInvariant, NEW o \in Owners, NEW b \in Blocks, Inf(o, b)
    PROVE  ReceiveInvariant'
<1>1. /\ UNCHANGED <<pc, writer>> /\ authority' \in Nat
      /\ rounds[o] \in RoundRecords /\ Born(o)
  BY Rounds DEF Inf, Live, Born
<1>2. \A s \in Steps : rounds' = [rounds EXCEPT ![o].step[b] = s] => \E rs : rounds' = rs /\ Keeping(rs)
  <2>1. ASSUME NEW s \in Steps, rounds' = [rounds EXCEPT ![o].step[b] = s]
        PROVE  \E rs : rounds' = rs /\ Keeping(rs)
    <3> DEFINE x == [rounds[o] EXCEPT !.step[b] = s]
    <3>1. x \in RoundRecords /\ x.wire = rounds[o].wire /\ x.phase = rounds[o].phase
      BY <1>1, OtherStep
    <3>2. rounds' = [rounds EXCEPT ![o] = x]
      BY <2>1
    <3> HIDE DEF x
    <3> QED BY <3>1, <3>2, Replaces
  <2> QED BY <2>1
<1>3. CASE rounds' = [rounds EXCEPT ![o].step[b] = "res"] /\ UNCHANGED <<job, pending>>
  BY <1>1, <1>2, <1>3, Rests DEF Steps
<1>4. CASE /\ Submit(Req("REUSE", o, rounds[o].wire, b), rounds[o].rev)
           /\ rounds' = [rounds EXCEPT ![o].step[b] = "reuse"]
  <2>1. \E rs : rounds' = rs /\ Keeping(rs)
    BY <1>2, <1>4 DEF Steps
  <2> QED BY <1>1, <1>4, <2>1, Submission DEF Submit
<1>5. CASE GiveUp /\ UNCHANGED pending
  BY <1>1, <1>5, Ends
<1> QED BY <1>3, <1>4, <1>5 DEF Inf

LEMMA FrameStep ==
    ASSUME ReceiveInvariant, NEW o \in Owners, NEW b \in Blocks,
           BeginBlock(o, b) \/ PutRow(o, b) \/ EndBlock(o, b)
    PROVE  ReceiveInvariant'
<1>1. /\ UNCHANGED <<pc, writer>> /\ authority' \in Nat
      /\ rounds[o] \in RoundRecords /\ Born(o)
  BY Rounds DEF BeginBlock, PutRow, EndBlock, Frame, Live, Born
<1>2. PICK kind \in {"BEGIN", "PUT", "END"} :
         /\ job' = Append(job, NewJob(Req(kind, o, rounds[o].wire, b), rounds[o].rev))
         /\ pending' = Append(pending, Len(job) + 1)
  BY DEF BeginBlock, PutRow, EndBlock, Frame, Submit
<1>3. PICK x : /\ rounds' = [rounds EXCEPT ![o] = x]
               /\ x \in {[rounds[o] EXCEPT !.step[b] = s] : s \in Steps} \cup {[rounds[o] EXCEPT !.puts[b] = @ + 1]}
  BY DEF BeginBlock, PutRow, EndBlock, Frame, Steps
<1>4. x \in RoundRecords /\ x.wire = rounds[o].wire /\ x.phase = rounds[o].phase
  <2>1. CASE x = [rounds[o] EXCEPT !.puts[b] = @ + 1]
    BY <1>1, <2>1, OtherPuts
  <2>2. ASSUME NEW s \in Steps, x = [rounds[o] EXCEPT !.step[b] = s]
        PROVE  x \in RoundRecords /\ x.wire = rounds[o].wire /\ x.phase = rounds[o].phase
    BY <1>1, <2>2, OtherStep
  <2> QED BY <1>3, <2>1, <2>2
<1>5. \E rs : rounds' = rs /\ Keeping(rs)
  BY <1>3, <1>4, Replaces
<1> QED BY <1>1, <1>2, <1>5, Submission

LEMMA WithdrawStep ==
    ASSUME ReceiveInvariant, Timeout \/ Withdraw
    PROVE  ReceiveInvariant'
<1>1. /\ UNCHANGED <<pc, writer, pending>> /\ authority' \in Nat
  <2>1. authority \in Nat /\ authority + 1 \in Nat
    BY Rounds
  <2> QED BY <2>1 DEF Timeout, Withdraw
<1>2. CASE GiveUp
  BY <1>1, <1>2, Ends
<1>3. CASE UNCHANGED <<rounds, job>>
  <2>1. \E rs : rounds' = rs /\ Keeping(rs)
    BY <1>3, Rounds, SameAlike
  <2> QED BY <1>1, <1>3, <2>1, Rests
<1> QED BY <1>2, <1>3 DEF Timeout, Withdraw

LEMMA TickBeginStep ==
    ASSUME ReceiveInvariant, TickBegin \/ UNCHANGED allVars
    PROVE  ReceiveInvariant'
<1>1. UNCHANGED <<pc, writer, pending, job, rounds, authority>>
  BY DEF TickBegin, allVars, vars, receive
<1>2. authority' \in Nat
  BY <1>1, Rounds
<1>3. \E rs : rounds' = rs /\ Keeping(rs)
  BY <1>1, Rounds, SameAlike
<1> QED BY <1>1, <1>2, <1>3, Rests

\* A receipt that ends its round, or lets its ABORT be asked for again.
LEMMA Closes ==
    ASSUME ReceiveInvariant, NEW o \in Owners, Born(o),
           rounds' \in {Done(o), Retry(o), [rounds EXCEPT ![o].phase = "abandoned"], rounds}
    PROVE  \E rs : rounds' = rs /\ Keeping(rs)
<1>1. rounds[o] \in RoundRecords
  BY Rounds
<1>2. CASE rounds' = rounds
  BY <1>2, Rounds, SameAlike
<1>3. CASE rounds' = Retry(o)
  <2> DEFINE x == [rounds[o] EXCEPT !.abort = NoJob]
  <2>1. x \in RoundRecords /\ x.wire = rounds[o].wire /\ x.phase = rounds[o].phase
    BY <1>1 DEF RoundRecords, NoJob
  <2>2. rounds' = [rounds EXCEPT ![o] = x]
    BY <1>3 DEF Retry
  <2> HIDE DEF x
  <2> QED BY <2>1, <2>2, Replaces
<1>4. ASSUME NEW phase \in {"gone", "abandoned"}, rounds' = [rounds EXCEPT ![o].phase = phase]
      PROVE  \E rs : rounds' = rs /\ Keeping(rs)
  <2> DEFINE x == [rounds[o] EXCEPT !.phase = phase]
  <2>1. x \in RoundRecords /\ x.wire = rounds[o].wire /\ x.phase = phase
    BY <1>1 DEF RoundRecords, Phases
  <2>2. rounds' = [rounds EXCEPT ![o] = x]
    BY <1>4
  <2> HIDE DEF x
  <2>3. x.phase = "unborn" <=> rounds[o].phase = "unborn"
    BY <2>1 DEF Born
  <2> QED BY <2>1, <2>2, <2>3, Replaces
<1> QED BY <1>2, <1>3, <1>4 DEF Done

LEMMA ReceiptStep ==
    ASSUME ReceiveInvariant, NEW id \in DOMAIN job, NEW o \in Owners,
           AbortReceipt(id, o) \/ PromoteReceipt(id, o) \/ StaleReceipt(id, o) \/ FailedReceipt(id, o)
    PROVE  ReceiveInvariant'
<1>1. /\ UNCHANGED <<pc, writer, pending>> /\ authority' \in Nat
  BY Rounds DEF AbortReceipt, PromoteReceipt, StaleReceipt, FailedReceipt, Receipt, Quiet
<1>2. Born(o)
  <2>1. o = job[id].req.owner
    BY DEF AbortReceipt, PromoteReceipt, StaleReceipt, FailedReceipt, Receipt
  <2>2. Words /\ DOMAIN job = 1 .. Len(job)
    BY Numbers DEF ReceiveInvariant
  <2> QED BY <2>1, <2>2 DEF Words, Speaks
<1>3. \/ GiveUp
      \/ /\ UNCHANGED job
         /\ rounds' \in {Done(o), Retry(o), [rounds EXCEPT ![o].phase = "abandoned"], rounds}
  BY DEF AbortReceipt, PromoteReceipt, StaleReceipt, FailedReceipt, Quiet
<1>4. CASE GiveUp
  BY <1>1, <1>4, Ends
<1>5. CASE /\ UNCHANGED job
           /\ rounds' \in {Done(o), Retry(o), [rounds EXCEPT ![o].phase = "abandoned"], rounds}
  BY <1>1, <1>2, <1>5, Closes, Rests
<1> QED BY <1>3, <1>4, <1>5

LEMMA BlockReceiptStep ==
    ASSUME ReceiveInvariant, NEW id \in DOMAIN job, NEW o \in Owners, BlockReceipt(id, o)
    PROVE  ReceiveInvariant'
<1>1. /\ UNCHANGED <<pc, writer>> /\ authority' \in Nat
      /\ rounds[o] \in RoundRecords /\ Born(o)
  BY Rounds DEF BlockReceipt, Receipt, Live, Born
<1>2. PICK b \in Blocks : b = job[id].req.block
  <2>1. DOMAIN job = 1 .. Len(job) /\ job[id].req.kind \in {"END", "REUSE"}
    BY Numbers DEF BlockReceipt, ReceiveInvariant
  <2>2. job[id].req \in Asked
    <3>1. Types /\ Line /\ Words
      BY DEF ReceiveInvariant
    <3> QED BY <2>1, <3>1, RequestsSpeak
  <2> QED BY <2>1, <2>2, Request
<1> DEFINE acked == [rounds[o] EXCEPT !.step[b] = "durable"]
           promoted == [acked EXCEPT !.promote = Len(job) + 1]
<1>3. acked \in RoundRecords /\ acked.wire = rounds[o].wire /\ acked.phase = rounds[o].phase
  BY <1>1, OtherStep DEF Steps
<1>4. promoted \in RoundRecords /\ promoted.wire = rounds[o].wire /\ promoted.phase = rounds[o].phase
  <2>1. Len(job) + 1 \in Nat
    BY Rounds
  <2> HIDE DEF acked
  <2> QED BY <1>3, <2>1 DEF RoundRecords
<1>5. \/ rounds' = [rounds EXCEPT ![o] = acked] /\ UNCHANGED <<pending, job>>
      \/ /\ rounds' = [rounds EXCEPT ![o] = promoted]
         /\ job' = Append(job, NewJob(Req("PROMOTE", o, rounds[o].wire, SomeBlock), rounds[o].rev))
         /\ pending' = Append(pending, Len(job) + 1)
      \/ GiveUp /\ UNCHANGED pending
  <2>1. /\ [rounds EXCEPT ![o].step[b] = "durable"] = [rounds EXCEPT ![o] = acked]
        /\ [[rounds EXCEPT ![o].step[b] = "durable"] EXCEPT ![o].promote = Len(job) + 1] = [rounds EXCEPT ![o] = promoted]
    BY Rounds
  <2> HIDE DEF acked, promoted
  <2> QED BY <1>2, <2>1 DEF BlockReceipt
<1> HIDE DEF acked, promoted
<1>6. CASE rounds' = [rounds EXCEPT ![o] = acked] /\ UNCHANGED <<pending, job>>
  <2>1. \E rs : rounds' = rs /\ Keeping(rs)
    BY <1>3, <1>6, Replaces
  <2> QED BY <1>1, <1>6, <2>1, Rests
<1>7. CASE /\ rounds' = [rounds EXCEPT ![o] = promoted]
           /\ job' = Append(job, NewJob(Req("PROMOTE", o, rounds[o].wire, SomeBlock), rounds[o].rev))
           /\ pending' = Append(pending, Len(job) + 1)
  <2>1. \E rs : rounds' = rs /\ Keeping(rs)
    BY <1>4, <1>7, Replaces
  <2> QED BY <1>1, <1>7, <2>1, Submission
<1>8. CASE GiveUp /\ UNCHANGED pending
  BY <1>1, <1>8, Ends
<1> QED BY <1>5, <1>6, <1>7, <1>8

\* An INF opens a round: the others keep their announcements.
LEMMA FirstInfStep ==
    ASSUME ReceiveInvariant, NEW o \in Owners, NEW b \in Blocks, NEW w \in DOMAIN Announced, FirstInf(o, w, b)
    PROVE  ReceiveInvariant'
<1>1. /\ UNCHANGED <<pc, writer>> /\ authority \in Nat /\ ~Born(o)
      /\ rounds \in [Owners -> RoundRecords] /\ Types /\ Line /\ Opened
  BY Rounds DEF FirstInf, Born
<1>2. PICK js : js \in {job, Cancelled(ActiveJobs)}
                /\ \/ job' = js /\ UNCHANGED pending
                   \/ \E rev : /\ rev = authority' /\ job' = Append(js, NewJob(Req("REUSE", o, w, b), rev))
                               /\ pending' = Append(pending, Len(job) + 1)
  BY DEF FirstInf
<1>3. Alike(js)
  BY <1>1, <1>2, SameAlike, CancelledAlike
<1>4. authority' \in Nat
  <2>1. authority + 1 \in Nat
    BY <1>1
  <2> QED BY <1>1, <2>1 DEF FirstInf
<1>5. PICK x : /\ x \in RoundRecords /\ x.wire = w /\ x.phase # "unborn"
               /\ \/ \E rs \in {rounds, Abandoned} : rounds' = [rs EXCEPT ![o] = x]
                  \/ rounds' = [p \in Owners |-> IF p = o THEN x ELSE Abandoned[p]]
  <2> DEFINE rev == IF w # reconcile THEN authority + 1 ELSE authority
             s == IF Equal(w, b) THEN "reuse" ELSE "res"
             born == [Unborn EXCEPT !.phase = "live", !.wire = w, !.rev = rev, !.step[b] = s]
  <2>1. rev \in Nat /\ s \in Steps
    BY <1>1 DEF Steps
  <2>2. born \in RoundRecords /\ born.wire = w /\ born.phase = "live"
    <3> DEFINE y == [Unborn EXCEPT !.phase = "live", !.wire = w, !.rev = rev]
    <3>1. Unborn \in [phase : {"unborn"}, wire : {0}, rev : {0}, step : [Blocks -> Steps],
                      puts : [Blocks -> Nat], promote : Nat, abort : Nat]
      BY DEF Unborn, NoJob, Steps
    <3>2. y \in RoundRecords /\ y.wire = w /\ y.phase = "live"
      <4> HIDE DEF rev
      <4> QED BY <2>1, <3>1 DEF RoundRecords, Phases
    <3>3. born = [y EXCEPT !.step[b] = s]
      BY <3>1
    <3> HIDE DEF born, y, s
    <3> QED BY <2>1, <3>2, <3>3, OtherStep
  <2>3. \/ \E rs \in {rounds, Abandoned} : rounds' = [rs EXCEPT ![o] = born]
        \/ \E phase \in {"abandoned", "gone"} :
              rounds' = [p \in Owners |-> IF p = o THEN [born EXCEPT !.phase = phase] ELSE Abandoned[p]]
    BY DEF FirstInf
  <2> HIDE DEF born
  <2>4. CASE \E rs \in {rounds, Abandoned} : rounds' = [rs EXCEPT ![o] = born]
    BY <2>2, <2>4
  <2>5. ASSUME NEW phase \in {"abandoned", "gone"},
               rounds' = [p \in Owners |-> IF p = o THEN [born EXCEPT !.phase = phase] ELSE Abandoned[p]]
        PROVE  \E x : /\ x \in RoundRecords /\ x.wire = w /\ x.phase # "unborn"
                      /\ \/ \E rs \in {rounds, Abandoned} : rounds' = [rs EXCEPT ![o] = x]
                         \/ rounds' = [p \in Owners |-> IF p = o THEN x ELSE Abandoned[p]]
    <3> DEFINE y == [born EXCEPT !.phase = phase]
    <3>1. y \in RoundRecords /\ y.wire = w /\ y.phase # "unborn"
      BY <2>2 DEF RoundRecords, Phases
    <3> QED BY <2>5, <3>1
  <2> QED BY <2>3, <2>4, <2>5
<1>6. PICK rs \in {rounds, Abandoned} : /\ Keeping(rs) /\ rounds'[o] = x
                                        /\ \A p \in Owners : p # o => rounds'[p] = rs[p]
                                        /\ rounds' = [p \in Owners |-> rounds'[p]]
  <2>1. Keeping(rounds) /\ Keeping(Abandoned)
    BY <1>1, SameAlike, AbandonedKeeps
  <2>2. ASSUME NEW rs \in {rounds, Abandoned}, rounds' = [rs EXCEPT ![o] = x]
        PROVE  /\ rounds'[o] = x /\ \A p \in Owners : p # o => rounds'[p] = rs[p]
               /\ rounds' = [p \in Owners |-> rounds'[p]]
    <3>1. rs \in [Owners -> RoundRecords]
      BY <2>1 DEF Keeping
    <3> QED BY <2>2, <3>1
  <2> QED BY <1>5, <2>1, <2>2
<1>7. rounds'[o] \in RoundRecords /\ rounds'[o].wire = w /\ Born(o)'
  BY <1>5, <1>6 DEF Born
<1>8. rounds' \in [Owners -> RoundRecords]
  <2>1. \A p \in Owners : rounds'[p] \in RoundRecords
    BY <1>6, <1>7 DEF Keeping
  <2> QED BY <1>6, <2>1
<1>9. SameRounds
  BY <1>1, <1>6 DEF SameRounds, Keeping, Born
<1>10. Opened'
  BY <1>1, <1>6, <1>7 DEF Opened, Keeping, Born
<1>11. Beside
  BY <1>1, <1>4, <1>8, <1>9, <1>10 DEF Beside
<1>12. CASE job' = js /\ UNCHANGED pending
  BY <1>3, <1>11, <1>12, Quits
<1>13. CASE \E rev : /\ rev = authority' /\ job' = Append(js, NewJob(Req("REUSE", o, w, b), rev))
                     /\ pending' = Append(pending, Len(job) + 1)
  <2>1. PICK rev : /\ rev = authority' /\ job' = Append(js, NewJob(Req("REUSE", o, w, b), rev))
                   /\ pending' = Append(pending, Len(job) + 1)
    BY <1>13
  <2>2. Req("REUSE", o, w, b) \in Asked /\ (Born(o)' /\ rounds'[o].wire = w => Speaks(Req("REUSE", o, w, b))')
    BY Asks
  <2>3. PICK r : r = Req("REUSE", o, w, b)
    OBVIOUS
  <2>4. r \in Asked /\ Speaks(r)'
    BY <1>7, <2>2, <2>3 DEF Speaks, Promise, Born
  <2>5. job' = Append(js, NewJob(r, rev)) /\ rev \in Nat
    BY <1>4, <2>1, <2>3
  <2> QED BY <1>3, <1>11, <2>1, <2>4, <2>5, Submits
<1> QED BY <1>2, <1>12, <1>13

\* Every job in the queue is charged for, until its receipt is freed.
Room ==
    /\ completed \in Seq(Nat)
    /\ queue = Len(pending) + Len(group) + Len(completed) /\ queue <= QueueLimit

LEMMA RoomNumbers ==
    ASSUME Types, Room
    PROVE  /\ Len(pending) \in Nat /\ Len(group) \in Nat /\ Len(completed) \in Nat
           /\ queue \in Nat /\ QueueLimit \in Nat
<1>1. Len(pending) \in Nat /\ Len(group) \in Nat /\ Len(completed) \in Nat
  BY LenProperties DEF Types, Room
<1> QED BY <1>1, WriterAssumption DEF Room

\* The failed engine: the rounds are done with.
LEMMA TickEndFailed ==
    ASSUME ReceiveInvariant, TickEnd, ~Admitting
    PROVE  ReceiveInvariant'
<1>1. UNCHANGED <<pc, writer, pending>> /\ authority' \in Nat
  BY Rounds DEF TickEnd
<1>2. \E js : job' = js /\ Alike(js)
  <2>1. Alike(Cancelled(ActiveJobs))
    BY Rounds, CancelledAlike
  <2> QED BY <2>1 DEF TickEnd
<1>3. PICK rs : /\ rounds' = rs
                /\ rs = [o \in Owners |-> IF Abandoned[o].phase = "abandoned" /\ rounds[o].abort = NoJob
                                          THEN [rounds[o] EXCEPT !.phase = "gone"] ELSE rounds[o]]
  BY DEF TickEnd
<1>4. ASSUME NEW o \in Owners
      PROVE  /\ rs[o] \in RoundRecords /\ rs[o].wire = rounds[o].wire
             /\ rs[o].phase = "unborn" <=> rounds[o].phase = "unborn"
  <2>1. rounds[o] \in RoundRecords /\ Keeping(Abandoned)
    BY Rounds, AbandonedKeeps
  <2>2. CASE rs[o] = rounds[o]
    BY <2>1, <2>2
  <2>3. CASE Abandoned[o].phase = "abandoned" /\ rs[o] = [rounds[o] EXCEPT !.phase = "gone"]
    <3>1. rounds[o].phase # "unborn"
      BY <2>1, <2>3 DEF Keeping
    <3>2. rs[o] \in RoundRecords /\ rs[o].wire = rounds[o].wire /\ rs[o].phase = "gone"
      BY <2>1, <2>3 DEF RoundRecords, Phases
    <3> QED BY <3>1, <3>2
  <2> QED BY <1>3, <2>2, <2>3
<1>5. Keeping(rs)
  BY <1>3, <1>4 DEF Keeping
<1>6. Beside
  BY <1>1, <1>3, <1>5, MovesOn
<1> QED BY <1>1, <1>2, <1>6, Quits

\* An order of the rounds that ask.
LEMMA Orders ==
    ASSUME NEW order \in NewestFirst(Asking)
    PROVE  /\ order \in Seq(Owners) /\ Len(order) \in Nat
           /\ \A i \in 1 .. Len(order) : order[i] \in Asking
<1>1. Cardinality(Asking) \in Nat
  BY ReceiveAssumption, FS_Subset, FS_CardinalityType DEF Asking
<1>2. order \in [1 .. Cardinality(Asking) -> Asking] /\ Asking \subseteq Owners
  BY DEF NewestFirst, Asking
<1>3. order \in [1 .. Cardinality(Asking) -> Owners] /\ order \in Seq(Owners)
  <2>1. order \in [1 .. Cardinality(Asking) -> Owners]
    BY <1>2
  <2> QED BY <1>1, <2>1, FunctionSeq
<1>4. DOMAIN order = 1 .. Len(order) /\ Len(order) \in Nat
  BY <1>3, LenProperties
<1>5. DOMAIN order = 1 .. Cardinality(Asking)
  BY <1>2
<1> QED BY <1>2, <1>3, <1>4, <1>5

\* The ABORTs a run of the completion event asks for: the first n of an order.
Aborts(order, n) ==
    [i \in 1 .. n |-> NewJob(Req("ABORT", order[i], rounds[order[i]].wire, SomeBlock), authority)]

LEMMA TickEndAsks ==
    ASSUME ReceiveInvariant, Room, TickEnd, Admitting
    PROVE  \E order \in NewestFirst(Asking), n \in Nat :
              /\ n <= Len(order) /\ queue + n <= QueueLimit
              /\ job' = job \o Aborts(order, n)
              /\ pending' = pending \o [i \in 1 .. n |-> Len(job) + i]
              /\ queue' = queue + n
              /\ rounds' = [o \in Owners |->
                              IF o \in Asking
                              THEN [rounds[o] EXCEPT !.rev = authority,
                                                     !.abort = IF o \in {order[i] : i \in 1 .. n}
                                                               THEN Len(job) + CHOOSE i \in 1 .. n : order[i] = o
                                                               ELSE NoJob]
                              ELSE rounds[o]]
<1>1. PICK order \in NewestFirst(Asking) :
         LET n == IF Len(order) <= QueueLimit - queue THEN Len(order) ELSE QueueLimit - queue
             number(o) == Len(job) + CHOOSE i \in 1 .. n : order[i] = o
             asked == {order[i] : i \in 1 .. n}
         IN  /\ job' = job \o [i \in 1 .. n |->
                                 NewJob(Req("ABORT", order[i], rounds[order[i]].wire, SomeBlock), authority)]
             /\ pending' = pending \o [i \in 1 .. n |-> Len(job) + i]
             /\ queue' = queue + n
             /\ rounds' = [o \in Owners |->
                             IF o \in Asking
                             THEN [rounds[o] EXCEPT !.rev = authority,
                                                    !.abort = IF o \in asked THEN number(o) ELSE NoJob]
                             ELSE rounds[o]]
  BY DEF TickEnd
<1> DEFINE n == IF Len(order) <= QueueLimit - queue THEN Len(order) ELSE QueueLimit - queue
<1>2. queue \in Nat /\ QueueLimit \in Nat /\ queue <= QueueLimit /\ Len(order) \in Nat
  <2>1. Types
    BY Rounds
  <2> QED BY <2>1, RoomNumbers, Orders DEF Room
<1>3. n \in Nat /\ n <= Len(order) /\ queue + n <= QueueLimit
  BY <1>2
<1> QED BY <1>1, <1>3 DEF Aborts

LEMMA TickEndStep ==
    ASSUME ReceiveInvariant, Room, TickEnd
    PROVE  ReceiveInvariant'
<1>1. CASE ~Admitting
  BY <1>1, TickEndFailed
<1>2. CASE Admitting
  <2>1. PICK order \in NewestFirst(Asking), n \in Nat :
              /\ n <= Len(order) /\ queue + n <= QueueLimit
              /\ job' = job \o Aborts(order, n)
              /\ pending' = pending \o [i \in 1 .. n |-> Len(job) + i]
              /\ queue' = queue + n
              /\ rounds' = [o \in Owners |->
                              IF o \in Asking
                              THEN [rounds[o] EXCEPT !.rev = authority,
                                                     !.abort = IF o \in {order[i] : i \in 1 .. n}
                                                               THEN Len(job) + CHOOSE i \in 1 .. n : order[i] = o
                                                               ELSE NoJob]
                              ELSE rounds[o]]
    BY <1>2, TickEndAsks
  <2>2. /\ UNCHANGED <<pc, group, at, candidate, outcome, durable, own, writer>> /\ authority' \in Nat
    BY Rounds DEF TickEnd, writer
  <2>3. /\ Len(job) \in Nat /\ Len(pending) \in Nat /\ pending \in Seq(Nat) /\ job \in Seq(JobRecords)
        /\ authority \in Nat
    BY Numbers DEF ReceiveInvariant, Types
  <2>4. \A i \in 1 .. n : order[i] \in Asking
    <3>1. Len(order) \in Nat /\ \A i \in 1 .. Len(order) : order[i] \in Asking
      BY Orders
    <3>2. n <= Len(order)
      BY <2>1
    <3>3. \A i \in 1 .. n : i \in 1 .. Len(order)
      BY <3>1, <3>2
    <3> QED BY <3>1, <3>3
  <2>5. ASSUME NEW o \in Owners
        PROVE  /\ rounds'[o] \in RoundRecords /\ rounds'[o].wire = rounds[o].wire
               /\ rounds'[o].phase = rounds[o].phase
    <3>1. rounds[o] \in RoundRecords
      BY Rounds
    <3>2. CASE o \notin Asking
      BY <2>1, <3>1, <3>2
    <3>3. CASE o \in Asking
      <4>1. PICK a : /\ rounds'[o] = [rounds[o] EXCEPT !.rev = authority, !.abort = a]
                     /\ a = IF o \in {order[i] : i \in 1 .. n} THEN Len(job) + CHOOSE i \in 1 .. n : order[i] = o
                            ELSE NoJob
        BY <2>1, <3>3
      <4>2. a \in Nat
        <5>1. CASE o \in {order[i] : i \in 1 .. n}
          <6>1. (CHOOSE i \in 1 .. n : order[i] = o) \in 1 .. n
            BY <5>1
          <6>2. \A k \in 1 .. n : Len(job) + k \in Nat
            BY <2>3
          <6> QED BY <4>1, <5>1, <6>1, <6>2
        <5> QED BY <4>1, <5>1 DEF NoJob
      <4> QED BY <2>3, <3>1, <4>1, <4>2 DEF RoundRecords
    <3> QED BY <3>2, <3>3
  <2>6. /\ rounds' \in [Owners -> RoundRecords] /\ SameRounds /\ Opened'
    <3>1. rounds' = [o \in Owners |-> rounds'[o]]
      BY <2>1
    <3>2. rounds' \in [Owners -> RoundRecords]
      BY <2>5, <3>1
    <3>3. Opened
      BY Rounds
    <3> QED BY <2>5, <3>2, <3>3 DEF SameRounds, Opened, Born
  <2>7. PICK js : js = Aborts(order, n)
    OBVIOUS
  <2>8. ASSUME NEW i \in 1 .. n
        PROVE  /\ js[i] \in JobRecords /\ Speaks(js[i].req)'
    <3>1. PICK o \in Owners : o = order[i] /\ Born(o)
      BY <2>4 DEF Asking, Born
    <3>2. PICK w : w = rounds[o].wire
      OBVIOUS
    <3>3. w \in DOMAIN Announced
      BY <3>1, <3>2, Rounds
    <3>4. /\ Req("ABORT", o, w, SomeBlock) \in Asked
          /\ (Born(o)' /\ rounds'[o].wire = w => Speaks(Req("ABORT", o, w, SomeBlock))')
      BY <3>3, Asks
    <3>5. PICK r : r = Req("ABORT", o, w, SomeBlock)
      OBVIOUS
    <3>6. r \in Asked /\ Speaks(r)'
      BY <2>5, <3>1, <3>2, <3>4, <3>5 DEF Born, Speaks, Promise
    <3>7. NewJob(r, authority) \in JobRecords /\ NewJob(r, authority).req = r
      BY <2>3, <3>6, NewJobType
    <3>8. js[i] = NewJob(r, authority)
      BY <2>7, <3>1, <3>2, <3>5 DEF Aborts
    <3> QED BY <3>6, <3>7, <3>8 DEF Speaks, Promise, Born
  <2>9. js \in Seq(JobRecords) /\ Len(js) = n
    <3>1. js = [i \in 1 .. n |-> js[i]]
      BY <2>7 DEF Aborts
    <3>2. js \in [1 .. n -> JobRecords]
      BY <2>8, <3>1
    <3> QED BY <3>2, FunctionLen
  <2> DEFINE numbers == [i \in 1 .. n |-> Len(job) + i]
  <2>10. numbers \in Seq(Nat) /\ Len(numbers) = n /\ \A i \in 1 .. n : numbers[i] = Len(job) + i
    <3>1. \A i \in 1 .. n : Len(job) + i \in Nat
      BY <2>3
    <3>2. numbers \in [1 .. n -> Nat]
      BY <3>1
    <3>3. \A i \in 1 .. n : numbers[i] = Len(job) + i
      OBVIOUS
    <3> HIDE DEF numbers
    <3> QED BY <3>2, <3>3, FunctionLen
  <2>11. pending' = pending \o numbers
    BY <2>1
  <2> HIDE DEF numbers
  <2>12. /\ pending' \in Seq(Nat) /\ Len(pending') = Len(pending) + n
         /\ \A i \in 1 .. Len(pending) : pending'[i] = pending[i]
         /\ \A i \in 1 .. n : pending'[Len(pending) + i] = Len(job) + i
    <3>1. /\ pending' \in Seq(Nat) /\ Len(pending') = Len(pending) + n
          /\ \A i \in 1 .. Len(pending) + n : pending'[i] = IF i <= Len(pending) THEN pending[i]
                                                             ELSE numbers[i - Len(pending)]
      BY <2>3, <2>10, <2>11, ConcatProperties
    <3>2. ASSUME NEW i \in 1 .. n PROVE pending'[Len(pending) + i] = Len(job) + i
      <4>1. PICK k : k = Len(pending) + i
        OBVIOUS
      <4>2. k \in 1 .. Len(pending) + n /\ ~(k <= Len(pending)) /\ k - Len(pending) = i
        BY <2>3, <4>1
      <4>3. pending'[k] = numbers[i]
        BY <3>1, <4>2
      <4> QED BY <2>10, <4>1, <4>3
    <3>3. \A i \in 1 .. Len(pending) : i \in 1 .. Len(pending) + n /\ i <= Len(pending)
      BY <2>3
    <3> QED BY <3>1, <3>2, <3>3
  <2>13. /\ job' \in Seq(JobRecords) /\ Len(job') = Len(job) + n
         /\ \A id \in 1 .. Len(job) : job'[id] = job[id]
         /\ \A i \in 1 .. n : job'[Len(job) + i] = js[i]
    <3>2. /\ job' \in Seq(JobRecords) /\ Len(job') = Len(job) + n
          /\ \A i \in 1 .. Len(job) + n : job'[i] = IF i <= Len(job) THEN job[i] ELSE js[i - Len(job)]
      <4>1. job' = job \o js
        BY <2>1, <2>7
      <4> QED BY <2>3, <2>9, <4>1, ConcatProperties
    <3>3. ASSUME NEW i \in 1 .. n PROVE job'[Len(job) + i] = js[i]
      <4>1. PICK k : k = Len(job) + i
        OBVIOUS
      <4>2. k \in 1 .. Len(job) + n /\ ~(k <= Len(job)) /\ k - Len(job) = i
        BY <2>3, <4>1
      <4> QED BY <3>2, <4>1, <4>2
    <3>4. \A i \in 1 .. Len(job) : i \in 1 .. Len(job) + n /\ i <= Len(job)
      BY <2>3
    <3> QED BY <3>2, <3>3, <3>4
  <2>14. \A id \in 1 .. Len(job) : SameReceipts(id)
    BY <2>13 DEF SameReceipts
  <2>15. ASSUME NEW id \in Len(job) + 1 .. Len(job') PROVE Speaks(job[id].req)'
    <3>1. PICK i \in 1 .. n : id = Len(job) + i
      <4>1. id - Len(job) \in 1 .. n /\ id = Len(job) + (id - Len(job))
        BY <2>3, <2>13
      <4> QED BY <4>1
    <3>2. PICK r : r = js[i].req
      OBVIOUS
    <3>3. Speaks(r)'
      BY <2>8, <3>2 DEF Speaks, Promise, Born
    <3>4. job'[id].req = r
      BY <2>13, <3>1, <3>2
    <3> QED BY <3>3, <3>4 DEF Speaks, Promise, Born
  <2> QED BY <2>2, <2>6, <2>12, <2>13, <2>14, <2>15, MainKeeps
<1> QED BY <1>1, <1>2

\* The jobs that wait, are worked on and are done, and what the queue charges for them.
LEMMA RoomTake ==
    ASSUME ReceiveInvariant, Room, Take
    PROVE  Room'
<1>0. Types /\ Line /\ Len(pending) \in Nat /\ Len(group) \in Nat /\ Len(completed) \in Nat
  BY RoomNumbers DEF ReceiveInvariant
<1>1. group = <<>> /\ Len(group) = 0 /\ pending \in Seq(Nat) /\ pending # <<>>
      /\ UNCHANGED <<completed, queue>>
  <2>1. Len(<<>>) = 0
    OBVIOUS
  <2> QED BY <1>0, <2>1 DEF Take, Line, Types, room
<1> DEFINE n == IF Len(pending) < GroupMax THEN Len(pending) ELSE GroupMax
<1>2. group' = SubSeq(pending, 1, n) /\ pending' = SubSeq(pending, n + 1, Len(pending))
  BY DEF Take
<1>3. n \in 1 .. Len(pending)
  <2>1. Len(pending) \in Nat \ {0}
    BY <1>0, <1>1, EmptySeq
  <2> QED BY <2>1, WriterAssumption
<1> HIDE DEF n
<1>4. Len(group') = n
  BY <1>0, <1>1, <1>2, <1>3, SubSeqProperties
<1>5. Len(pending') = Len(pending) - n
  BY <1>0, <1>1, <1>2, <1>3, SubSeqProperties
<1>6. Len(pending') + Len(group') = Len(pending) + Len(group)
  BY <1>0, <1>1, <1>3, <1>4, <1>5
<1>7. Len(pending') \in Nat /\ Len(group') \in Nat
  BY <1>0, <1>3, <1>4, <1>5
<1>8. Len(pending') + Len(group') + Len(completed) = Len(pending) + Len(group) + Len(completed)
  BY <1>6
<1> QED BY <1>1, <1>8 DEF Room

LEMMA RoomComplete ==
    ASSUME ReceiveInvariant, Room, Complete \/ CompleteFails
    PROVE  Room'
<1>0. Types /\ Len(pending) \in Nat /\ Len(group) \in Nat /\ Len(completed) \in Nat
  BY RoomNumbers DEF ReceiveInvariant
<1>1. group' = <<>> /\ completed' = completed \o group /\ UNCHANGED <<pending, queue>>
  BY DEF Complete, CompleteFails, room
<1>2. completed' \in Seq(Nat) /\ Len(completed') = Len(completed) + Len(group)
  <2>1. completed \in Seq(Nat) /\ group \in Seq(Nat)
    BY <1>0 DEF Room, Types
  <2> QED BY <1>1, <2>1, ConcatProperties
<1>3. Len(group') = 0
  BY <1>1
<1>4. Len(pending') + Len(group') + Len(completed') = Len(pending) + Len(group) + Len(completed)
  BY <1>0, <1>1, <1>2, <1>3
<1> QED BY <1>1, <1>2, <1>4 DEF Room

\* A step that adds n jobs and charges for them, or reads a receipt and drops its charge.
LEMMA RoomMoves ==
    ASSUME ReceiveInvariant, Room, UNCHANGED group, NEW n \in Nat, Len(pending') = Len(pending) + n,
           \/ UNCHANGED completed /\ queue' = queue + n /\ queue + n <= QueueLimit
           \/ completed # <<>> /\ completed' = Tail(completed) /\ queue' = queue + n - 1 /\ n <= 1
    PROVE  Room'
<1>0. /\ Types /\ Len(pending) \in Nat /\ Len(group) \in Nat /\ Len(completed) \in Nat
      /\ queue \in Nat /\ QueueLimit \in Nat
  BY RoomNumbers DEF ReceiveInvariant
<1>1. CASE UNCHANGED completed /\ queue' = queue + n /\ queue + n <= QueueLimit
  <2>1. Len(pending') + Len(group') + Len(completed') = Len(pending) + Len(group) + Len(completed) + n
    BY <1>0, <1>1
  <2> QED BY <1>0, <1>1, <2>1 DEF Room
<1>2. CASE completed # <<>> /\ completed' = Tail(completed) /\ queue' = queue + n - 1 /\ n <= 1
  <2>1. completed' \in Seq(Nat) /\ Len(completed') = Len(completed) - 1
    <3>1. completed \in Seq(Nat)
      BY DEF Room
    <3> QED BY <1>2, <3>1, HeadTailProperties
  <2>2. Len(pending') + Len(group') + Len(completed') = Len(pending) + Len(group) + Len(completed) + n - 1
    BY <1>0, <2>1
  <2>3. queue' <= QueueLimit
    BY <1>0, <1>2 DEF Room
  <2> QED BY <1>0, <1>2, <2>1, <2>2, <2>3 DEF Room
<1> QED BY <1>1, <1>2

LEMMA RoomRests ==
    ASSUME ReceiveInvariant, Room, UNCHANGED <<pending, group, completed, queue>>
    PROVE  Room'
BY DEF Room

LEMMA RoomSubmits ==
    ASSUME ReceiveInvariant, Room, UNCHANGED <<group, completed>>, queue + 1 <= QueueLimit,
           pending' = Append(pending, Len(job) + 1), queue' = queue + 1
    PROVE  Room'
<1>1. Len(pending') = Len(pending) + 1
  <2>1. pending \in Seq(Nat) /\ Len(job) + 1 \in Nat
    BY Rounds DEF Types
  <2> QED BY <2>1, AppendProperties
<1> QED BY <1>1, RoomMoves

LEMMA RoomReads ==
    ASSUME ReceiveInvariant, Room, UNCHANGED group, completed # <<>>, completed' = Tail(completed),
           \/ UNCHANGED pending /\ queue' = queue - 1
           \/ pending' = Append(pending, Len(job) + 1) /\ UNCHANGED queue
    PROVE  Room'
<1>0. Types /\ Len(pending) \in Nat /\ queue \in Nat /\ pending \in Seq(Nat) /\ Len(job) + 1 \in Nat
  BY Rounds, RoomNumbers DEF Types
<1>1. CASE UNCHANGED pending /\ queue' = queue - 1
  <2>1. queue' = queue + 0 - 1 /\ Len(pending') = Len(pending) + 0 /\ 0 \in Nat /\ 0 <= 1
    BY <1>0, <1>1
  <2> QED BY <2>1, RoomMoves
<1>2. CASE pending' = Append(pending, Len(job) + 1) /\ UNCHANGED queue
  <2>1. Len(pending') = Len(pending) + 1
    BY <1>0, <1>2, AppendProperties
  <2>2. queue' = queue + 1 - 1 /\ 1 \in Nat /\ 1 <= 1
    BY <1>0, <1>2
  <2> QED BY <2>1, <2>2, RoomMoves
<1> QED BY <1>1, <1>2

LEMMA RoomTickEnd ==
    ASSUME ReceiveInvariant, Room, TickEnd
    PROVE  Room'
<1>1. UNCHANGED <<group, completed>>
  BY DEF TickEnd, writer
<1>2. CASE ~Admitting
  BY <1>1, <1>2, RoomRests DEF TickEnd
<1>3. CASE Admitting
  <2>1. PICK n \in Nat : /\ queue + n <= QueueLimit /\ queue' = queue + n
                         /\ pending' = pending \o [i \in 1 .. n |-> Len(job) + i]
    BY <1>3, TickEndAsks
  <2> DEFINE numbers == [i \in 1 .. n |-> Len(job) + i]
  <2>2. numbers \in Seq(Nat) /\ Len(numbers) = n
    <3>1. Len(job) \in Nat
      BY Numbers DEF ReceiveInvariant
    <3>2. numbers \in [1 .. n -> Nat]
      BY <3>1
    <3> HIDE DEF numbers
    <3> QED BY <3>2, FunctionLen
  <2>3. pending' = pending \o numbers /\ pending \in Seq(Nat)
    BY <2>1, Rounds DEF Types
  <2> HIDE DEF numbers
  <2>4. Len(pending') = Len(pending) + n
    BY <2>2, <2>3, ConcatProperties
  <2> QED BY <1>1, <2>1, <2>4, RoomMoves
<1> QED BY <1>2, <1>3

LEMMA RoomFrames ==
    ASSUME ReceiveInvariant, Room, Frames
    PROVE  Room'
<1>1. PICK o \in Owners, b \in Blocks :
         \/ Inf(o, b) \/ \E w \in DOMAIN Announced : FirstInf(o, w, b)
         \/ BeginBlock(o, b) \/ PutRow(o, b) \/ EndBlock(o, b)
  BY DEF Frames
<1>2. CASE Inf(o, b)
  <2>1. UNCHANGED <<group, completed>>
    BY <1>2 DEF Inf, writer
  <2>2. \/ UNCHANGED <<pending, queue>>
        \/ queue + 1 <= QueueLimit /\ pending' = Append(pending, Len(job) + 1) /\ queue' = queue + 1
    BY <1>2 DEF Inf, Submittable, Submit
  <2> QED BY <2>1, <2>2, RoomRests, RoomSubmits
<1>3. ASSUME NEW w \in DOMAIN Announced, FirstInf(o, w, b) PROVE Room'
  <2>1. UNCHANGED <<group, completed>>
    BY <1>3 DEF FirstInf, writer
  <2>2. \/ UNCHANGED <<pending, queue>>
        \/ queue + 1 <= QueueLimit /\ pending' = Append(pending, Len(job) + 1) /\ queue' = queue + 1
    BY <1>3 DEF FirstInf
  <2> QED BY <2>1, <2>2, RoomRests, RoomSubmits
<1>4. CASE BeginBlock(o, b) \/ PutRow(o, b) \/ EndBlock(o, b)
  <2>1. UNCHANGED <<group, completed>>
    BY <1>4 DEF BeginBlock, PutRow, EndBlock, Frame, writer
  <2>2. queue + 1 <= QueueLimit /\ pending' = Append(pending, Len(job) + 1) /\ queue' = queue + 1
    BY <1>4 DEF BeginBlock, PutRow, EndBlock, Frame, Submittable, Submit
  <2> QED BY <2>1, <2>2, RoomSubmits
<1> QED BY <1>1, <1>2, <1>3, <1>4

LEMMA RoomReceipts ==
    ASSUME ReceiveInvariant, Room, NEW id, NEW o,
           \/ AbortReceipt(id, o) \/ PromoteReceipt(id, o) \/ StaleReceipt(id, o)
           \/ FailedReceipt(id, o) \/ BlockReceipt(id, o)
    PROVE  Room'
<1>1. UNCHANGED group /\ completed # <<>> /\ completed' = Tail(completed)
  BY DEF AbortReceipt, PromoteReceipt, StaleReceipt, FailedReceipt, BlockReceipt, Receipt, writer
<1>2. \/ UNCHANGED pending /\ queue' = queue - 1
      \/ pending' = Append(pending, Len(job) + 1) /\ UNCHANGED queue
  <2>1. CASE AbortReceipt(id, o) \/ PromoteReceipt(id, o) \/ StaleReceipt(id, o) \/ FailedReceipt(id, o)
    BY <2>1 DEF AbortReceipt, PromoteReceipt, StaleReceipt, FailedReceipt, Quiet
  <2>2. CASE BlockReceipt(id, o)
    BY <2>2 DEF BlockReceipt
  <2> QED BY <2>1, <2>2
<1> QED BY <1>1, <1>2, RoomReads

LEMMA RoomWriter ==
    ASSUME ReceiveInvariant, Room, Works \/ Breaks
    PROVE  Room'
<1>1. CASE Take
  BY <1>1, RoomTake
<1>2. CASE Complete \/ CompleteFails
  BY <1>2, RoomComplete
<1>3. CASE \/ End \/ Check \/ Continue \/ Prepare \/ Barrier \/ Commit \/ Install
           \/ PrepareFails \/ BarrierFails \/ CommitFails
  <2>1. UNCHANGED <<pending, group, completed, queue>>
    BY <1>3 DEF End, Check, Continue, Prepare, Barrier, Commit, Install, PrepareFails, BarrierFails,
               CommitFails, writer, room
  <2> QED BY <2>1, RoomRests
<1> QED BY <1>1, <1>2, <1>3 DEF Works, Breaks

LEMMA RoomStep ==
    ASSUME ReceiveInvariant, Room, [ReceiveNext]_allVars
    PROVE  Room'
<1>1. CASE UNCHANGED allVars
  <2>1. UNCHANGED <<pending, group, completed, queue>>
    BY <1>1 DEF allVars, vars, writer, room
  <2> QED BY <2>1, RoomRests
<1>2. CASE TickBegin \/ Timeout \/ Withdraw
  <2>1. UNCHANGED <<pending, group, completed, queue>>
    BY <1>2 DEF TickBegin, Timeout, Withdraw, vars, writer, room
  <2> QED BY <2>1, RoomRests
<1> QED BY <1>1, <1>2, RoomWriter, RoomTickEnd, RoomReceipts, RoomFrames DEF ReceiveNext, Tick

-----------------------------------------------------------------------------
(* What the rounds point at.                                                  *)

Pointing(rs, rev, ids) ==
    \A o \in Owners : /\ rs[o].rev <= rev
                      /\ rs[o].promote \in ids \cup {NoJob} /\ rs[o].abort \in ids \cup {NoJob}

Pointers ==
    /\ Pointing(rounds, authority, DOMAIN job)
    /\ reconcile # 0 => \E o \in Owners : Active(o)
    /\ ready \in BOOLEAN /\ tick \in BOOLEAN

LEMMA Longer ==
    ASSUME NEW S, NEW s \in Seq(S)
    PROVE  /\ DOMAIN s = 1 .. Len(s) /\ Len(s) \in Nat
           /\ \A x : DOMAIN Append(s, x) = 1 .. Len(s) + 1
           /\ \A T : \A t \in Seq(T) : DOMAIN (s \o t) = 1 .. Len(s) + Len(t)
<1>1. DOMAIN s = 1 .. Len(s) /\ Len(s) \in Nat
  BY LenProperties
<1>2. ASSUME NEW x PROVE DOMAIN Append(s, x) = 1 .. Len(s) + 1
  <2>1. s \in Seq(S \cup {x})
    BY SeqMonotonic
  <2>2. Append(s, x) \in Seq(S \cup {x}) /\ Len(Append(s, x)) = Len(s) + 1
    BY <2>1, AppendProperties
  <2> QED BY <2>2, LenProperties
<1>3. ASSUME NEW T, NEW t \in Seq(T) PROVE DOMAIN (s \o t) = 1 .. Len(s) + Len(t)
  <2>1. s \in Seq(S \cup T) /\ t \in Seq(S \cup T)
    BY SeqMonotonic
  <2>2. s \o t \in Seq(S \cup T) /\ Len(s \o t) = Len(s) + Len(t)
    BY <2>1, ConcatProperties
  <2> QED BY <2>2, LenProperties
<1> QED BY <1>1, <1>2, <1>3

\* The ABORTs asked for, and their numbers.
LEMMA AbortsLong ==
    ASSUME NEW order, NEW n \in Nat
    PROVE  \E T : Aborts(order, n) \in Seq(T) /\ Len(Aborts(order, n)) = n
<1>1. PICK js : js = Aborts(order, n)
  OBVIOUS
<1>2. js = [i \in 1 .. n |-> js[i]]
  BY <1>1 DEF Aborts
<1>3. js \in [1 .. n -> {js[i] : i \in 1 .. n}]
  BY <1>2
<1> QED BY <1>1, <1>3, FunctionLen

\* Jobs are added and never taken away.
LEMMA MoreJobs ==
    ASSUME ReceiveInvariant, Room, [ReceiveNext]_allVars
    PROVE  DOMAIN job \subseteq DOMAIN job'
<1>0. DOMAIN job = 1 .. Len(job) /\ job \in Seq(JobRecords) /\ Len(job) \in Nat /\ Alike(Cancelled(ActiveJobs))
  BY Rounds, Numbers, CancelledAlike DEF Types
<1>1. CASE Works \/ Breaks
  <2>1. DOMAIN job' = DOMAIN job
    BY <1>1 DEF Works, Breaks, Take, End, Check, Continue, Prepare, Barrier, Commit, Install, Complete,
                PrepareFails, BarrierFails, CommitFails, CompleteFails
  <2> QED BY <2>1
<1>2. CASE \/ UNCHANGED job \/ job' = Cancelled(ActiveJobs)
           \/ \E x : job' = Append(job, x) \/ job' = Append(Cancelled(ActiveJobs), x)
  <2>1. CASE UNCHANGED job \/ job' = Cancelled(ActiveJobs)
    BY <2>1 DEF Cancelled
  <2>2. ASSUME NEW x, job' = Append(job, x) \/ job' = Append(Cancelled(ActiveJobs), x)
        PROVE  DOMAIN job \subseteq DOMAIN job'
    <3>1. PICK js : job' = Append(js, x) /\ js \in Seq(JobRecords) /\ Len(js) = Len(job)
      BY <1>0, <2>2 DEF Alike
    <3>2. DOMAIN job' = 1 .. Len(job) + 1
      BY <3>1, Longer
    <3> QED BY <1>0, <3>2
  <2> QED BY <1>2, <2>1, <2>2
<1>3. CASE TickEnd
  <2>1. CASE ~Admitting
    <3>1. job' = Cancelled(ActiveJobs)
      BY <1>3, <2>1 DEF TickEnd
    <3> QED BY <1>2, <3>1
  <2>2. CASE Admitting
    <3>1. PICK order \in NewestFirst(Asking), n \in Nat : job' = job \o Aborts(order, n)
      BY <1>3, <2>2, TickEndAsks
    <3>2. PICK js, T : js = Aborts(order, n) /\ js \in Seq(T) /\ Len(js) = n
      BY AbortsLong
    <3>3. DOMAIN job' = 1 .. Len(job) + n
      <4>1. job' = job \o js
        BY <3>1, <3>2
      <4> QED BY <1>0, <3>2, <4>1, Longer
    <3> QED BY <1>0, <3>3
  <2> QED BY <2>1, <2>2
<1>4. CASE Frames
  <2>1. PICK o \in Owners, b \in Blocks :
           \/ Inf(o, b) \/ \E w \in DOMAIN Announced : FirstInf(o, w, b)
           \/ BeginBlock(o, b) \/ PutRow(o, b) \/ EndBlock(o, b)
    BY <1>4 DEF Frames
  <2>2. CASE Inf(o, b)
    <3>1. UNCHANGED job \/ job' = Cancelled(ActiveJobs) \/ \E x : job' = Append(job, x)
      BY <2>2 DEF Inf, Submit, GiveUp
    <3> QED BY <1>2, <3>1
  <2>3. ASSUME NEW w \in DOMAIN Announced, FirstInf(o, w, b) PROVE DOMAIN job \subseteq DOMAIN job'
    <3> DEFINE jobs == IF w # reconcile THEN Cancelled(ActiveJobs) ELSE job
    <3>1. job' = jobs \/ job' = Cancelled(ActiveJobs) \/ \E x : job' = Append(jobs, x)
      BY <2>3 DEF FirstInf
    <3> QED BY <1>2, <3>1
  <2>4. CASE BeginBlock(o, b) \/ PutRow(o, b) \/ EndBlock(o, b)
    <3>1. \E x : job' = Append(job, x)
      BY <2>4 DEF BeginBlock, PutRow, EndBlock, Frame, Submit
    <3> QED BY <1>2, <3>1
  <2> QED BY <2>1, <2>2, <2>3, <2>4
<1>5. CASE Tick /\ ~TickEnd
  <2>1. CASE TickBegin
    BY <1>2, <2>1 DEF TickBegin, vars
  <2>2. ASSUME NEW id, NEW o,
               AbortReceipt(id, o) \/ PromoteReceipt(id, o) \/ StaleReceipt(id, o) \/ FailedReceipt(id, o)
        PROVE  DOMAIN job \subseteq DOMAIN job'
    <3>1. UNCHANGED job \/ job' = Cancelled(ActiveJobs)
      BY <2>2 DEF AbortReceipt, PromoteReceipt, StaleReceipt, FailedReceipt, Quiet, GiveUp
    <3> QED BY <1>2, <3>1
  <2>3. ASSUME NEW id, NEW o, BlockReceipt(id, o) PROVE DOMAIN job \subseteq DOMAIN job'
    <3>1. UNCHANGED job \/ job' = Cancelled(ActiveJobs) \/ \E x : job' = Append(job, x)
      BY <2>3 DEF BlockReceipt, GiveUp
    <3> QED BY <1>2, <3>1
  <2> QED BY <1>5, <2>1, <2>2, <2>3 DEF Tick
<1>6. CASE Timeout \/ Withdraw \/ UNCHANGED allVars
  BY <1>2, <1>6 DEF Timeout, Withdraw, GiveUp, allVars, vars
<1> QED BY <1>1, <1>3, <1>4, <1>5, <1>6 DEF ReceiveNext

\* What a step may make of the pointers of the rounds.
Points ==
    /\ authority <= authority'
    /\ \A o \in Owners : /\ rounds'[o].rev \in {rounds[o].rev, authority, authority'}
                         /\ rounds'[o].promote \in {rounds[o].promote, NoJob} \cup DOMAIN job'
                         /\ rounds'[o].abort \in {rounds[o].abort, NoJob} \cup DOMAIN job'

Activity ==
    \/ reconcile' = 0
    \/ /\ UNCHANGED reconcile
       /\ \A o \in Owners : Active(o) => rounds'[o].phase = "live" /\ rounds'[o].wire = rounds[o].wire
    \/ \E o \in Owners : Active(o)'

LEMMA PointersKept ==
    ASSUME ReceiveInvariant, ReceiveInvariant', Pointers, DOMAIN job \subseteq DOMAIN job',
           Points, Activity, ready' \in BOOLEAN, tick' \in BOOLEAN
    PROVE  Pointers'
<1>1. ASSUME NEW o \in Owners
      PROVE  /\ rounds'[o].rev <= authority'
             /\ rounds'[o].promote \in DOMAIN job' \cup {NoJob} /\ rounds'[o].abort \in DOMAIN job' \cup {NoJob}
  <2>1. rounds[o].rev \in Nat /\ authority \in Nat /\ authority' \in Nat
    BY Rounds DEF ReceiveInvariant, Types
  <2>2. /\ rounds[o].rev <= authority
        /\ rounds[o].promote \in DOMAIN job \cup {NoJob} /\ rounds[o].abort \in DOMAIN job \cup {NoJob}
    BY DEF Pointers, Pointing
  <2>3. rounds'[o].rev \in {rounds[o].rev, authority, authority'} /\ authority <= authority'
    BY DEF Points
  <2>4. rounds'[o].rev <= authority'
    BY <2>1, <2>2, <2>3
  <2> QED BY <2>2, <2>4 DEF Points
<1>2. reconcile' # 0 => \E o \in Owners : Active(o)'
  <2>1. CASE /\ UNCHANGED reconcile /\ reconcile # 0
             /\ \A o \in Owners : Active(o) => rounds'[o].phase = "live" /\ rounds'[o].wire = rounds[o].wire
    <3>1. PICK o \in Owners : Active(o)
      BY <2>1 DEF Pointers
    <3>2. Active(o)'
      BY <2>1, <3>1 DEF Active
    <3> QED BY <3>2
  <2> QED BY <2>1 DEF Activity
<1>3. Pointing(rounds, authority, DOMAIN job)'
  BY <1>1 DEF Pointing
<1> QED BY <1>2, <1>3 DEF Pointers

\* A round changes in what no pointer is.
SamePointers(y, x) ==
    y.rev = x.rev /\ y.promote = x.promote /\ y.abort = x.abort /\ y.phase = x.phase /\ y.wire = x.wire

LEMMA Unpointed ==
    ASSUME ReceiveInvariant, UNCHANGED <<authority, reconcile>>,
           \A o \in Owners : SamePointers(rounds'[o], rounds[o])
    PROVE  Points /\ Activity
<1>1. authority <= authority'
  BY Rounds
<1>2. Points
  BY <1>1 DEF SamePointers, Points
<1>3. Activity
  BY DEF SamePointers, Activity, Active
<1> QED BY <1>2, <1>3

LEMMA Abandons ==
    ASSUME ReceiveInvariant, NEW o \in Owners
    PROVE  /\ Abandoned[o].rev = rounds[o].rev /\ Abandoned[o].promote = rounds[o].promote
           /\ Abandoned[o].abort = rounds[o].abort
<1>1. rounds[o] \in RoundRecords
  BY Rounds
<1> QED BY <1>1 DEF Abandoned, RoundRecords

LEMMA GiveUpPoints ==
    ASSUME ReceiveInvariant, GiveUp, authority <= authority'
    PROVE  Points /\ Activity
BY Abandons DEF GiveUp, Points, Activity

LEMMA FramePoints ==
    ASSUME ReceiveInvariant, Pointers, Frames
    PROVE  Points /\ Activity /\ ready' \in BOOLEAN /\ tick' \in BOOLEAN
<1>0. /\ rounds \in [Owners -> RoundRecords] /\ authority \in Nat /\ authority <= authority
      /\ authority <= authority + 1 /\ ready \in BOOLEAN /\ tick \in BOOLEAN
  BY Rounds DEF Pointers
<1>1. PICK o \in Owners, b \in Blocks :
           \/ Inf(o, b) \/ \E w \in DOMAIN Announced : FirstInf(o, w, b)
           \/ BeginBlock(o, b) \/ PutRow(o, b) \/ EndBlock(o, b)
  BY DEF Frames
<1>2. \A s : \A p \in Owners : SamePointers([rounds EXCEPT ![o].step[b] = s][p], rounds[p])
  <2>1. ASSUME NEW s, NEW p \in Owners PROVE SamePointers([rounds EXCEPT ![o].step[b] = s][p], rounds[p])
    <3>1. rounds[o] \in RoundRecords /\ rounds[p] \in RoundRecords
      BY <1>0
    <3> QED BY <1>0, <3>1 DEF SamePointers, RoundRecords
  <2> QED BY <2>1
<1>3. \A p \in Owners : SamePointers([rounds EXCEPT ![o].puts[b] = @ + 1][p], rounds[p])
  <2>1. ASSUME NEW p \in Owners PROVE SamePointers([rounds EXCEPT ![o].puts[b] = @ + 1][p], rounds[p])
    <3>1. rounds[o] \in RoundRecords /\ rounds[p] \in RoundRecords
      BY <1>0
    <3> QED BY <1>0, <3>1 DEF SamePointers, RoundRecords
  <2> QED BY <2>1
<1>4. CASE Inf(o, b)
  <2>1. UNCHANGED <<authority, ready, tick>>
    BY <1>4 DEF Inf
  <2>2. CASE GiveUp
    BY <1>0, <2>1, <2>2, GiveUpPoints
  <2>3. CASE UNCHANGED reconcile /\ \E s : rounds' = [rounds EXCEPT ![o].step[b] = s]
    BY <1>0, <1>2, <2>1, <2>3, Unpointed
  <2> QED BY <1>4, <2>2, <2>3 DEF Inf
<1>5. CASE BeginBlock(o, b) \/ PutRow(o, b) \/ EndBlock(o, b)
  <2>1. UNCHANGED <<authority, reconcile, ready, tick>>
    BY <1>5 DEF BeginBlock, PutRow, EndBlock, Frame
  <2>2. \/ \E s : rounds' = [rounds EXCEPT ![o].step[b] = s]
        \/ rounds' = [rounds EXCEPT ![o].puts[b] = @ + 1]
    BY <1>5 DEF BeginBlock, PutRow, EndBlock, Frame
  <2> QED BY <1>0, <1>2, <1>3, <2>1, <2>2, Unpointed
<1>6. ASSUME NEW w \in DOMAIN Announced, FirstInf(o, w, b)
      PROVE  Points /\ Activity /\ ready' \in BOOLEAN /\ tick' \in BOOLEAN
  <2>1. authority <= authority' /\ ready' \in BOOLEAN /\ tick' \in BOOLEAN
    BY <1>0, <1>6 DEF FirstInf, StillReady
  <2>2. PICK x : /\ x.rev = authority' /\ x.promote = NoJob /\ x.abort = NoJob
                 /\ \/ /\ \E rs \in {rounds, Abandoned} : rounds' = [rs EXCEPT ![o] = x]
                       /\ reconcile' = w /\ x.wire = w /\ x.phase = "live"
                    \/ rounds' = [p \in Owners |-> IF p = o THEN x ELSE Abandoned[p]] /\ reconcile' = 0
    <3> DEFINE rev == IF w # reconcile THEN authority + 1 ELSE authority
               s == IF Equal(w, b) THEN "reuse" ELSE "res"
               born == [Unborn EXCEPT !.phase = "live", !.wire = w, !.rev = rev, !.step[b] = s]
    <3>1. /\ born.rev = rev /\ born.promote = NoJob /\ born.abort = NoJob /\ born.wire = w /\ born.phase = "live"
          /\ \A phase : /\ [born EXCEPT !.phase = phase].rev = rev /\ [born EXCEPT !.phase = phase].promote = NoJob
                        /\ [born EXCEPT !.phase = phase].abort = NoJob
      BY DEF Unborn
    <3>2. /\ rev = authority'
          /\ \/ /\ \E rs \in {rounds, Abandoned} : rounds' = [rs EXCEPT ![o] = born]
                /\ reconcile' = w
             \/ \E phase \in {"abandoned", "gone"} :
                   /\ rounds' = [p \in Owners |-> IF p = o THEN [born EXCEPT !.phase = phase] ELSE Abandoned[p]]
                   /\ reconcile' = 0
      BY <1>6 DEF FirstInf
    <3> HIDE DEF born, rev
    <3>3. CASE (\E rs \in {rounds, Abandoned} : rounds' = [rs EXCEPT ![o] = born]) /\ reconcile' = w
      BY <3>1, <3>2, <3>3
    <3>4. ASSUME NEW phase, reconcile' = 0,
                 rounds' = [p \in Owners |-> IF p = o THEN [born EXCEPT !.phase = phase] ELSE Abandoned[p]]
          PROVE  \E x : /\ x.rev = authority' /\ x.promote = NoJob /\ x.abort = NoJob
                        /\ rounds' = [p \in Owners |-> IF p = o THEN x ELSE Abandoned[p]] /\ reconcile' = 0
      BY <3>1, <3>2, <3>4
    <3> QED BY <3>2, <3>3, <3>4
  <2>3. \A p \in Owners : p # o => \/ rounds'[p] = rounds[p]
                                   \/ rounds'[p] = Abandoned[p]
    <3>1. Abandoned = [p \in Owners |-> Abandoned[p]]
      BY DEF Abandoned
    <3> QED BY <1>0, <2>2, <3>1
  <2>4. rounds'[o] = x
    <3>1. o \in DOMAIN Abandoned /\ o \in DOMAIN rounds
      BY <1>0 DEF Abandoned
    <3> QED BY <2>2, <3>1
  <2>5. Points
    <3>1. ASSUME NEW p \in Owners
          PROVE  /\ rounds'[p].rev \in {rounds[p].rev, authority'} /\ rounds'[p].promote \in {rounds[p].promote, NoJob}
                 /\ rounds'[p].abort \in {rounds[p].abort, NoJob}
      BY <2>2, <2>3, <2>4, Abandons
    <3> QED BY <2>1, <3>1 DEF Points
  <2>6. Activity
    BY <2>2, <2>4 DEF Activity, Active
  <2> QED BY <2>1, <2>5, <2>6
<1> QED BY <1>1, <1>4, <1>5, <1>6

LEMMA ReceiptPoints ==
    ASSUME ReceiveInvariant, Pointers, ReceiveInvariant', NEW id \in DOMAIN job, NEW o \in Owners,
           \/ AbortReceipt(id, o) \/ PromoteReceipt(id, o) \/ StaleReceipt(id, o)
           \/ FailedReceipt(id, o) \/ BlockReceipt(id, o)
    PROVE  Points /\ Activity /\ ready' \in BOOLEAN /\ tick' \in BOOLEAN
<1>0. /\ rounds \in [Owners -> RoundRecords] /\ authority \in Nat /\ authority <= authority'
      /\ UNCHANGED <<authority, tick>> /\ ready \in BOOLEAN /\ tick \in BOOLEAN
  <2>1. UNCHANGED <<authority, tick>>
    BY DEF AbortReceipt, PromoteReceipt, StaleReceipt, FailedReceipt, BlockReceipt, Receipt
  <2> QED BY <2>1, Rounds DEF Pointers
<1>1. CASE GiveUp /\ ready' \in {ready, FALSE}
  BY <1>0, <1>1, GiveUpPoints
<1>2. CASE UNCHANGED <<rounds, reconcile, ready>>
  BY <1>0, <1>2 DEF Points, Activity, Active
<1>3. CASE PromoteReceipt(id, o)
  <2>1. ready' \in BOOLEAN
    BY <1>3 DEF PromoteReceipt
  <2>2. ASSUME NEW phase, rounds' = [rounds EXCEPT ![o].phase = phase]
        PROVE  /\ Points
               /\ \A p \in Owners : p # o => rounds'[p] = rounds[p]
               /\ rounds'[o].wire = rounds[o].wire
    <3>1. rounds[o] \in RoundRecords
      BY <1>0
    <3>2. ASSUME NEW p \in Owners
          PROVE  /\ rounds'[p].rev = rounds[p].rev /\ rounds'[p].promote = rounds[p].promote
                 /\ rounds'[p].abort = rounds[p].abort /\ rounds'[p].wire = rounds[p].wire
                 /\ p # o => rounds'[p] = rounds[p]
      BY <1>0, <2>2, <3>1 DEF RoundRecords
    <3> QED BY <1>0, <3>2 DEF Points
  <2>3. CASE Live(o)
    <3>1. rounds' = [rounds EXCEPT ![o].phase = "gone"] /\ reconcile' = 0
      BY <1>3, <2>3 DEF PromoteReceipt, Done
    <3> QED BY <1>0, <2>1, <2>2, <3>1 DEF Activity
  <2>4. CASE GiveUp
    BY <1>0, <2>1, <2>4, GiveUpPoints
  <2>5. CASE /\ reconcile # rounds[o].wire /\ UNCHANGED reconcile
             /\ rounds' = [rounds EXCEPT ![o].phase = "abandoned"]
    <3>1. Points /\ \A p \in Owners : p # o => rounds'[p] = rounds[p]
      BY <2>2, <2>5
    <3>2. \A p \in Owners : Active(p) => p # o
      BY <2>5 DEF Active
    <3>3. Activity
      BY <2>5, <3>1, <3>2 DEF Activity, Active
    <3> QED BY <1>0, <2>1, <3>1, <3>3
  <2> QED BY <1>3, <2>3, <2>4, <2>5 DEF PromoteReceipt
<1>4. CASE AbortReceipt(id, o)
  <2>1. UNCHANGED <<reconcile, ready>> /\ ready' \in BOOLEAN
    BY <1>0, <1>4 DEF AbortReceipt, Quiet
  <2>2. CASE UNCHANGED rounds
    BY <1>2, <2>1, <2>2
  <2>3. CASE rounds[o].phase = "abandoned" /\ rounds' \in {Done(o), Retry(o)}
    <3>1. rounds[o] \in RoundRecords
      BY <1>0
    <3>2. ASSUME NEW p \in Owners
          PROVE  /\ rounds'[p].rev = rounds[p].rev /\ rounds'[p].promote = rounds[p].promote
                 /\ rounds'[p].abort \in {rounds[p].abort, NoJob}
                 /\ p # o => rounds'[p] = rounds[p]
      <4>1. CASE rounds' = Done(o)
        BY <1>0, <3>1, <4>1 DEF Done, RoundRecords
      <4>2. CASE rounds' = Retry(o)
        BY <1>0, <3>1, <4>2 DEF Retry, RoundRecords
      <4> QED BY <2>3, <4>1, <4>2
    <3>3. \A p \in Owners : Active(p) => p # o
      BY <2>3 DEF Active
    <3>4. Activity
      BY <2>1, <3>2, <3>3 DEF Activity, Active
    <3>5. Points
      BY <1>0, <3>2 DEF Points
    <3> QED BY <1>0, <2>1, <3>4, <3>5
  <2> QED BY <1>4, <2>2, <2>3 DEF AbortReceipt
<1>5. CASE BlockReceipt(id, o)
  <2>1. CASE GiveUp
    BY <1>1, <1>5, <2>1 DEF BlockReceipt, PromotionAdmitted
  <2>2. CASE UNCHANGED <<reconcile, ready>>
             /\ rounds' = [rounds EXCEPT ![o].step[job[id].req.block] = "durable"]
    <3>1. ASSUME NEW p \in Owners PROVE SamePointers(rounds'[p], rounds[p])
      <4>1. rounds[o] \in RoundRecords /\ rounds[p] \in RoundRecords
        BY <1>0
      <4> QED BY <1>0, <2>2, <4>1 DEF SamePointers, RoundRecords
    <3> QED BY <1>0, <2>2, <3>1, Unpointed
  <2>3. CASE /\ UNCHANGED <<reconcile, ready>>
             /\ rounds' = [[rounds EXCEPT ![o].step[job[id].req.block] = "durable"] EXCEPT ![o].promote = Len(job) + 1]
             /\ \E x : job' = Append(job, x)
    <3>1. Len(job) + 1 \in DOMAIN job'
      <4>1. job \in Seq(JobRecords) /\ Len(job) \in Nat
        BY Rounds, Numbers DEF Types
      <4>2. DOMAIN job' = 1 .. Len(job) + 1
        BY <2>3, <4>1, Longer
      <4> QED BY <4>1, <4>2
    <3>2. ASSUME NEW p \in Owners
          PROVE  /\ rounds'[p].rev = rounds[p].rev /\ rounds'[p].promote \in {rounds[p].promote, Len(job) + 1}
                 /\ rounds'[p].abort = rounds[p].abort
                 /\ rounds'[p].phase = rounds[p].phase /\ rounds'[p].wire = rounds[p].wire
      <4>1. rounds[o] \in RoundRecords /\ rounds[p] \in RoundRecords
        BY <1>0
      <4> QED BY <1>0, <2>3, <4>1 DEF RoundRecords
    <3>3. Points
      BY <1>0, <3>1, <3>2 DEF Points
    <3>4. Activity
      BY <2>3, <3>2 DEF Activity, Active
    <3> QED BY <1>0, <2>3, <3>3, <3>4
  <2> QED BY <1>5, <2>1, <2>2, <2>3 DEF BlockReceipt, PromotionAdmitted
<1>6. CASE StaleReceipt(id, o)
  BY <1>2, <1>6 DEF StaleReceipt, Quiet
<1>7. CASE FailedReceipt(id, o)
  BY <1>1, <1>7 DEF FailedReceipt
<1> QED BY <1>3, <1>4, <1>5, <1>6, <1>7

LEMMA TickEndPoints ==
    ASSUME ReceiveInvariant, Room, Pointers, TickEnd
    PROVE  Points /\ Activity /\ ready' \in BOOLEAN /\ tick' \in BOOLEAN
<1>0. /\ rounds \in [Owners -> RoundRecords] /\ authority \in Nat /\ authority <= authority'
      /\ UNCHANGED authority /\ ready' \in BOOLEAN /\ tick' \in BOOLEAN
  <2>1. UNCHANGED authority /\ tick' = FALSE /\ ready' \in {ready, FALSE}
    BY DEF TickEnd
  <2>2. rounds \in [Owners -> RoundRecords] /\ authority \in Nat
    BY Rounds
  <2>3. authority <= authority'
    BY <2>1, <2>2
  <2>4. ready' \in BOOLEAN /\ tick' \in BOOLEAN
    BY <2>1 DEF Pointers
  <2> QED BY <2>1, <2>2, <2>3, <2>4
<1>1. CASE ~Admitting
  <2>1. ASSUME NEW o \in Owners
        PROVE  /\ rounds'[o].rev = rounds[o].rev /\ rounds'[o].promote = rounds[o].promote
               /\ rounds'[o].abort = rounds[o].abort
    <3>1. rounds[o] \in RoundRecords /\ rounds'[o] \in {rounds[o], [rounds[o] EXCEPT !.phase = "gone"]}
      BY <1>0, <1>1 DEF TickEnd
    <3> QED BY <3>1 DEF RoundRecords
  <2>2. reconcile' = 0
    BY <1>1 DEF TickEnd
  <2> QED BY <1>0, <2>1, <2>2 DEF Points, Activity
<1>2. CASE Admitting
  <2>1. PICK order \in NewestFirst(Asking), n \in Nat :
              /\ job' = job \o Aborts(order, n)
              /\ rounds' = [o \in Owners |->
                              IF o \in Asking
                              THEN [rounds[o] EXCEPT !.rev = authority,
                                                     !.abort = IF o \in {order[i] : i \in 1 .. n}
                                                               THEN Len(job) + CHOOSE i \in 1 .. n : order[i] = o
                                                               ELSE NoJob]
                              ELSE rounds[o]]
    BY <1>2, TickEndAsks
  <2>2. \A k \in 1 .. n : Len(job) + k \in DOMAIN job'
    <3>1. PICK js, T : js = Aborts(order, n) /\ js \in Seq(T) /\ Len(js) = n
      BY AbortsLong
    <3>2. job \in Seq(JobRecords) /\ Len(job) \in Nat /\ job' = job \o js
      BY <2>1, <3>1, Rounds, Numbers DEF Types
    <3>3. DOMAIN job' = 1 .. Len(job) + n
      BY <3>1, <3>2, Longer
    <3> QED BY <3>2, <3>3
  <2>3. ASSUME NEW o \in Owners
        PROVE  /\ rounds'[o].rev \in {rounds[o].rev, authority} /\ rounds'[o].promote = rounds[o].promote
               /\ rounds'[o].abort \in {rounds[o].abort, NoJob} \cup DOMAIN job'
               /\ rounds'[o].phase = rounds[o].phase /\ rounds'[o].wire = rounds[o].wire
    <3>1. rounds[o] \in RoundRecords
      BY <1>0
    <3>2. CASE o \notin Asking
      BY <2>1, <3>2
    <3>3. CASE o \in Asking
      <4>1. PICK a : /\ rounds'[o] = [rounds[o] EXCEPT !.rev = authority, !.abort = a]
                     /\ a = IF o \in {order[i] : i \in 1 .. n} THEN Len(job) + CHOOSE i \in 1 .. n : order[i] = o
                            ELSE NoJob
        BY <2>1, <3>3
      <4>2. a \in {NoJob} \cup DOMAIN job'
        <5>1. CASE o \in {order[i] : i \in 1 .. n}
          <6>1. (CHOOSE i \in 1 .. n : order[i] = o) \in 1 .. n
            BY <5>1
          <6> QED BY <2>2, <4>1, <5>1, <6>1
        <5> QED BY <4>1, <5>1
      <4> QED BY <3>1, <4>1, <4>2 DEF RoundRecords
    <3> QED BY <3>2, <3>3
  <2>4. UNCHANGED reconcile
    BY <1>2 DEF TickEnd
  <2>5. Points
    BY <1>0, <2>3 DEF Points
  <2>6. Activity
    BY <2>3, <2>4 DEF Activity, Active
  <2> QED BY <1>0, <2>5, <2>6
<1> QED BY <1>1, <1>2

LEMMA IdlePoints ==
    ASSUME ReceiveInvariant, Pointers,
           \/ (Works \/ Breaks) /\ UNCHANGED receive
           \/ TickBegin \/ Timeout \/ Withdraw \/ UNCHANGED allVars
    PROVE  Points /\ Activity /\ ready' \in BOOLEAN /\ tick' \in BOOLEAN
<1>0. authority \in Nat /\ authority <= authority /\ authority <= authority + 1 /\ ready \in BOOLEAN /\ tick \in BOOLEAN
  BY Rounds DEF Pointers
<1>1. CASE UNCHANGED <<rounds, reconcile, ready>> /\ authority <= authority' /\ tick' \in BOOLEAN
  BY <1>0, <1>1 DEF Points, Activity, Active
<1>2. CASE (Works \/ Breaks) /\ UNCHANGED receive
  <2>1. UNCHANGED authority
    BY <1>2 DEF Works, Breaks, Take, End, Check, Continue, Prepare, Barrier, Commit, Install, Complete,
                PrepareFails, BarrierFails, CommitFails, CompleteFails
  <2> QED BY <1>0, <1>1, <1>2, <2>1 DEF receive
<1>3. CASE TickBegin
  BY <1>0, <1>1, <1>3 DEF TickBegin, vars
<1>4. CASE Timeout
  <2>1. UNCHANGED <<authority, ready, tick>> /\ GiveUp
    BY <1>4 DEF Timeout
  <2> QED BY <1>0, <2>1, GiveUpPoints
<1>5. CASE Withdraw
  <2>1. authority <= authority' /\ ready' \in BOOLEAN /\ tick' \in BOOLEAN
    BY <1>0, <1>5 DEF Withdraw
  <2>2. CASE GiveUp
    BY <2>1, <2>2, GiveUpPoints
  <2>3. CASE UNCHANGED <<rounds, reconcile>>
    BY <2>1, <2>3 DEF Points, Activity, Active
  <2> QED BY <1>5, <2>1, <2>2, <2>3 DEF Withdraw
<1>6. CASE UNCHANGED allVars
  BY <1>0, <1>1, <1>6 DEF allVars, vars, receive
<1> QED BY <1>2, <1>3, <1>4, <1>5, <1>6

-----------------------------------------------------------------------------
(* The theorems.                                                              *)

FullInvariant == ReceiveInvariant /\ Room /\ Pointers

LEMMA ReceiveStep ==
    ASSUME FullInvariant, [ReceiveNext]_allVars
    PROVE  FullInvariant'
<1>0. ReceiveInvariant /\ Room /\ Pointers
  BY DEF FullInvariant
<1>1. ReceiveInvariant'
  <2>1. CASE Tick
    BY <1>0, <2>1, TickBeginStep, TickEndStep, ReceiptStep, BlockReceiptStep DEF Tick
  <2>2. CASE Frames
    BY <1>0, <2>2, InfStep, FirstInfStep, FrameStep DEF Frames
  <2>3. CASE \/ (Works \/ Breaks) /\ UNCHANGED receive
             \/ Timeout \/ Withdraw \/ UNCHANGED allVars
    BY <1>0, <2>3, WriterSteps, WithdrawStep, TickBeginStep
  <2> QED BY <2>1, <2>2, <2>3 DEF ReceiveNext
<1>2. Room'
  BY <1>0, RoomStep
<1>3. Points /\ Activity /\ ready' \in BOOLEAN /\ tick' \in BOOLEAN
  <2>1. CASE Tick
    BY <1>0, <1>1, <2>1, IdlePoints, TickEndPoints, ReceiptPoints DEF Tick
  <2>2. CASE Frames
    BY <1>0, <2>2, FramePoints
  <2>3. CASE \/ (Works \/ Breaks) /\ UNCHANGED receive
             \/ Timeout \/ Withdraw \/ UNCHANGED allVars
    BY <1>0, <2>3, IdlePoints
  <2> QED BY <2>1, <2>2, <2>3 DEF ReceiveNext
<1>4. Pointers'
  BY <1>0, <1>1, <1>3, MoreJobs, PointersKept
<1> QED BY <1>1, <1>2, <1>4 DEF FullInvariant

LEMMA ReceiveStart ==
    ASSUME ReceiveInit
    PROVE  FullInvariant
<1>0. Init
  BY DEF ReceiveInit
<1>1. /\ pc = "wait" /\ pending = <<>> /\ group = <<>> /\ candidate = EmptyRoot /\ durable = EmptyRoot
      /\ own = NoOwners /\ at = 1 /\ outcome = "OK" /\ authority = 1 /\ job = <<>> /\ completed = <<>> /\ queue = 0
  BY <1>0 DEF Init
<1>2. /\ rounds = [o \in Owners |-> Unborn] /\ reconcile = 0 /\ ready = FALSE /\ tick = FALSE
  BY DEF ReceiveInit
<1>3. \A S : <<>> \in Seq(S) /\ Len(<<>>) = 0
  OBVIOUS
<1>4. EmptyRoot \in Roots /\ EmptyRoot.log = <<>> /\ \A o \in Owners : EmptyRoot.stages[o] = NoStage
  BY <1>3 DEF EmptyRoot, Roots
<1>5. Unborn \in RoundRecords /\ Unborn.phase = "unborn" /\ Unborn.promote = NoJob /\ Unborn.abort = NoJob
      /\ Unborn.rev = 0
  BY DEF Unborn, RoundRecords, Phases, Steps, NoJob
<1>6. own \in [Owners -> Controllers \cup {NoStage}] /\ \A o \in Owners : own[o] = NoStage
  BY <1>1 DEF NoOwners
<1>7. Types
  <2>1. job \in Seq(JobRecords) /\ pending \in Seq(Nat) /\ group \in Seq(Nat)
    BY <1>1, <1>3
  <2>2. rounds \in [Owners -> RoundRecords]
    BY <1>2, <1>5
  <2>3. at \in Nat /\ authority \in Nat
    BY <1>1
  <2>4. candidate \in Roots /\ durable \in Roots
    BY <1>1, <1>4
  <2>5. /\ pc \in {"wait", "check", "prepare", "commit", "install", "complete", "ended"}
        /\ outcome \in {"OK", "BUSY", "LIMIT", "ERROR"}
    BY <1>1
  <2> QED BY <1>6, <2>1, <2>2, <2>3, <2>4, <2>5 DEF Types
<1>8. Taken = 0 /\ Handed = 0
  <2>1. Len(job) = 0 /\ Len(pending) = 0 /\ Len(group) = 0
    BY <1>1, EmptySeq
  <2> QED BY <2>1 DEF Taken, Handed
<1>9. Line
  BY <1>1, <1>3, <1>8 DEF Line, Preparing
<1>10. Durable = <<>> /\ Len(Durable) = 0
  BY <1>1, <1>3, <1>4 DEF Durable
<1>11. Logs
  BY <1>1, <1>10 DEF Logs, Preparing
<1>12. Words
  <2>1. Opened
    BY <1>2, <1>5 DEF Opened, Born
  <2>2. Instructed(own)
    BY <1>6 DEF Instructed
  <2>3. Faithful(durable)
    BY <1>1, <1>4 DEF Faithful
  <2> QED BY <1>1, <1>3, <2>1, <2>2, <2>3 DEF Words, Preparing
<1>13. Deeds
  BY <1>1, <1>10 DEF Deeds, Preparing
<1>14. Room
  <2>1. 0 <= QueueLimit /\ 0 = 0 + 0 + 0
    BY WriterAssumption
  <2> QED BY <1>1, <1>3, <2>1 DEF Room
<1>15. Pointers
  <2>1. ASSUME NEW o \in Owners
        PROVE  /\ rounds[o].rev <= authority
               /\ rounds[o].promote \in DOMAIN job \cup {NoJob} /\ rounds[o].abort \in DOMAIN job \cup {NoJob}
    <3>1. rounds[o] = Unborn
      BY <1>2
    <3>2. rounds[o].rev <= authority
      BY <1>1, <1>5, <3>1
    <3> QED BY <1>5, <3>1, <3>2
  <2>2. Pointing(rounds, authority, DOMAIN job)
    BY <2>1 DEF Pointing
  <2> QED BY <1>2, <2>2 DEF Pointers
<1> QED BY <1>7, <1>9, <1>11, <1>12, <1>13, <1>14, <1>15 DEF FullInvariant, ReceiveInvariant

\* The invariant of the receiver together with the writer holds, for every bound.
THEOREM ReceiveInvariantHolds == ReceiveSpec => []FullInvariant
<1>1. ReceiveInit => FullInvariant
  BY ReceiveStart
<1>2. FullInvariant /\ [ReceiveNext]_allVars => FullInvariant'
  BY ReceiveStep
<1> QED BY <1>1, <1>2, PTL DEF ReceiveSpec

LEMMA ExactPromotions == FullInvariant => PromotionExact
<1> SUFFICES ASSUME FullInvariant, NEW id \in ToSet(Durable)
             PROVE  LET j == job[id]
                        o == j.req.owner
                        w == rounds[o].wire
                    IN  IF j.req.kind = "PROMOTE"
                        THEN /\ j.after.blocks = AnnouncedBlocks(w) /\ Lineage(j.after) = Lineage(Announced[w])
                             /\ j.after.stages[o] = NoStage
                        ELSE j.after.blocks = j.before.blocks /\ Lineage(j.after) = Lineage(j.before)
  BY DEF PromotionExact
<1>1. Types /\ Deeds
  BY DEF FullInvariant, ReceiveInvariant
<1>2. PICK i \in 1 .. Len(Durable) : Durable[i] = id
  <2>1. Durable \in Seq(Nat)
    BY <1>1 DEF Types, Roots, Durable
  <2> QED BY <2>1 DEF ToSet
<1>3. Exact(id)
  BY <1>1, <1>2 DEF Deeds
<1> QED BY <1>3 DEF Exact, Moves, Promise

\* udb_storage_stages.h: the blocks and the lineage of the store move only at a promotion,
\* and then to exactly what one round announced, whatever is lost, late, refused or retried.
THEOREM PromotionsAreExact == ReceiveSpec => []PromotionExact
<1>1. FullInvariant => PromotionExact
  BY ExactPromotions
<1> QED BY <1>1, ReceiveInvariantHolds, PTL

LEMMA ReceiverTypes == FullInvariant => ReceiveTypeOK
<1> SUFFICES ASSUME FullInvariant PROVE ReceiveTypeOK
  OBVIOUS
<1>1. ReceiveInvariant /\ Room /\ Pointers
  BY DEF FullInvariant
<1>2. ASSUME NEW o \in Owners
      PROVE  /\ rounds[o].phase \in Phases /\ rounds[o].rev \in 0 .. authority
             /\ \A b \in Blocks : rounds[o].step[b] \in Steps /\ rounds[o].puts[b] \in Nat
             /\ {rounds[o].promote, rounds[o].abort} \subseteq DOMAIN job \cup {NoJob}
  <2>1. rounds[o] \in RoundRecords /\ rounds[o].rev \in Nat /\ authority \in Nat
    BY <1>1, Rounds
  <2>2. rounds[o].rev <= authority /\ {rounds[o].promote, rounds[o].abort} \subseteq DOMAIN job \cup {NoJob}
    BY <1>1 DEF Pointers, Pointing
  <2> QED BY <2>1, <2>2 DEF RoundRecords
<1> QED BY <1>1, <1>2 DEF ReceiveTypeOK, Room, Pointers

\* The rounds, the event and the queue have their types; the active round is a live one, and
\* what the queue charges for is exactly the jobs that are not freed.
THEOREM ReceiveTypeCorrect == ReceiveSpec => []ReceiveTypeOK
<1>1. FullInvariant => ReceiveTypeOK
  BY ReceiverTypes
<1> QED BY <1>1, ReceiveInvariantHolds, PTL
=============================================================================
