---------------------------- MODULE UdbSyncProofs ----------------------------
(* Proofs about UdbSync, for every number of blocks, every stream of mutations and  *)
(* every bound on faults: the replica's durable root is one the authority had, and  *)
(* a replica that is READY misses nothing of what it accepted.                      *)
EXTENDS UdbSync, SequenceTheorems, FiniteSetTheorems, WellFoundedInduction, TLAPS

-----------------------------------------------------------------------------
(* Induction, over sets of numbers.                                           *)

\* Every set of numbers that is not empty has a first one.
LEMMA Least ==
    ASSUME NEW T, T \subseteq Nat, T # {}
    PROVE  \E x \in T : \A y \in T : x <= y
<1>1. IsWellFoundedOn(OpToRel(<, Nat), Nat)
  BY NatLessThanWellFounded
<1>2. PICK x \in T : \A y \in T : ~ (<<y, x>> \in OpToRel(<, Nat))
  BY <1>1, WFMin
<1>3. \A y \in T : ~ (y < x)
  BY <1>2 DEF OpToRel
<1>4. \A y \in T : x \in Nat /\ y \in Nat
  BY <1>2
<1>5. \A y \in T : x <= y
  BY <1>3, <1>4
<1> QED BY <1>2, <1>5

LEMMA Induction ==
    ASSUME NEW S, 0 \in S, \A n \in Nat : n \in S => n + 1 \in S
    PROVE  Nat \subseteq S
<1> SUFFICES ASSUME NEW m \in Nat, m \notin S PROVE FALSE
  OBVIOUS
<1>1. PICK x \in {k \in Nat : k \notin S} : \A y \in {k \in Nat : k \notin S} : x <= y
  BY Least
<1>2. x # 0 /\ x \in Nat /\ x - 1 \in Nat /\ x - 1 + 1 = x /\ ~ (x <= x - 1)
  BY <1>1
<1>3. x - 1 \in S
  BY <1>1, <1>2
<1> QED BY <1>1, <1>2, <1>3

LEMMA First ==
    ASSUME NEW S, S \subseteq Nat, S # {}
    PROVE  FirstOf(S) \in S
<1>1. \E n \in S : \A k \in S : n <= k
  BY Least
<1> QED BY <1>1 DEF FirstOf

\* What a list keeps of itself.
KeptBy(s, S) == CHOOSE f : f = [i \in 0 .. Len(s) |-> IF i = 0 THEN <<>>
                                  ELSE IF s[i] \in S THEN Append(f[i - 1], s[i]) ELSE f[i - 1]]

LEMMA KeptUnfolds ==
    ASSUME NEW T, NEW s \in Seq(T), NEW S
    PROVE  /\ Only(s, S) = KeptBy(s, S)[Len(s)]
           /\ \A i \in 0 .. Len(s) : KeptBy(s, S)[i] =
                  IF i = 0 THEN <<>>
                  ELSE IF s[i] \in S THEN Append(KeptBy(s, S)[i - 1], s[i]) ELSE KeptBy(s, S)[i - 1]
<1> DEFINE Step(f, i) == IF i = 0 THEN <<>> ELSE IF s[i] \in S THEN Append(f[i - 1], s[i]) ELSE f[i - 1]
           Long == {n \in Nat : \E f : f = [i \in 0 .. n |-> Step(f, i)]}
<1>1. 0 \in Long
  <2> DEFINE f == [i \in 0 .. 0 |-> <<>>]
  <2>1. f = [i \in 0 .. 0 |-> Step(f, i)]
    OBVIOUS
  <2> QED BY <2>1
<1>2. ASSUME NEW n \in Nat, n \in Long PROVE n + 1 \in Long
  <2>1. PICK f : f = [i \in 0 .. n |-> Step(f, i)]
    BY <1>2
  <2>5. \A i \in 0 .. n : f[i] = Step(f, i)
    <3> HIDE DEF Step
    <3> QED BY <2>1
  <2> DEFINE g == [i \in 0 .. n + 1 |-> IF i <= n THEN f[i] ELSE Step(f, i)]
  <2>2. \A i \in 0 .. n + 1 : g[i] = Step(g, i)
    <3> TAKE i \in 0 .. n + 1
    <3>1. CASE i = 0
      BY <2>1, <3>1
    <3>2. CASE i # 0
      <4>1. i - 1 \in 0 .. n
        BY <3>2
      <4>2. g[i - 1] = f[i - 1]
        BY <4>1
      <4>3. i <= n => f[i] = Step(f, i)
        BY <2>5, <3>2
      <4>4. g[i] = Step(f, i)
        BY <4>3
      <4>5. Step(f, i) = Step(g, i)
        BY <4>2, <3>2
      <4> QED BY <4>4, <4>5
    <3> QED BY <3>1, <3>2
  <2>3. g = [i \in 0 .. n + 1 |-> g[i]]
    OBVIOUS
  <2>4. g = [i \in 0 .. n + 1 |-> Step(g, i)]
    <3> HIDE DEF g, Step
    <3> QED BY <2>2, <2>3
  <2> HIDE DEF g, Step
  <2>6. \E h : h = [i \in 0 .. n + 1 |-> Step(h, i)]
    BY <2>4
  <2> QED BY <2>6
<1>3. Len(s) \in Long
  <2> HIDE DEF Long
  <2>1. Nat \subseteq Long
    BY <1>1, <1>2, Induction
  <2>2. Len(s) \in Nat
    BY LenProperties
  <2> QED BY <2>1, <2>2
<1>4. \E f : f = [i \in 0 .. Len(s) |-> Step(f, i)]
  BY <1>3
<1>5. KeptBy(s, S) = [i \in 0 .. Len(s) |-> Step(KeptBy(s, S), i)]
  BY <1>4 DEF KeptBy
<1>6. Only(s, S) = KeptBy(s, S)[Len(s)]
  BY DEF Only, KeptBy
<1>7. \A i \in 0 .. Len(s) : KeptBy(s, S)[i] = Step(KeptBy(s, S), i)
  <2> DEFINE k == KeptBy(s, S)
  <2> HIDE DEF k, Step
  <2>1. k = [i \in 0 .. Len(s) |-> Step(k, i)]
    BY <1>5 DEF k
  <2>2. \A i \in 0 .. Len(s) : k[i] = Step(k, i)
    BY <2>1
  <2> QED BY <2>2 DEF k
<1> QED BY <1>6, <1>7

LEMMA OnlyType ==
    ASSUME NEW T, NEW s \in Seq(T), NEW S
    PROVE  Only(s, S) \in Seq(T)
<1> DEFINE f == KeptBy(s, S)
           Good == {n \in Nat : n <= Len(s) => f[n] \in Seq(T)}
<1>1. Len(s) \in Nat /\ \A i \in 1 .. Len(s) : s[i] \in T
  BY LenProperties, ElementOfSeq
<1>2. \A i \in 0 .. Len(s) : f[i] = IF i = 0 THEN <<>> ELSE IF s[i] \in S THEN Append(f[i - 1], s[i]) ELSE f[i - 1]
  BY KeptUnfolds
<1> HIDE DEF f
<1>3. 0 \in Good
  <2>1. f[0] = <<>>
    <3>1. 0 \in 0 .. Len(s)
      BY <1>1
    <3> QED BY <1>2, <3>1
  <2>2. <<>> \in Seq(T)
    OBVIOUS
  <2> QED BY <2>1, <2>2
<1>4. ASSUME NEW n \in Nat, n \in Good PROVE n + 1 \in Good
  <2> SUFFICES ASSUME n + 1 <= Len(s) PROVE f[n + 1] \in Seq(T)
    OBVIOUS
  <2>1. f[n] \in Seq(T) /\ n + 1 \in 0 .. Len(s) /\ n + 1 \in 1 .. Len(s) /\ n + 1 - 1 = n /\ n + 1 # 0
    BY <1>1, <1>4
  <2>2. f[n + 1] = IF s[n + 1] \in S THEN Append(f[n], s[n + 1]) ELSE f[n]
    BY <1>2, <2>1
  <2>3. s[n + 1] \in T
    BY <1>1, <2>1
  <2> QED BY <2>1, <2>2, <2>3, AppendProperties
<1>5. Len(s) \in Good
  <2> HIDE DEF Good
  <2>1. Nat \subseteq Good
    BY <1>3, <1>4, Induction
  <2> QED BY <1>1, <2>1
<1>6. f[Len(s)] \in Seq(T)
  BY <1>1, <1>5
<1> QED BY <1>6, KeptUnfolds DEF f

\* A set of blocks can be served in its order.
LEMMA Sorts ==
    ASSUME NEW S, S \subseteq Nat, IsFiniteSet(S)
    PROVE  Ascending(S) # {}
<1> DEFINE Sorted(n) == \A B \in SUBSET Nat :
                IsFiniteSet(B) /\ Cardinality(B) = n => \E s \in [1 .. n -> B] : \A i, j \in 1 .. n : i < j => s[i] < s[j]
           Long == {n \in Nat : Sorted(n)}
<1>1. 0 \in Long
  <2> SUFFICES ASSUME NEW B \in SUBSET Nat, IsFiniteSet(B), Cardinality(B) = 0
               PROVE  \E s \in [1 .. 0 -> B] : \A i, j \in 1 .. 0 : i < j => s[i] < s[j]
    OBVIOUS
  <2>1. [i \in 1 .. 0 |-> i] \in [1 .. 0 -> B]
    OBVIOUS
  <2> QED BY <2>1
<1>2. ASSUME NEW n \in Nat, n \in Long PROVE n + 1 \in Long
  <2> SUFFICES ASSUME NEW B \in SUBSET Nat, IsFiniteSet(B), Cardinality(B) = n + 1
               PROVE  \E s \in [1 .. n + 1 -> B] : \A i, j \in 1 .. n + 1 : i < j => s[i] < s[j]
    OBVIOUS
  <2>1. B # {}
    BY FS_EmptySet
  <2>2. PICK x \in B : \A y \in B : x <= y
    BY <2>1, Least
  <2>3. IsFiniteSet(B \ {x}) /\ Cardinality(B \ {x}) = n /\ B \ {x} \in SUBSET Nat
    BY FS_RemoveElement
  <2>4. Sorted(n)
    BY <1>2
  <2>5. PICK s \in [1 .. n -> B \ {x}] : \A i, j \in 1 .. n : i < j => s[i] < s[j]
    BY <2>3, <2>4
  <2> DEFINE t == [i \in 1 .. n + 1 |-> IF i = 1 THEN x ELSE s[i - 1]]
  <2>6. t \in [1 .. n + 1 -> B]
    BY <2>2, <2>5
  <2>7. ASSUME NEW i \in 1 .. n + 1, NEW j \in 1 .. n + 1, i < j PROVE t[i] < t[j]
    <3>1. j - 1 \in 1 .. n /\ t[j] = s[j - 1] /\ s[j - 1] \in B \ {x} /\ x \in Nat /\ s[j - 1] \in Nat
      <4>1. j # 1 /\ j - 1 \in 1 .. n
        BY <2>7
      <4>2. s[j - 1] \in B \ {x}
        BY <2>5, <4>1
      <4> QED BY <4>1, <4>2
    <3>2. CASE i = 1
      <4>1. t[i] = x /\ x <= s[j - 1] /\ x # s[j - 1]
        BY <2>2, <3>1, <3>2
      <4> QED BY <3>1, <4>1
    <3>3. CASE i # 1
      <4>1. i - 1 \in 1 .. n /\ t[i] = s[i - 1] /\ i - 1 < j - 1
        BY <2>7, <3>3
      <4> QED BY <2>5, <3>1, <4>1
    <3> QED BY <3>2, <3>3
  <2> HIDE DEF t
  <2> QED BY <2>6, <2>7
<1>3. Cardinality(S) \in Long
  <2> HIDE DEF Long
  <2>1. Nat \subseteq Long
    BY <1>1, <1>2, Induction
  <2>2. Cardinality(S) \in Nat
    BY FS_CardinalityType
  <2> QED BY <2>1, <2>2
<1>4. PICK s \in [1 .. Cardinality(S) -> S] : \A i, j \in 1 .. Cardinality(S) : i < j => s[i] < s[j]
  BY <1>3
<1>5. s \in Ascending(S)
  BY <1>4 DEF Ascending
<1> QED BY <1>5

-----------------------------------------------------------------------------
(* The stream of mutations.                                                   *)

LEMMA Stream == MaxSeq \in Nat /\ \A n \in 1 .. MaxSeq : Touch[n] \in Blocks
<1>1. Touch \in Seq(Blocks)
  BY SyncAssumption
<1> QED BY <1>1, LenProperties, ElementOfSeq DEF MaxSeq

LEMMA Greatest ==
    ASSUME NEW S, S \subseteq Nat, NEW x \in S, \A k \in S : k <= x
    PROVE  LastOf(S) = x
<1>1. LastOf(S) \in S /\ \A k \in S : k <= LastOf(S)
  BY DEF LastOf
<1>2. LastOf(S) <= x /\ x <= LastOf(S) /\ LastOf(S) \in Nat /\ x \in Nat
  BY <1>1
<1> QED BY <1>2

LEMMA ContentStart == \A b : Content(b, 0) = 0
<1> TAKE b
<1>1. {0} \cup {k \in 1 .. 0 : Touch[k] = b} = {0}
  OBVIOUS
<1>2. LastOf({0}) = 0
  BY Greatest
<1> QED BY <1>1, <1>2 DEF Content

LEMMA ContentStep ==
    ASSUME NEW n \in Nat, NEW b
    PROVE  Content(b, n + 1) = IF Touch[n + 1] = b THEN n + 1 ELSE Content(b, n)
<1> DEFINE S == {0} \cup {k \in 1 .. n + 1 : Touch[k] = b}
<1>1. CASE Touch[n + 1] = b
  <2>1. S \subseteq Nat /\ n + 1 \in S /\ \A k \in S : k <= n + 1
    BY <1>1
  <2> HIDE DEF S
  <2>2. LastOf(S) = n + 1
    BY <2>1, Greatest
  <2> QED BY <1>1, <2>2 DEF Content, S
<1>2. CASE Touch[n + 1] # b
  <2>1. S = {0} \cup {k \in 1 .. n : Touch[k] = b}
    BY <1>2
  <2> QED BY <1>2, <2>1 DEF Content
<1> QED BY <1>1, <1>2

LEMMA ContentType == \A n \in Nat : \A b : Content(b, n) \in 0 .. n
<1> DEFINE Good == {n \in Nat : \A b : Content(b, n) \in 0 .. n}
<1>1. 0 \in Good
  BY ContentStart
<1>2. ASSUME NEW n \in Nat, n \in Good PROVE n + 1 \in Good
  <2>1. ASSUME NEW b PROVE Content(b, n + 1) \in 0 .. n + 1
    BY <1>2, ContentStep
  <2> QED BY <2>1
<1>3. Nat \subseteq Good
  <2> HIDE DEF Good
  <2> QED BY <1>1, <1>2, Induction
<1> QED BY <1>3

RootRecords == [seq : 0 .. MaxSeq, blocks : [Blocks -> 0 .. MaxSeq]]

LEMMA RootType == \A n \in 0 .. MaxSeq : Root(n) \in RootRecords
<1> TAKE n \in 0 .. MaxSeq
<1>1. n \in Nat /\ MaxSeq \in Nat /\ n <= MaxSeq
  BY Stream
<1>2. \A b \in Blocks : Content(b, n) \in 0 .. MaxSeq
  <2> TAKE b \in Blocks
  <2>1. Content(b, n) \in 0 .. n
    BY <1>1, ContentType
  <2> QED BY <1>1, <2>1
<1> QED BY <1>1, <1>2 DEF Root, RootRecords

\* A mutation takes the root of its predecessors to its own.
LEMMA RootStep ==
    ASSUME NEW n \in Nat
    PROVE  Root(n + 1) = [seq |-> n + 1, blocks |-> [Root(n).blocks EXCEPT ![Touch[n + 1]] = n + 1]]
<1>1. \A b \in Blocks : Content(b, n + 1) = IF Touch[n + 1] = b THEN n + 1 ELSE Content(b, n)
  BY ContentStep
<1>2. [b \in Blocks |-> Content(b, n + 1)] = [[b \in Blocks |-> Content(b, n)] EXCEPT ![Touch[n + 1]] = n + 1]
  BY <1>1
<1> QED BY <1>2 DEF Root

-----------------------------------------------------------------------------
(* Types.                                                                     *)

Replies == [m : {"HEL", "MANIFEST"}] \cup [m : {"RES"}, id : Nat, b : Blocks]
             \cup [m : {"ACK"}, id : Nat, b : Blocks, w : 0 .. MaxSeq, d : 0 .. MaxSeq]

Contacts == {a \in [pending : BOOLEAN, acked : SUBSET Blocks, wm : 0 .. MaxSeq] : a.acked # {} => a.pending}

Nodes == [ready : BOOLEAN, active : Nat, wm : 0 .. MaxSeq, inv : SUBSET Blocks,
          spec : [Blocks -> 0 .. MaxSeq], pend : SUBSET Blocks, durable : SUBSET Blocks,
          promo : {"no", "asked", "done"}, retry : 0 .. RetryMax, armed : BOOLEAN,
          dels : Seq(Deliveries), jobs : Seq(Jobs), done : Seq(Receipts), root : RootRecords,
          stage : [Blocks -> 0 .. MaxSeq], applied : 0 .. MaxSeq, ae : Contacts,
          out : Seq(Replies), accepted : 0 .. MaxSeq, exhausted : BOOLEAN]

-----------------------------------------------------------------------------
(* What is known of a round at the replica.                                   *)

\* A job or a receipt of the round that is active.
Mine(j) == OfRound(j) /\ j.mine

\* It asks for what was announced.
Asked(r, j) ==
    /\ r.active # 0 /\ j.n = r.wm /\ r.promo # "done"
    /\ IF j.k = "PROMOTE" THEN r.promo = "asked" ELSE j.b \in r.inv /\ j.d = r.spec[j.b]

Masks(r) ==
    /\ r.durable \subseteq r.inv /\ r.pend \subseteq r.inv
    /\ \A b \in r.inv : r.spec[b] = Content(b, r.wm)
    /\ \A b \in r.durable : r.stage[b] = Content(b, r.wm)
    /\ r.active = 0 => r.inv = {} /\ r.promo = "no"
    /\ r.promo # "no" => r.durable = Blocks /\ r.pend = {}

\* What is withdrawn, and what is forgotten, commits nothing and counts for nothing.
Line(r) ==
    /\ \A i \in 1 .. Len(r.jobs) :
          LET j == r.jobs[i]
          IN  /\ ~OfRound(j) => j.n >= 1 /\ j.b = Touch[j.n]
              /\ OfRound(j) /\ j.live => j.mine
              /\ Mine(j) => Asked(r, j)
    /\ \A i \in 1 .. Len(r.done) :
          LET j == r.done[i]
          IN  Mine(j) => Asked(r, j) /\ (j.k # "PROMOTE" /\ j.ok => r.stage[j.b] = Content(j.b, r.wm))

\* Nothing of the round comes after its promotion.
Promoting(r) ==
    /\ \A i, k \in 1 .. Len(r.jobs) : i < k /\ Mine(r.jobs[i]) /\ r.jobs[i].k = "PROMOTE" => ~Mine(r.jobs[k])
    /\ \A i, k \in 1 .. Len(r.done) : i < k /\ Mine(r.done[i]) /\ r.done[i].k = "PROMOTE" => ~Mine(r.done[k])
    /\ \A i \in 1 .. Len(r.done), k \in 1 .. Len(r.jobs) :
          Mine(r.done[i]) /\ r.done[i].k = "PROMOTE" => ~Mine(r.jobs[k])

Prefix(r) == r.root = Root(r.root.seq)

Good(r) == r \in Nodes /\ Masks(r) /\ Line(r) /\ Promoting(r) /\ Prefix(r)

\* No job and no receipt is of the round.
Free(r) ==
    /\ \A i \in 1 .. Len(r.jobs) : ~Mine(r.jobs[i])
    /\ \A i \in 1 .. Len(r.done) : ~Mine(r.done[i])

-----------------------------------------------------------------------------
(* What changes nothing of the round, or ends it.                             *)

SameRound(s, r) ==
    /\ s.active = r.active /\ s.wm = r.wm /\ s.inv = r.inv /\ s.spec = r.spec /\ s.pend = r.pend
    /\ s.durable = r.durable /\ s.promo = r.promo /\ s.root = r.root /\ s.stage = r.stage

\* The jobs and the receipts are the same, but for what was withdrawn or forgotten.
LesserJob(x, y) ==
    /\ x.k = y.k /\ x.b = y.b /\ x.d = y.d /\ x.n = y.n
    /\ (x.mine => y.mine) /\ (x.live => y.live) /\ (OfRound(x) /\ x.live => x.mine)
LesserReceipt(x, y) ==
    x.k = y.k /\ x.b = y.b /\ x.d = y.d /\ x.n = y.n /\ x.ok = y.ok /\ (x.mine => y.mine)
LesserJobs(xs, ys) == Len(xs) = Len(ys) /\ \A i \in 1 .. Len(ys) : LesserJob(xs[i], ys[i])
LesserReceipts(xs, ys) == Len(xs) = Len(ys) /\ \A i \in 1 .. Len(ys) : LesserReceipt(xs[i], ys[i])

LEMMA Same ==
    ASSUME NEW r, Good(r)
    PROVE  LesserJobs(r.jobs, r.jobs) /\ LesserReceipts(r.done, r.done)
BY DEF Good, Line, LesserJobs, LesserReceipts, LesserJob, LesserReceipt

LEMMA Less ==
    ASSUME NEW r, Good(r), NEW s \in Nodes, SameRound(s, r),
           LesserJobs(s.jobs, r.jobs), LesserReceipts(s.done, r.done)
    PROVE  Good(s) /\ (Free(r) => Free(s))
<1>1. Len(s.jobs) = Len(r.jobs) /\ Len(s.done) = Len(r.done)
  BY DEF LesserJobs, LesserReceipts
<1>2. ASSUME NEW i \in 1 .. Len(r.jobs)
      PROVE  LesserJob(s.jobs[i], r.jobs[i]) /\ (Mine(s.jobs[i]) => Mine(r.jobs[i]))
  BY DEF LesserJobs, LesserJob, Mine, OfRound
<1>3. ASSUME NEW i \in 1 .. Len(r.done)
      PROVE  LesserReceipt(s.done[i], r.done[i]) /\ (Mine(s.done[i]) => Mine(r.done[i]))
  BY DEF LesserReceipts, LesserReceipt, Mine, OfRound
<1>4. Masks(s) /\ Prefix(s)
  BY DEF SameRound, Good, Masks, Prefix
<1>5. \A x, y : (LesserJob(x, y) \/ LesserReceipt(x, y)) /\ Asked(r, y) => Asked(s, x)
  BY DEF SameRound, Asked, LesserJob, LesserReceipt
<1>6. Line(s)
  <2>1. ASSUME NEW i \in 1 .. Len(s.jobs)
        PROVE  /\ ~OfRound(s.jobs[i]) => s.jobs[i].n >= 1 /\ s.jobs[i].b = Touch[s.jobs[i].n]
               /\ OfRound(s.jobs[i]) /\ s.jobs[i].live => s.jobs[i].mine
               /\ Mine(s.jobs[i]) => Asked(s, s.jobs[i])
    <3>1. i \in 1 .. Len(r.jobs)
      BY <1>1
    <3>2. LesserJob(s.jobs[i], r.jobs[i]) /\ (Mine(s.jobs[i]) => Mine(r.jobs[i]))
      BY <1>2, <3>1
    <3>3. /\ ~OfRound(r.jobs[i]) => r.jobs[i].n >= 1 /\ r.jobs[i].b = Touch[r.jobs[i].n]
          /\ Mine(r.jobs[i]) => Asked(r, r.jobs[i])
      BY <3>1 DEF Good, Line
    <3>4. Mine(s.jobs[i]) => Asked(s, s.jobs[i])
      BY <1>5, <3>2, <3>3
    <3> QED BY <3>2, <3>3, <3>4 DEF LesserJob, OfRound
  <2>2. ASSUME NEW i \in 1 .. Len(s.done), Mine(s.done[i])
        PROVE  /\ Asked(s, s.done[i])
               /\ s.done[i].k # "PROMOTE" /\ s.done[i].ok => s.stage[s.done[i].b] = Content(s.done[i].b, s.wm)
    <3>1. i \in 1 .. Len(r.done)
      BY <1>1
    <3>2. LesserReceipt(s.done[i], r.done[i]) /\ Mine(r.done[i])
      BY <1>3, <2>2, <3>1
    <3>3. /\ Asked(r, r.done[i])
          /\ r.done[i].k # "PROMOTE" /\ r.done[i].ok => r.stage[r.done[i].b] = Content(r.done[i].b, r.wm)
      BY <3>1, <3>2 DEF Good, Line
    <3> QED BY <1>5, <3>2, <3>3 DEF LesserReceipt, SameRound
  <2> QED BY <2>1, <2>2 DEF Line
<1>7. \A i \in 1 .. Len(r.jobs) : s.jobs[i].k = r.jobs[i].k
  BY <1>2 DEF LesserJob
<1>8. \A i \in 1 .. Len(r.done) : s.done[i].k = r.done[i].k
  BY <1>3 DEF LesserReceipt
<1>9. Promoting(s)
  BY <1>1, <1>2, <1>3, <1>7, <1>8 DEF Good, Promoting
<1>10. Free(r) => Free(s)
  BY <1>1, <1>2, <1>3 DEF Free
<1> QED BY <1>4, <1>6, <1>9, <1>10 DEF Good

\* With nothing of the last round left, another one may begin.
LEMMA Restarts ==
    ASSUME NEW r, Good(r), Free(r), NEW s \in Nodes,
           s.inv = {}, s.pend = {}, s.durable = {}, s.promo = "no", s.root = r.root,
           LesserJobs(s.jobs, r.jobs), LesserReceipts(s.done, r.done)
    PROVE  Good(s) /\ Free(s)
<1>1. Len(s.jobs) = Len(r.jobs) /\ Len(s.done) = Len(r.done)
  BY DEF LesserJobs, LesserReceipts
<1>2. Masks(s) /\ Prefix(s)
  BY DEF Good, Masks, Prefix
<1>3. Free(s)
  <2>1. ASSUME NEW i \in 1 .. Len(r.jobs) PROVE ~Mine(s.jobs[i])
    BY DEF LesserJobs, LesserJob, Mine, OfRound, Free
  <2>2. ASSUME NEW i \in 1 .. Len(r.done) PROVE ~Mine(s.done[i])
    BY DEF LesserReceipts, LesserReceipt, Mine, OfRound, Free
  <2> QED BY <1>1, <2>1, <2>2 DEF Free
<1>4. Line(s)
  <2>1. ASSUME NEW i \in 1 .. Len(s.jobs)
        PROVE  /\ ~OfRound(s.jobs[i]) => s.jobs[i].n >= 1 /\ s.jobs[i].b = Touch[s.jobs[i].n]
               /\ OfRound(s.jobs[i]) /\ s.jobs[i].live => s.jobs[i].mine
    <3>1. i \in 1 .. Len(r.jobs) /\ LesserJob(s.jobs[i], r.jobs[i])
      BY <1>1 DEF LesserJobs
    <3>2. ~OfRound(r.jobs[i]) => r.jobs[i].n >= 1 /\ r.jobs[i].b = Touch[r.jobs[i].n]
      BY <3>1 DEF Good, Line
    <3> QED BY <3>1, <3>2 DEF LesserJob, OfRound
  <2> QED BY <1>3, <2>1 DEF Free, Line
<1>5. Promoting(s)
  BY <1>3 DEF Free, Promoting
<1> QED BY <1>2, <1>3, <1>4, <1>5 DEF Good

LEMMA Maps ==
    ASSUME NEW T, NEW U, NEW s \in Seq(T), NEW f \in [DOMAIN s -> U]
    PROVE  /\ f \in Seq(U) /\ Len(f) = Len(s) /\ DOMAIN s = 1 .. Len(s) /\ Len(s) \in Nat
           /\ \A i \in 1 .. Len(s) : f[i] = f[i] /\ s[i] \in T
<1>1. DOMAIN s = 1 .. Len(s) /\ Len(s) \in Nat /\ \A i \in 1 .. Len(s) : s[i] \in T
  BY LenProperties, ElementOfSeq
<1>2. f \in [1 .. Len(s) -> U]
  BY <1>1
<1>3. f \in Seq(U)
  BY <1>1, <1>2, SeqDef
<1>4. DOMAIN f = 1 .. Len(f) /\ Len(f) \in Nat /\ DOMAIN f = 1 .. Len(s)
  BY <1>2, <1>3, LenProperties
<1>5. Len(f) = Len(s)
  BY <1>1, <1>4
<1> QED BY <1>1, <1>3, <1>5

LEMMA WithdrawKeeps ==
    ASSUME NEW r, Good(r), NEW which
    PROVE  /\ Withdraw(r, which) \in Nodes /\ SameRound(Withdraw(r, which), r)
           /\ LesserJobs(Withdraw(r, which).jobs, r.jobs) /\ LesserReceipts(Withdraw(r, which).done, r.done)
           /\ Withdraw(r, which).out = r.out /\ Withdraw(r, which).ready = r.ready
           /\ Withdraw(r, which).jobs \in Seq(Jobs)
<1> DEFINE kept == Only(r.dels, {d \in Range(r.dels) : d.sub \/ d \notin which})
           dels == [i \in DOMAIN kept |-> [kept[i] EXCEPT !.dead = @ \/ kept[i] \in which]]
           jobs == [i \in DOMAIN r.jobs |->
                               IF r.jobs[i].k = "MUTATION" /\ \E d \in which : d.sub /\ d.n = r.jobs[i].n
                               THEN [r.jobs[i] EXCEPT !.live = FALSE] ELSE r.jobs[i]]
<1>1. r \in Nodes /\ r.dels \in Seq(Deliveries) /\ r.jobs \in Seq(Jobs)
  BY DEF Good, Nodes
<1>2. kept \in Seq(Deliveries)
  BY <1>1, OnlyType
<1>3. dels \in Seq(Deliveries)
  <2> HIDE DEF kept
  <2>1. \A i \in DOMAIN kept : kept[i] \in Deliveries
    BY <1>2
  <2>2. \A i \in DOMAIN kept : [kept[i] EXCEPT !.dead = @ \/ kept[i] \in which] \in Deliveries
    BY <2>1 DEF Deliveries
  <2>3. dels \in [DOMAIN kept -> Deliveries]
    BY <2>2
  <2> HIDE DEF dels
  <2> QED BY <1>2, <2>3, Maps
<1>4. \A i \in DOMAIN r.jobs : r.jobs[i] \in Jobs
  BY <1>1
<1>5. \A i \in DOMAIN r.jobs : jobs[i] \in Jobs /\ (jobs[i] = r.jobs[i] \/ (~OfRound(r.jobs[i]) /\ jobs[i] = [r.jobs[i] EXCEPT !.live = FALSE]))
  <2> TAKE i \in DOMAIN r.jobs
  <2>1. r.jobs[i] \in Jobs /\ [r.jobs[i] EXCEPT !.live = FALSE] \in Jobs
    BY <1>4 DEF Jobs
  <2> QED BY <2>1 DEF OfRound
<1>6. jobs \in [DOMAIN r.jobs -> Jobs]
  BY <1>5
<1> HIDE DEF jobs, dels, kept
<1>7. jobs \in Seq(Jobs) /\ Len(jobs) = Len(r.jobs) /\ DOMAIN r.jobs = 1 .. Len(r.jobs)
  BY <1>1, <1>6, Maps
<1>8. Withdraw(r, which) = [r EXCEPT !.dels = dels, !.jobs = jobs]
  BY DEF Withdraw, dels, jobs, kept
<1>9. /\ Withdraw(r, which) \in Nodes /\ Withdraw(r, which).jobs = jobs /\ Withdraw(r, which).done = r.done
      /\ SameRound(Withdraw(r, which), r) /\ Withdraw(r, which).out = r.out /\ Withdraw(r, which).ready = r.ready
  BY <1>1, <1>3, <1>7, <1>8 DEF Nodes, SameRound
<1>10. LesserJobs(jobs, r.jobs)
  <2> SUFFICES ASSUME NEW i \in 1 .. Len(r.jobs) PROVE LesserJob(jobs[i], r.jobs[i])
    BY <1>7 DEF LesserJobs
  <2>1. /\ r.jobs[i] \in Jobs
        /\ jobs[i] = r.jobs[i] \/ (~OfRound(r.jobs[i]) /\ jobs[i] = [r.jobs[i] EXCEPT !.live = FALSE])
    BY <1>4, <1>5, <1>7
  <2>2. OfRound(r.jobs[i]) /\ r.jobs[i].live => r.jobs[i].mine
    BY DEF Good, Line
  <2>3. [r.jobs[i] EXCEPT !.live = FALSE].k = r.jobs[i].k /\ [r.jobs[i] EXCEPT !.live = FALSE].live = FALSE
        /\ [r.jobs[i] EXCEPT !.live = FALSE].b = r.jobs[i].b /\ [r.jobs[i] EXCEPT !.live = FALSE].d = r.jobs[i].d
        /\ [r.jobs[i] EXCEPT !.live = FALSE].n = r.jobs[i].n /\ [r.jobs[i] EXCEPT !.live = FALSE].mine = r.jobs[i].mine
    BY <2>1 DEF Jobs
  <2> QED BY <2>1, <2>2, <2>3 DEF LesserJob
<1> QED BY <1>7, <1>9, <1>10, Same

LEMMA WithdrawGood ==
    ASSUME NEW r, Good(r), NEW which
    PROVE  Good(Withdraw(r, which)) /\ (Free(r) => Free(Withdraw(r, which)))
BY WithdrawKeeps, Less

LEMMA Aside ==
    ASSUME NEW r, Good(r), NEW s \in Nodes, SameRound(s, r), s.jobs = r.jobs, s.done = r.done
    PROVE  Good(s) /\ (Free(r) => Free(s))
BY Same, Less

LEMMA Sends ==
    ASSUME NEW r \in Nodes, NEW f \in Replies
    PROVE  /\ Send(r, f) \in Nodes /\ SameRound(Send(r, f), r)
           /\ Send(r, f).jobs = r.jobs /\ Send(r, f).done = r.done
<1>1. r.out \in Seq(Replies)
  BY DEF Nodes
<1>2. Append(r.out, f) \in Seq(Replies)
  BY <1>1, AppendProperties
<1> QED BY <1>2 DEF Send, Nodes, SameRound

LEMMA SendGood ==
    ASSUME NEW r, Good(r), NEW f \in Replies
    PROVE  Good(Send(r, f))
<1>1. r \in Nodes
  BY DEF Good
<1> QED BY <1>1, Sends, Aside

LEMMA GapGood ==
    ASSUME NEW r, Good(r)
    PROVE  Good(Gap(r))
<1> DEFINE s == [r EXCEPT !.ready = FALSE, !.armed = TRUE]
<1>1. s \in Nodes /\ SameRound(s, r) /\ s.jobs = r.jobs /\ s.done = r.done
  BY DEF Good, Nodes, SameRound
<1>2. Hello \in Replies
  BY DEF Hello, Replies
<1>3. Gap(r) = Send(s, Hello)
  BY DEF Gap
<1> HIDE DEF s
<1>4. Good(s)
  BY <1>1, Aside
<1> QED BY <1>2, <1>3, <1>4, SendGood

LEMMA Forsakes ==
    ASSUME NEW r, Good(r)
    PROVE  /\ Withdrawn(Forsaken(r.jobs)) \in Seq(Jobs) /\ LesserJobs(Withdrawn(Forsaken(r.jobs)), r.jobs)
           /\ \A i \in 1 .. Len(r.jobs) : ~Mine(Withdrawn(Forsaken(r.jobs))[i])
           /\ Forsaken(r.done) \in Seq(Receipts) /\ LesserReceipts(Forsaken(r.done), r.done)
           /\ \A i \in 1 .. Len(r.done) : ~Mine(Forsaken(r.done)[i])
<1> DEFINE js == Forsaken(r.jobs)
           ks == Withdrawn(js)
           ds == Forsaken(r.done)
<1>1. r.jobs \in Seq(Jobs) /\ r.done \in Seq(Receipts)
  BY DEF Good, Nodes
<1>2. ASSUME NEW i \in DOMAIN r.jobs
      PROVE  /\ js[i] \in Jobs /\ js[i].k = r.jobs[i].k /\ js[i].b = r.jobs[i].b /\ js[i].d = r.jobs[i].d
             /\ js[i].n = r.jobs[i].n /\ js[i].live = r.jobs[i].live
             /\ js[i].mine = (r.jobs[i].mine /\ ~OfRound(r.jobs[i]))
  <2>1. r.jobs[i] \in Jobs
    BY <1>1
  <2>2. js[i] = [r.jobs[i] EXCEPT !.mine = @ /\ ~OfRound(r.jobs[i])]
    BY DEF Forsaken
  <2> QED BY <2>1, <2>2 DEF Jobs
<1>3. js \in Seq(Jobs) /\ Len(js) = Len(r.jobs) /\ DOMAIN js = 1 .. Len(r.jobs) /\ DOMAIN r.jobs = 1 .. Len(r.jobs)
  <2>1. js \in [DOMAIN r.jobs -> Jobs]
    BY <1>2 DEF Forsaken
  <2> HIDE DEF js
  <2>2. js \in Seq(Jobs) /\ Len(js) = Len(r.jobs) /\ DOMAIN r.jobs = 1 .. Len(r.jobs)
    BY <1>1, <2>1, Maps
  <2> QED BY <2>1, <2>2
<1>4. ASSUME NEW i \in DOMAIN js
      PROVE  /\ ks[i] \in Jobs /\ ks[i].k = js[i].k /\ ks[i].b = js[i].b /\ ks[i].d = js[i].d
             /\ ks[i].n = js[i].n /\ ks[i].live = (js[i].live /\ ~OfRound(js[i]))
             /\ ks[i].mine = js[i].mine
  <2>1. js[i] \in Jobs
    BY <1>3, ElementOfSeq
  <2>2. ks[i] = [js[i] EXCEPT !.live = @ /\ ~OfRound(js[i])]
    BY DEF Withdrawn
  <2> HIDE DEF js, ks
  <2> QED BY <2>1, <2>2 DEF Jobs
<1>5. ks \in Seq(Jobs) /\ Len(ks) = Len(r.jobs)
  <2>1. ks \in [DOMAIN js -> Jobs]
    BY <1>4 DEF Withdrawn
  <2> HIDE DEF js, ks
  <2> QED BY <1>3, <2>1, Maps
<1>6. ASSUME NEW i \in 1 .. Len(r.jobs)
      PROVE  LesserJob(ks[i], r.jobs[i]) /\ ~Mine(ks[i])
  <2>1. i \in DOMAIN r.jobs /\ i \in DOMAIN js
    BY <1>3
  <2> HIDE DEF js, ks
  <2> QED BY <1>2, <1>4, <2>1 DEF LesserJob, Mine, OfRound
<1>7. ASSUME NEW i \in DOMAIN r.done
      PROVE  /\ ds[i] \in Receipts /\ ds[i].k = r.done[i].k /\ ds[i].b = r.done[i].b /\ ds[i].d = r.done[i].d
             /\ ds[i].n = r.done[i].n /\ ds[i].ok = r.done[i].ok
             /\ ds[i].mine = (r.done[i].mine /\ ~OfRound(r.done[i]))
  <2>1. r.done[i] \in Receipts
    BY <1>1
  <2>2. ds[i] = [r.done[i] EXCEPT !.mine = @ /\ ~OfRound(r.done[i])]
    BY DEF Forsaken
  <2> QED BY <2>1, <2>2 DEF Receipts
<1>8. ds \in Seq(Receipts) /\ Len(ds) = Len(r.done) /\ DOMAIN r.done = 1 .. Len(r.done)
  <2>1. ds \in [DOMAIN r.done -> Receipts]
    BY <1>7 DEF Forsaken
  <2> HIDE DEF ds
  <2> QED BY <1>1, <2>1, Maps
<1>9. ASSUME NEW i \in 1 .. Len(r.done)
      PROVE  LesserReceipt(ds[i], r.done[i]) /\ ~Mine(ds[i])
  <2>1. i \in DOMAIN r.done
    BY <1>8
  <2> HIDE DEF ds
  <2> QED BY <1>7, <2>1 DEF LesserReceipt, Mine, OfRound
<1> HIDE DEF js, ks, ds
<1>10. LesserJobs(ks, r.jobs) /\ LesserReceipts(ds, r.done)
  BY <1>5, <1>6, <1>8, <1>9 DEF LesserJobs, LesserReceipts
<1> QED BY <1>5, <1>6, <1>8, <1>9, <1>10 DEF js, ks, ds

\* A round that is aborted leaves nothing behind.
LEMMA AbortGood ==
    ASSUME NEW r, Good(r), NEW again
    PROVE  Good(Abort(r, again)) /\ Free(Abort(r, again)) /\ Abort(r, again).active = 0
<1> DEFINE s == Withdraw(r, {d \in Range(r.dels) : d.replay})
           js == Withdrawn(Forsaken(s.jobs))
           ds == Forsaken(s.done)
           t == [s EXCEPT !.jobs = js, !.done = ds]
           u == IF again THEN Retry(t) ELSE [t EXCEPT !.retry = 0, !.armed = FALSE]
<1>1. Good(s) /\ s \in Nodes
  BY WithdrawGood DEF Good
<1>2. Abort(r, again) = Idle(u)
  BY DEF Abort
<1> HIDE DEF s
<1>3. /\ js \in Seq(Jobs) /\ LesserJobs(js, s.jobs) /\ \A i \in 1 .. Len(s.jobs) : ~Mine(js[i])
      /\ ds \in Seq(Receipts) /\ LesserReceipts(ds, s.done) /\ \A i \in 1 .. Len(s.done) : ~Mine(ds[i])
  BY <1>1, Forsakes
<1> HIDE DEF js, ds
<1>4. t \in Nodes /\ SameRound(t, s) /\ t.jobs = js /\ t.done = ds
  BY <1>1, <1>3 DEF Nodes, SameRound
<1> HIDE DEF t
<1>5. Good(t)
  BY <1>1, <1>3, <1>4, Less
<1>6. Free(t)
  <2>1. Len(js) = Len(s.jobs) /\ Len(ds) = Len(s.done)
    BY <1>3 DEF LesserJobs, LesserReceipts
  <2> QED BY <1>3, <1>4, <2>1 DEF Free
<1>7. u \in Nodes /\ SameRound(u, t) /\ u.jobs = t.jobs /\ u.done = t.done
  <2>1. t \in Nodes /\ 0 \in 0 .. RetryMax /\ (t.retry < RetryMax => t.retry + 1 \in 0 .. RetryMax)
    <3>1. RetryMax \in Nat /\ t.retry \in 0 .. RetryMax
      BY <1>4, SyncAssumption DEF Nodes
    <3> QED BY <1>4, <3>1
  <2>2. [t EXCEPT !.retry = 0, !.armed = FALSE] \in Nodes
    BY <2>1 DEF Nodes
  <2>3. [t EXCEPT !.retry = 0, !.armed = FALSE, !.exhausted = TRUE] \in Nodes
    BY <2>1 DEF Nodes
  <2>4. t.retry < RetryMax => [t EXCEPT !.retry = @ + 1, !.armed = TRUE] \in Nodes
    BY <2>1 DEF Nodes
  <2>5. u \in Nodes
    BY <2>2, <2>3, <2>4 DEF Retry, RetriesLeft
  <2>6. SameRound(u, t) /\ u.jobs = t.jobs /\ u.done = t.done
    BY <1>4 DEF Retry, SameRound, Nodes
  <2> QED BY <2>5, <2>6
<1> HIDE DEF u
<1>8. Good(u) /\ Free(u)
  BY <1>5, <1>6, <1>7, Aside
<1>9. /\ Idle(u) \in Nodes /\ Idle(u).inv = {} /\ Idle(u).pend = {} /\ Idle(u).durable = {}
      /\ Idle(u).promo = "no" /\ Idle(u).root = u.root /\ Idle(u).jobs = u.jobs /\ Idle(u).done = u.done
      /\ Idle(u).active = 0
  <2>1. 0 \in 0 .. MaxSeq
    BY Stream
  <2> QED BY <1>7, <2>1 DEF Idle, Nodes
<1>10. Good(Idle(u)) /\ Free(Idle(u))
  BY <1>8, <1>9, Same, Restarts
<1> QED BY <1>2, <1>9, <1>10

LEMMA AbortActiveGood ==
    ASSUME NEW r, Good(r)
    PROVE  Good(AbortActive(r)) /\ Free(AbortActive(r)) /\ AbortActive(r).active = 0
<1>1. r.active = 0 => Free(r)
  BY DEF Good, Line, Asked, Free
<1> QED BY <1>1, AbortGood DEF AbortActive

LEMMA RevokeGood ==
    ASSUME NEW r, Good(r)
    PROVE  Good(Revoke(r)) /\ (Free(r) => Free(Revoke(r))) /\ Revoke(r).active = r.active
           /\ Revoke(r).dels = r.dels /\ Revoke(r).done = r.done /\ LesserJobs(Revoke(r).jobs, r.jobs)
<1> DEFINE js == [i \in DOMAIN r.jobs |-> [r.jobs[i] EXCEPT !.live = FALSE]]
<1>1. r.jobs \in Seq(Jobs) /\ r \in Nodes
  BY DEF Good, Nodes
<1>2. ASSUME NEW i \in DOMAIN r.jobs
      PROVE  js[i] \in Jobs /\ LesserJob(js[i], r.jobs[i])
  <2>1. r.jobs[i] \in Jobs
    BY <1>1
  <2>2. js[i] = [r.jobs[i] EXCEPT !.live = FALSE]
    OBVIOUS
  <2> HIDE DEF js
  <2> QED BY <2>1, <2>2 DEF Jobs, LesserJob
<1>3. js \in [DOMAIN r.jobs -> Jobs]
  BY <1>2
<1>4. Revoke(r) = [r EXCEPT !.jobs = js]
  BY DEF Revoke
<1> HIDE DEF js
<1>5. js \in Seq(Jobs) /\ Len(js) = Len(r.jobs) /\ DOMAIN r.jobs = 1 .. Len(r.jobs)
  BY <1>1, <1>3, Maps
<1>6. LesserJobs(js, r.jobs)
  BY <1>2, <1>5 DEF LesserJobs
<1>7. /\ Revoke(r) \in Nodes /\ SameRound(Revoke(r), r) /\ Revoke(r).jobs = js /\ Revoke(r).done = r.done
      /\ Revoke(r).active = r.active /\ Revoke(r).dels = r.dels
  BY <1>1, <1>4, <1>5 DEF Nodes, SameRound
<1> QED BY <1>6, <1>7, Same, Less

-----------------------------------------------------------------------------
(* Submissions.                                                               *)

LEMMA AddsMutations ==
    ASSUME NEW r, Good(r), NEW s \in Nodes, SameRound(s, r), s.done = r.done,
           NEW x \in Seq(Jobs), s.jobs = r.jobs \o x,
           \A i \in 1 .. Len(x) : x[i].k = "MUTATION" /\ x[i].n >= 1 /\ x[i].b = Touch[x[i].n]
    PROVE  Good(s) /\ (Free(r) => Free(s))
<1>1. r.jobs \in Seq(Jobs)
  BY DEF Good, Nodes
<1>2. /\ Len(r.jobs) \in Nat /\ Len(x) \in Nat /\ Len(s.jobs) = Len(r.jobs) + Len(x)
      /\ \A i \in 1 .. Len(s.jobs) : s.jobs[i] = IF i <= Len(r.jobs) THEN r.jobs[i] ELSE x[i - Len(r.jobs)]
  BY <1>1, ConcatProperties, LenProperties
<1>3. ASSUME NEW i \in 1 .. Len(s.jobs)
      PROVE  \/ i \in 1 .. Len(r.jobs) /\ s.jobs[i] = r.jobs[i]
             \/ ~OfRound(s.jobs[i]) /\ s.jobs[i].n >= 1 /\ s.jobs[i].b = Touch[s.jobs[i].n]
  <2>1. CASE i <= Len(r.jobs)
    BY <1>2, <2>1
  <2>2. CASE ~ (i <= Len(r.jobs))
    <3>1. i - Len(r.jobs) \in 1 .. Len(x) /\ s.jobs[i] = x[i - Len(r.jobs)]
      BY <1>2, <2>2
    <3> QED BY <3>1 DEF OfRound
  <2> QED BY <2>1, <2>2
<1>4. Masks(s) /\ Prefix(s)
  BY DEF SameRound, Good, Masks, Prefix
<1>5. \A y : Asked(r, y) => Asked(s, y)
  BY DEF SameRound, Asked
<1>6. Line(s)
  <2>1. ASSUME NEW i \in 1 .. Len(s.jobs)
        PROVE  /\ ~OfRound(s.jobs[i]) => s.jobs[i].n >= 1 /\ s.jobs[i].b = Touch[s.jobs[i].n]
               /\ OfRound(s.jobs[i]) /\ s.jobs[i].live => s.jobs[i].mine
               /\ Mine(s.jobs[i]) => Asked(s, s.jobs[i])
    <3>1. CASE i \in 1 .. Len(r.jobs) /\ s.jobs[i] = r.jobs[i]
      BY <1>5, <3>1 DEF Good, Line
    <3>2. CASE ~OfRound(s.jobs[i]) /\ s.jobs[i].n >= 1 /\ s.jobs[i].b = Touch[s.jobs[i].n]
      BY <3>2 DEF Mine
    <3> QED BY <1>3, <3>1, <3>2
  <2>2. ASSUME NEW i \in 1 .. Len(s.done), Mine(s.done[i])
        PROVE  /\ Asked(s, s.done[i])
               /\ s.done[i].k # "PROMOTE" /\ s.done[i].ok => s.stage[s.done[i].b] = Content(s.done[i].b, s.wm)
    BY <1>5, <2>2 DEF Good, Line, SameRound
  <2> QED BY <2>1, <2>2 DEF Line
<1>7. \A i \in 1 .. Len(s.jobs) : Mine(s.jobs[i]) => i \in 1 .. Len(r.jobs) /\ s.jobs[i] = r.jobs[i]
  BY <1>3 DEF Mine
<1>8. Promoting(s)
  BY <1>7 DEF Good, Promoting
<1>9. Free(r) => Free(s)
  BY <1>7 DEF Free
<1> QED BY <1>4, <1>6, <1>8, <1>9 DEF Good

\* What is known of the round grows.
LEMMA Grows ==
    ASSUME NEW r, Good(r), NEW s \in Nodes, Masks(s),
           s.jobs = r.jobs, s.done = r.done, s.root = r.root, s.stage = r.stage, s.wm = r.wm,
           \A y : Asked(r, y) => Asked(s, y)
    PROVE  Good(s)
<1>1. Prefix(s) /\ Promoting(s)
  BY DEF Good, Prefix, Promoting
<1>2. Line(s)
  BY DEF Good, Line
<1> QED BY <1>1, <1>2 DEF Good

\* A job of the round before its promotion is asked for, or the promotion.
LEMMA AddsJob ==
    ASSUME NEW r, Good(r), r.promo = "no", NEW s \in Nodes, Masks(s),
           NEW j \in Jobs, OfRound(j), j.live, j.mine, Asked(s, j),
           s.jobs = Append(r.jobs, j), s.done = r.done, s.root = r.root, s.stage = r.stage, s.wm = r.wm,
           \A y : y.k # "PROMOTE" /\ Asked(r, y) => Asked(s, y)
    PROVE  Good(s)
<1>1. r.jobs \in Seq(Jobs)
  BY DEF Good, Nodes
<1>2. /\ Len(r.jobs) \in Nat /\ Len(s.jobs) = Len(r.jobs) + 1 /\ s.jobs[Len(r.jobs) + 1] = j
      /\ \A i \in 1 .. Len(r.jobs) : s.jobs[i] = r.jobs[i]
  BY <1>1, AppendProperties, LenProperties
<1>3. \A i \in 1 .. Len(s.jobs) : i \in 1 .. Len(r.jobs) \/ i = Len(r.jobs) + 1
  BY <1>2
<1>4. /\ \A i \in 1 .. Len(r.jobs) : Mine(r.jobs[i]) => r.jobs[i].k # "PROMOTE" /\ Asked(s, r.jobs[i])
      /\ \A i \in 1 .. Len(r.done) : Mine(r.done[i]) => r.done[i].k # "PROMOTE" /\ Asked(s, r.done[i])
  BY DEF Good, Line, Asked
<1>5. Prefix(s)
  BY DEF Good, Prefix
<1>6. Line(s)
  <2>1. ASSUME NEW i \in 1 .. Len(s.jobs)
        PROVE  /\ ~OfRound(s.jobs[i]) => s.jobs[i].n >= 1 /\ s.jobs[i].b = Touch[s.jobs[i].n]
               /\ OfRound(s.jobs[i]) /\ s.jobs[i].live => s.jobs[i].mine
               /\ Mine(s.jobs[i]) => Asked(s, s.jobs[i])
    <3>1. CASE i \in 1 .. Len(r.jobs)
      BY <1>2, <1>4, <3>1 DEF Good, Line
    <3>2. CASE i = Len(r.jobs) + 1
      BY <1>2, <3>2
    <3> QED BY <1>3, <3>1, <3>2
  <2>2. ASSUME NEW i \in 1 .. Len(s.done), Mine(s.done[i])
        PROVE  /\ Asked(s, s.done[i])
               /\ s.done[i].k # "PROMOTE" /\ s.done[i].ok => s.stage[s.done[i].b] = Content(s.done[i].b, s.wm)
    BY <1>4, <2>2 DEF Good, Line
  <2> QED BY <2>1, <2>2 DEF Line
<1>7. Promoting(s)
  <2>1. \A i \in 1 .. Len(s.jobs) : Mine(s.jobs[i]) /\ s.jobs[i].k = "PROMOTE" => i = Len(r.jobs) + 1
    BY <1>2, <1>3, <1>4
  <2>2. \A i \in 1 .. Len(s.done) : ~ (Mine(s.done[i]) /\ s.done[i].k = "PROMOTE")
    BY <1>4
  <2>3. \A i, k \in 1 .. Len(s.jobs) : i < k => i # Len(r.jobs) + 1
    BY <1>2
  <2> QED BY <2>1, <2>2, <2>3 DEF Promoting
<1> QED BY <1>5, <1>6, <1>7 DEF Good

LEMMA SubmitType ==
    ASSUME NEW r \in Nodes, NEW j \in Jobs
    PROVE  /\ Submit(r, j) \in Nodes /\ SameRound(Submit(r, j), r)
           /\ Submit(r, j).jobs = Append(r.jobs, j) /\ Submit(r, j).done = r.done
<1>1. r.jobs \in Seq(Jobs)
  BY DEF Nodes
<1>2. Append(r.jobs, j) \in Seq(Jobs)
  BY <1>1, AppendProperties
<1> QED BY <1>2 DEF Submit, Nodes, SameRound

LEMMA StageJobs ==
    ASSUME NEW r \in Nodes, NEW kind \in {"REUSE", "END", "PROMOTE"}, NEW b \in Blocks
    PROVE  /\ StageJob(r, kind, b) \in Jobs /\ OfRound(StageJob(r, kind, b))
           /\ StageJob(r, kind, b).live /\ StageJob(r, kind, b).mine
           /\ StageJob(r, kind, b).k = kind /\ StageJob(r, kind, b).b = b
           /\ StageJob(r, kind, b).d = r.spec[b] /\ StageJob(r, kind, b).n = r.wm
<1>1. r.active \in Nat /\ r.spec[b] \in 0 .. MaxSeq /\ r.wm \in 0 .. MaxSeq
  BY DEF Nodes
<1> QED BY <1>1 DEF StageJob, Jobs, OfRound

LEMMA SubmitStage ==
    ASSUME NEW r, Good(r), r.active # 0, r.promo = "no", NEW kind \in {"REUSE", "END"}, NEW b \in r.inv
    PROVE  Good(Submit(r, StageJob(r, kind, b)))
<1>1. r \in Nodes /\ b \in Blocks
  BY DEF Good, Nodes
<1> DEFINE j == StageJob(r, kind, b)
           s == Submit(r, j)
<1>2. /\ j \in Jobs /\ OfRound(j) /\ j.live /\ j.mine /\ j.k = kind /\ j.b = b /\ j.d = r.spec[b] /\ j.n = r.wm
  BY <1>1, StageJobs
<1> HIDE DEF j
<1>3. s \in Nodes /\ SameRound(s, r) /\ s.jobs = Append(r.jobs, j) /\ s.done = r.done
  BY <1>1, <1>2, SubmitType
<1> HIDE DEF s
<1>4. Masks(s)
  BY <1>3 DEF Good, Masks, SameRound
<1>5. Asked(s, j) /\ \A y : Asked(r, y) => Asked(s, y)
  BY <1>2, <1>3 DEF Asked, SameRound
<1>6. Good(s)
  BY <1>2, <1>3, <1>4, <1>5, AddsJob DEF SameRound
<1> QED BY <1>6 DEF s, j

LEMMA CheckGood ==
    ASSUME NEW r, Good(r)
    PROVE  Good(Check(r))
<1> DEFINE b == FirstOf(Blocks)
           j == StageJob(r, "PROMOTE", b)
           s == [Submit(r, j) EXCEPT !.promo = "asked"]
<1>1. CASE Full(r.inv) /\ Full(r.durable) /\ r.promo = "no" /\ r.pend = {} /\ r.active # 0
  <2>1. r \in Nodes /\ b \in Blocks
    BY First, SyncAssumption DEF Good
  <2> HIDE DEF b
  <2>2. /\ j \in Jobs /\ OfRound(j) /\ j.live /\ j.mine /\ j.k = "PROMOTE" /\ j.n = r.wm
    BY <2>1, StageJobs
  <2> HIDE DEF j
  <2>3. /\ Submit(r, j) \in Nodes /\ SameRound(Submit(r, j), r)
        /\ Submit(r, j).jobs = Append(r.jobs, j) /\ Submit(r, j).done = r.done
    BY <2>1, <2>2, SubmitType
  <2>4. /\ s \in Nodes /\ s.promo = "asked" /\ s.active = r.active /\ s.wm = r.wm /\ s.inv = r.inv
        /\ s.spec = r.spec /\ s.pend = r.pend /\ s.durable = r.durable /\ s.root = r.root /\ s.stage = r.stage
        /\ s.jobs = Append(r.jobs, j) /\ s.done = r.done
    BY <2>3 DEF Nodes, SameRound
  <2> HIDE DEF s
  <2>5. Masks(s)
    BY <1>1, <2>4 DEF Good, Masks, Full
  <2>6. Asked(s, j) /\ \A y : y.k # "PROMOTE" /\ Asked(r, y) => Asked(s, y)
    BY <1>1, <2>2, <2>4 DEF Asked
  <2>7. Good(s)
    BY <1>1, <2>2, <2>4, <2>5, <2>6, AddsJob
  <2> QED BY <1>1, <2>7 DEF Check, s, j, b
<1>2. CASE ~ (Full(r.inv) /\ Full(r.durable) /\ r.promo = "no" /\ r.pend = {} /\ r.active # 0)
  BY <1>2 DEF Check
<1> QED BY <1>1, <1>2

\* The tail is submitted.
LEMMA ReplayGood ==
    ASSUME NEW r, Good(r)
    PROVE  /\ Good(Replay(r)) /\ (Free(r) => Free(Replay(r))) /\ SameRound(Replay(r), r)
           /\ Replay(r) \in Nodes
<1> DEFINE fresh == Only(r.dels, {d \in Range(r.dels) : d.replay /\ ~d.sub /\ ~d.dead})
           x == [i \in DOMAIN fresh |-> MutationJob(fresh[i].n)]
           dels == [i \in DOMAIN r.dels |-> IF r.dels[i].replay THEN [r.dels[i] EXCEPT !.sub = TRUE] ELSE r.dels[i]]
<1>1. r \in Nodes /\ r.jobs \in Seq(Jobs) /\ r.dels \in Seq(Deliveries)
  BY DEF Good, Nodes
<1>2. fresh \in Seq(Deliveries)
  BY <1>1, OnlyType
<1>3. Replay(r) = [r EXCEPT !.jobs = @ \o x, !.dels = dels]
  BY DEF Replay
<1> HIDE DEF fresh
<1>4. ASSUME NEW i \in DOMAIN fresh
      PROVE  x[i] \in Jobs /\ x[i].k = "MUTATION" /\ x[i].n >= 1 /\ x[i].b = Touch[x[i].n]
  <2>1. fresh[i] \in Deliveries
    BY <1>2
  <2>2. fresh[i].n \in 1 .. MaxSeq /\ fresh[i].n >= 1 /\ fresh[i].n \in 0 .. MaxSeq
    BY <2>1, Stream DEF Deliveries
  <2>3. Touch[fresh[i].n] \in Blocks
    BY <2>2, Stream
  <2>4. x[i] = MutationJob(fresh[i].n)
    OBVIOUS
  <2> HIDE DEF x
  <2> QED BY <2>2, <2>3, <2>4 DEF MutationJob, Jobs
<1>5. x \in [DOMAIN fresh -> Jobs]
  BY <1>4
<1>6. ASSUME NEW i \in DOMAIN r.dels PROVE dels[i] \in Deliveries
  <2>1. r.dels[i] \in Deliveries
    BY <1>1
  <2>2. [r.dels[i] EXCEPT !.sub = TRUE] \in Deliveries
    BY <2>1 DEF Deliveries
  <2> QED BY <2>1, <2>2
<1>7. dels \in [DOMAIN r.dels -> Deliveries]
  BY <1>6
<1> HIDE DEF x, dels
<1>8. x \in Seq(Jobs) /\ \A i \in 1 .. Len(x) : x[i].k = "MUTATION" /\ x[i].n >= 1 /\ x[i].b = Touch[x[i].n]
  <2>1. x \in Seq(Jobs) /\ Len(x) = Len(fresh) /\ DOMAIN fresh = 1 .. Len(fresh)
    BY <1>2, <1>5, Maps
  <2> QED BY <1>4, <2>1
<1>9. dels \in Seq(Deliveries)
  BY <1>1, <1>7, Maps
<1>10. r.jobs \o x \in Seq(Jobs)
  BY <1>1, <1>8, ConcatProperties
<1>11. /\ Replay(r) \in Nodes /\ SameRound(Replay(r), r) /\ Replay(r).done = r.done
       /\ Replay(r).jobs = r.jobs \o x
  BY <1>1, <1>3, <1>9, <1>10 DEF Nodes, SameRound
<1> QED BY <1>8, <1>11, AddsMutations

LEMMA PumpGood ==
    ASSUME NEW r, Good(r)
    PROVE  Good(Pump(r))
<1>1. CASE r.active = 0 \/ r.promo # "done"
  BY <1>1 DEF Pump
<1>2. CASE ~ (r.active = 0 \/ r.promo # "done")
  <2> DEFINE s == Replay(r)
             t == [Idle(s) EXCEPT !.ready = TRUE, !.retry = 0, !.armed = FALSE]
  <2>1. Free(r)
    BY <1>2 DEF Good, Line, Asked, Free
  <2>2. Good(s) /\ Free(s) /\ s \in Nodes
    BY <2>1, ReplayGood
  <2>3. Pump(r) = s \/ Pump(r) = t
    BY <1>2 DEF Pump
  <2> HIDE DEF s
  <2>4. /\ t \in Nodes /\ t.inv = {} /\ t.pend = {} /\ t.durable = {} /\ t.promo = "no"
        /\ t.root = s.root /\ t.jobs = s.jobs /\ t.done = s.done
    <3>1. 0 \in 0 .. MaxSeq /\ 0 \in 0 .. RetryMax
      BY Stream, SyncAssumption
    <3> QED BY <2>2, <3>1 DEF Idle, Nodes
  <2> HIDE DEF t
  <2>5. Good(t)
    BY <2>2, <2>4, Same, Restarts
  <2> QED BY <2>2, <2>3, <2>5
<1> QED BY <1>1, <1>2

-----------------------------------------------------------------------------
(* Frames at the replica.                                                     *)

\* What an authority sends: a frame tells what its block holds at its watermark.
Told(f) ==
    /\ f.id \in Nat \ {0} /\ f.b \in Blocks /\ f.w \in 0 .. MaxSeq /\ f.d = Content(f.b, f.w)
Sound(f) ==
    \/ f.m \in {"INF", "MANIFEST ACK", "SNAP"} /\ Told(f)
    \/ f.m = "INS" /\ f.n \in 1 .. MaxSeq
    \/ f.m \in {"ERR", "MANIFEST ERR"}

\* With no job and no receipt of the round, its facts alone have to agree.
LEMMA Settles ==
    ASSUME NEW r, Good(r), Free(r), NEW s \in Nodes, Masks(s),
           s.jobs = r.jobs, s.done = r.done, s.root = r.root
    PROVE  Good(s) /\ Free(s)
<1>1. Free(s) /\ Prefix(s)
  BY DEF Good, Free, Prefix
<1>2. Line(s) /\ Promoting(s)
  BY <1>1 DEF Good, Line, Free, Promoting
<1> QED BY <1>1, <1>2 DEF Good

\* A round begins where nothing is left of the last.
LEMMA BeginGood ==
    ASSUME NEW r, Good(r), Free(r), NEW id \in Nat, NEW w \in 0 .. MaxSeq
    PROVE  LET s == [Begin(r, id) EXCEPT !.wm = w]
           IN  Good(s) /\ s.inv = {} /\ s.active = id /\ s.wm = w
<1> DEFINE v == Revoke(r)
           x == Withdraw(v, {d \in Range(v.dels) : d.sub \/ ~d.replay})
           s == [Begin(r, id) EXCEPT !.wm = w]
<1>1. Good(v) /\ Free(v) /\ v.dels = r.dels
  BY RevokeGood
<1>2. Begin(r, id) = [Idle(x) EXCEPT !.active = id, !.ready = FALSE, !.armed = FALSE]
  BY <1>1 DEF Begin
<1>3. Good(x) /\ Free(x) /\ x \in Nodes
  <2> HIDE DEF v
  <2> QED BY <1>1, WithdrawGood DEF Good
<1> HIDE DEF x
<1>4. /\ s \in Nodes /\ s.inv = {} /\ s.pend = {} /\ s.durable = {} /\ s.promo = "no" /\ s.root = x.root
      /\ s.jobs = x.jobs /\ s.done = x.done /\ s.active = id /\ s.wm = w
  <2> DEFINE y == Idle(x)
  <2>1. /\ y \in Nodes /\ y.inv = {} /\ y.pend = {} /\ y.durable = {} /\ y.promo = "no" /\ y.root = x.root
        /\ y.jobs = x.jobs /\ y.done = x.done
    <3>1. 0 \in 0 .. MaxSeq
      BY Stream
    <3> QED BY <1>3, <3>1 DEF Idle, Nodes
  <2>2. s = [y EXCEPT !.active = id, !.ready = FALSE, !.armed = FALSE, !.wm = w]
    BY <1>2
  <2> HIDE DEF y, s
  <2> QED BY <2>1, <2>2 DEF Nodes
<1> HIDE DEF s
<1>5. Good(s)
  BY <1>3, <1>4, Same, Restarts
<1> QED BY <1>4, <1>5 DEF s

LEMMA BindGood ==
    ASSUME NEW r, Good(r)
    PROVE  Good(Bind(r)) /\ SameRound(Bind(r), r)
<1> DEFINE kept == Only(r.dels, {d \in Range(r.dels) : ~(d.replay /\ ~d.dead /\ ~d.sub /\ d.n <= r.wm)})
<1>1. kept \in Seq(Deliveries)
  BY OnlyType DEF Good, Nodes
<1>2. Bind(r) = [r EXCEPT !.dels = kept]
  BY DEF Bind
<1> HIDE DEF kept
<1>3. /\ Bind(r) \in Nodes /\ SameRound(Bind(r), r) /\ Bind(r).jobs = r.jobs /\ Bind(r).done = r.done
  BY <1>1, <1>2 DEF Good, Nodes, SameRound
<1> QED BY <1>3, Aside

\* What was announced of a block is noted.
Noted(r, f) == [r EXCEPT !.inv = @ \cup {f.b}, !.spec[f.b] = f.d]

LEMMA NotedGood ==
    ASSUME NEW r, Good(r), NEW f, Told(f), f.w = r.wm, r.active # 0, f.b \notin r.inv
    PROVE  LET s == Noted(r, f)
           IN  /\ Good(s) /\ s \in Nodes /\ s.inv = r.inv \cup {f.b} /\ s.promo = "no" /\ r.promo = "no"
               /\ s.active = r.active /\ s.wm = r.wm /\ s.dels = r.dels /\ s.jobs = r.jobs /\ s.done = r.done
               /\ s.ready = r.ready /\ s.applied = r.applied /\ s.accepted = r.accepted
               /\ f.d \in 0 .. MaxSeq /\ f.b \in Blocks
<1> DEFINE s == Noted(r, f)
<1>1. r.promo = "no" /\ r \in Nodes
  BY DEF Good, Masks, Told
<1>2. f.d \in 0 .. MaxSeq /\ f.b \in Blocks
  <2>1. Content(f.b, f.w) \in 0 .. f.w /\ MaxSeq \in Nat /\ f.w \in 0 .. MaxSeq
    BY ContentType, Stream DEF Told
  <2> QED BY <2>1 DEF Told
<1>3. /\ s \in Nodes /\ s.inv = r.inv \cup {f.b} /\ s.spec = [r.spec EXCEPT ![f.b] = f.d]
      /\ s.active = r.active /\ s.wm = r.wm /\ s.pend = r.pend /\ s.durable = r.durable /\ s.promo = r.promo
      /\ s.jobs = r.jobs /\ s.done = r.done /\ s.root = r.root /\ s.stage = r.stage
      /\ s.dels = r.dels /\ s.ready = r.ready /\ s.applied = r.applied /\ s.accepted = r.accepted
  BY <1>1, <1>2 DEF Nodes, Noted
<1> HIDE DEF s
<1>4. r.spec \in [Blocks -> 0 .. MaxSeq] /\ r.inv \subseteq Blocks
  BY <1>1 DEF Nodes
<1>5. Masks(s)
  BY <1>1, <1>2, <1>3, <1>4 DEF Good, Masks, Told
<1>6. \A y : Asked(r, y) => Asked(s, y)
  BY <1>3, <1>4 DEF Asked
<1>7. Good(s)
  BY <1>3, <1>5, <1>6, Grows
<1> QED BY <1>1, <1>2, <1>3, <1>7 DEF s

LEMMA CompareGood ==
    ASSUME NEW r, Good(r), NEW f, Told(f), f.w = r.wm, r.active # 0, f.b \notin r.inv
    PROVE  Good(Compare(r, f))
<1> DEFINE s == Noted(r, f)
           t == [s EXCEPT !.pend = @ \cup {f.b}]
           g == [m |-> "RES", id |-> f.id, b |-> f.b]
<1>1. /\ Good(s) /\ s \in Nodes /\ s.inv = r.inv \cup {f.b} /\ s.promo = "no"
      /\ s.active = r.active /\ s.wm = r.wm /\ f.d \in 0 .. MaxSeq /\ f.b \in Blocks
  BY NotedGood
<1>13. Compare(r, f) = IF s.root.blocks[f.b] = f.d THEN Check(Submit(s, StageJob(s, "REUSE", f.b))) ELSE Send(t, g)
  BY DEF Compare, Noted
<1> HIDE DEF s
<1>8. Good(Check(Submit(s, StageJob(s, "REUSE", f.b))))
  BY <1>1, SubmitStage, CheckGood
<1>9. /\ t \in Nodes /\ t.pend = s.pend \cup {f.b} /\ t.inv = s.inv /\ t.spec = s.spec
      /\ t.active = s.active /\ t.wm = s.wm /\ t.durable = s.durable /\ t.promo = s.promo
      /\ t.jobs = s.jobs /\ t.done = s.done /\ t.root = s.root /\ t.stage = s.stage
  BY <1>1 DEF Nodes
<1> HIDE DEF t
<1>10. Masks(t) /\ \A y : Asked(s, y) => Asked(t, y)
  BY <1>1, <1>9 DEF Good, Masks, Asked
<1>11. g \in Replies
  BY <1>1 DEF Told, Replies
<1> HIDE DEF g
<1>12. Good(Send(t, g))
  BY <1>1, <1>9, <1>10, <1>11, Grows, SendGood
<1> QED BY <1>8, <1>12, <1>13

LEMMA HearInfGood ==
    ASSUME NEW r, Good(r), NEW f, Told(f)
    PROVE  Good(HearInf(r, f))
<1> DEFINE begins == r.active # f.id
           over == IF begins /\ r.active # 0 THEN Abort(r, FALSE) ELSE r
           s == IF begins THEN [Begin(over, f.id) EXCEPT !.wm = f.w] ELSE r
           t == Bind(s)
<1>1. CASE r.active # 0 /\ f.id < r.active
  BY <1>1, AbortGood DEF HearInf
<1>2. CASE ~ (r.active # 0 /\ f.id < r.active)
  <2>1. HearInf(r, f) = IF s.wm # f.w THEN Abort(Abort(s, TRUE), TRUE)
                        ELSE IF ~Bound(t) \/ f.b \in s.inv THEN Abort(t, TRUE)
                        ELSE Compare(t, f)
    BY <1>2 DEF HearInf
  <2>2. begins => Good(over) /\ Free(over)
    <3>1. r.active = 0 => Free(r)
      BY DEF Good, Line, Asked, Free
    <3> QED BY <3>1, AbortGood
  <2>3. Good(s) /\ s.active = f.id
    <3>1. CASE begins
      <4> HIDE DEF over, begins
      <4>1. f.id \in Nat /\ f.w \in 0 .. MaxSeq
        BY DEF Told
      <4> QED BY <2>2, <3>1, <4>1, BeginGood
    <3>2. CASE ~begins
      BY <3>2
    <3> QED BY <3>1, <3>2
  <2> HIDE DEF s
  <2>4. Good(t) /\ t.active = s.active /\ t.wm = s.wm /\ t.inv = s.inv
    BY <2>3, BindGood DEF SameRound
  <2> HIDE DEF t
  <2>5. Good(Abort(Abort(s, TRUE), TRUE)) /\ Good(Abort(t, TRUE))
    BY <2>3, <2>4, AbortGood
  <2>6. s.wm = f.w /\ f.b \notin s.inv => Good(Compare(t, f))
    BY <2>3, <2>4, CompareGood DEF Told
  <2> QED BY <2>1, <2>5, <2>6
<1> QED BY <1>1, <1>2

LEMMA HearSnapGood ==
    ASSUME NEW r, Good(r), NEW f
    PROVE  Good(HearSnap(r, f))
<1>1. f.b \in r.pend => r.promo = "no" /\ r.active # 0 /\ f.b \in r.inv
  BY DEF Good, Masks
<1> QED BY <1>1, SubmitStage DEF HearSnap

LEMMA IngressGood ==
    ASSUME NEW r, Good(r), NEW n \in 1 .. MaxSeq
    PROVE  Good(Ingress(r, n))
<1> DEFINE replay == r.active # 0 \/ ~r.ready
           item == [n |-> n, replay |-> replay, sub |-> ~replay, dead |-> FALSE]
           kept == [r EXCEPT !.dels = Append(@, item), !.accepted = n]
           j == MutationJob(n)
<1>1. r \in Nodes /\ r.dels \in Seq(Deliveries) /\ MaxSeq \in Nat /\ n \in 0 .. MaxSeq /\ n >= 1
  BY Stream DEF Good, Nodes
<1>2. item \in Deliveries
  BY DEF Deliveries
<1> HIDE DEF item
<1>3. Append(r.dels, item) \in Seq(Deliveries)
  BY <1>1, <1>2, AppendProperties
<1>4. kept \in Nodes /\ SameRound(kept, r) /\ kept.jobs = r.jobs /\ kept.done = r.done
  BY <1>1, <1>3 DEF Nodes, SameRound
<1> HIDE DEF kept
<1>5. Good(kept)
  BY <1>4, Aside
<1>6. j \in Jobs /\ j.k = "MUTATION" /\ j.n = n /\ j.b = Touch[n]
  BY <1>1, Stream DEF MutationJob, Jobs
<1> HIDE DEF j
<1>7. Good(Submit(kept, j))
  <2>1. /\ Submit(kept, j) \in Nodes /\ SameRound(Submit(kept, j), kept)
        /\ Submit(kept, j).jobs = Append(kept.jobs, j) /\ Submit(kept, j).done = kept.done
    BY <1>4, <1>6, SubmitType
  <2>2. kept.jobs \in Seq(Jobs)
    BY <1>4 DEF Nodes
  <2>3. <<j>> \in Seq(Jobs) /\ Len(<<j>>) = 1 /\ <<j>>[1] = j
    BY <1>6
  <2>4. Append(kept.jobs, j) = kept.jobs \o <<j>>
    BY <1>6, <2>2
  <2>5. \A i \in 1 .. Len(<<j>>) : <<j>>[i].k = "MUTATION" /\ <<j>>[i].n >= 1 /\ <<j>>[i].b = Touch[<<j>>[i].n]
    <3>1. \A i \in 1 .. Len(<<j>>) : i = 1
      BY <2>3
    <3> QED BY <1>1, <1>6, <2>3, <3>1
  <2> DEFINE x == <<j>>
  <2> HIDE DEF x
  <2>6. x \in Seq(Jobs) /\ Submit(kept, j).jobs = kept.jobs \o x
    BY <2>1, <2>3, <2>4 DEF x
  <2>7. \A i \in 1 .. Len(x) : x[i].k = "MUTATION" /\ x[i].n >= 1 /\ x[i].b = Touch[x[i].n]
    BY <2>5 DEF x
  <2> QED BY <1>5, <2>1, <2>6, <2>7, AddsMutations
<1>8. Good(Gap(r)) /\ Good(Pump(kept))
  BY <1>5, GapGood, PumpGood
<1>9. Ingress(r, n) \in {r, Gap(r), Submit(kept, j), Pump(kept)}
  BY DEF Ingress, kept, item, j
<1> QED BY <1>7, <1>8, <1>9

LEMMA HearManifestAckGood ==
    ASSUME NEW r, Good(r), NEW f, Told(f)
    PROVE  Good(HearManifestAck(r, f))
<1>1. r \in Nodes /\ f.b \in Blocks /\ f.w \in 0 .. MaxSeq /\ 0 \in 0 .. MaxSeq
  BY Stream DEF Good, Told
<1> DEFINE acked == r.ae.acked \cup {f.b}
           contact == IF Full(acked) THEN Calm ELSE [pending |-> TRUE, acked |-> acked, wm |-> f.w]
<1>2. r.ae \in Contacts
  BY <1>1 DEF Nodes
<1>3. Calm \in Contacts
  BY <1>1 DEF Calm, Contacts
<1>4. contact \in Contacts
  <2>1. [pending |-> TRUE, acked |-> acked, wm |-> f.w] \in Contacts
    BY <1>1, <1>2 DEF Contacts
  <2> QED BY <1>3, <2>1
<1>5. ASSUME NEW c \in Contacts PROVE Good([r EXCEPT !.ae = c])
  <2> DEFINE s == [r EXCEPT !.ae = c]
  <2>1. s \in Nodes /\ SameRound(s, r) /\ s.jobs = r.jobs /\ s.done = r.done
    BY <1>1 DEF Nodes, SameRound
  <2> HIDE DEF s
  <2>2. Good(s)
    BY <2>1, Aside
  <2> QED BY <2>2 DEF s
<1>6. HearManifestAck(r, f) \in {r, Abort([r EXCEPT !.ae = Calm], TRUE), [r EXCEPT !.ae = contact]}
  BY DEF HearManifestAck
<1> HIDE DEF contact
<1>7. Good([r EXCEPT !.ae = Calm]) /\ Good([r EXCEPT !.ae = contact])
  BY <1>3, <1>4, <1>5
<1> QED BY <1>6, <1>7, AbortGood

LEMMA HearGood ==
    ASSUME NEW r, Good(r), NEW f, Sound(f)
    PROVE  Good(Hear(r, f))
<1>1. CASE f.m = "INF"
  BY <1>1, HearInfGood DEF Hear, Sound
<1>2. CASE f.m = "SNAP"
  BY <1>2, HearSnapGood DEF Hear
<1>3. CASE f.m = "ERR"
  BY <1>3, AbortGood DEF Hear, HearErr
<1>4. CASE f.m = "INS"
  BY <1>4, IngressGood DEF Hear, Sound
<1>5. CASE f.m = "MANIFEST ACK"
  BY <1>5, HearManifestAckGood DEF Hear, Sound
<1>6. CASE f.m = "MANIFEST ERR"
  <2> DEFINE s == [r EXCEPT !.ae = Calm]
  <2>1. r \in Nodes /\ Calm \in Contacts
    BY Stream DEF Good, Calm, Contacts
  <2>2. s \in Nodes /\ SameRound(s, r) /\ s.jobs = r.jobs /\ s.done = r.done
    BY <2>1 DEF Nodes, SameRound
  <2>3. Hear(r, f) = s
    BY <1>6 DEF Hear
  <2> HIDE DEF s
  <2> QED BY <2>2, <2>3, Aside
<1> QED BY <1>1, <1>2, <1>3, <1>4, <1>5, <1>6 DEF Sound

-----------------------------------------------------------------------------
(* Receipts.                                                                  *)

LEMMA OnlyKeeps ==
    ASSUME NEW T, NEW s \in Seq(T), NEW S, NEW i \in 1 .. Len(s), s[i] \in S
    PROVE  \E k \in 1 .. Len(Only(s, S)) : Only(s, S)[k] = s[i]
<1> DEFINE f == KeptBy(s, S)
           Has(n) == i <= n => \E k \in 1 .. Len(f[n]) : f[n][k] = s[i]
           Long == {n \in Nat : n <= Len(s) => f[n] \in Seq(T) /\ Has(n)}
<1>1. Len(s) \in Nat /\ \A k \in 1 .. Len(s) : s[k] \in T
  BY LenProperties, ElementOfSeq
<1>2. \A k \in 0 .. Len(s) : f[k] = IF k = 0 THEN <<>> ELSE IF s[k] \in S THEN Append(f[k - 1], s[k]) ELSE f[k - 1]
  BY KeptUnfolds
<1> HIDE DEF f
<1>3. 0 \in Long
  <2>1. f[0] = <<>>
    <3>1. 0 \in 0 .. Len(s)
      BY <1>1
    <3> QED BY <1>2, <3>1
  <2>2. <<>> \in Seq(T) /\ ~ (i <= 0)
    OBVIOUS
  <2> QED BY <2>1, <2>2
<1>4. ASSUME NEW n \in Nat, n \in Long PROVE n + 1 \in Long
  <2> SUFFICES ASSUME n + 1 <= Len(s) PROVE f[n + 1] \in Seq(T) /\ Has(n + 1)
    OBVIOUS
  <2>1. f[n] \in Seq(T) /\ Has(n) /\ n + 1 \in 0 .. Len(s) /\ n + 1 \in 1 .. Len(s) /\ n + 1 - 1 = n /\ n + 1 # 0
    BY <1>1, <1>4
  <2>2. f[n + 1] = IF s[n + 1] \in S THEN Append(f[n], s[n + 1]) ELSE f[n]
    BY <1>2, <2>1
  <2>3. s[n + 1] \in T
    BY <1>1, <2>1
  <2>4. CASE s[n + 1] \in S
    <3> DEFINE g == f[n]
               e == s[n + 1]
    <3>1. g \in Seq(T) /\ e \in T /\ f[n + 1] = Append(g, e)
      BY <2>1, <2>2, <2>3, <2>4
    <3>2. i <= n => \E k \in 1 .. Len(g) : g[k] = s[i]
      BY <2>1
    <3>3. i <= n + 1 => i <= n \/ (i = n + 1 /\ s[i] = e)
      OBVIOUS
    <3> HIDE DEF g, e
    <3>4. /\ Append(g, e) \in Seq(T) /\ Len(Append(g, e)) = Len(g) + 1 /\ Len(g) \in Nat
          /\ Append(g, e)[Len(g) + 1] = e /\ \A k \in 1 .. Len(g) : Append(g, e)[k] = g[k]
      BY <3>1, AppendProperties, LenProperties
    <3>5. Len(g) + 1 \in 1 .. Len(Append(g, e)) /\ \A k \in 1 .. Len(g) : k \in 1 .. Len(Append(g, e))
      BY <3>4
    <3>6. i <= n + 1 => \E k \in 1 .. Len(Append(g, e)) : Append(g, e)[k] = s[i]
      BY <3>2, <3>3, <3>4, <3>5
    <3> QED BY <3>1, <3>4, <3>6
  <2>5. CASE s[n + 1] \notin S
    BY <2>1, <2>2, <2>5
  <2> QED BY <2>4, <2>5
<1>5. Len(s) \in Long
  <2> HIDE DEF Long
  <2>1. Nat \subseteq Long
    BY <1>3, <1>4, Induction
  <2> QED BY <1>1, <2>1
<1>6. \E k \in 1 .. Len(f[Len(s)]) : f[Len(s)][k] = s[i]
  BY <1>1, <1>5
<1>7. Only(s, S) = f[Len(s)]
  BY KeptUnfolds DEF f
<1> QED BY <1>6, <1>7

\* What the writer has is cancelled and stays in the list, for its receipt.
LEMMA WithdrawSubmitted ==
    ASSUME NEW r, Good(r), NEW which, Submitted(r) # {}
    PROVE  Submitted(Withdraw(r, which)) # {}
<1> DEFINE S == {d \in Range(r.dels) : d.sub \/ d \notin which}
           kept == Only(r.dels, S)
           dels == [i \in DOMAIN kept |-> [kept[i] EXCEPT !.dead = @ \/ kept[i] \in which]]
<1>1. r.dels \in Seq(Deliveries)
  BY DEF Good, Nodes
<1>2. PICK i \in DOMAIN r.dels : r.dels[i].sub
  BY DEF Submitted
<1>3. i \in 1 .. Len(r.dels) /\ r.dels[i] \in S
  BY <1>1, <1>2, LenProperties DEF Range
<1>4. kept \in Seq(Deliveries)
  BY <1>1, OnlyType
<1>5. PICK k \in 1 .. Len(kept) : kept[k] = r.dels[i]
  <2> HIDE DEF S
  <2> QED BY <1>1, <1>3, OnlyKeeps
<1> HIDE DEF kept
<1>6. k \in DOMAIN kept /\ kept[k] \in Deliveries /\ kept[k].sub
  BY <1>2, <1>4, <1>5, LenProperties
<1>7. k \in DOMAIN dels /\ dels[k].sub
  BY <1>6 DEF Deliveries
<1>8. Withdraw(r, which).dels = dels
  <2> DEFINE jobs == [n \in DOMAIN r.jobs |->
                         IF r.jobs[n].k = "MUTATION" /\ \E d \in which : d.sub /\ d.n = r.jobs[n].n
                         THEN [r.jobs[n] EXCEPT !.live = FALSE] ELSE r.jobs[n]]
  <2>1. Withdraw(r, which) = [r EXCEPT !.dels = dels, !.jobs = jobs]
    BY DEF Withdraw, kept
  <2> HIDE DEF dels, jobs
  <2>2. r \in Nodes
    BY DEF Good
  <2> QED BY <2>1, <2>2 DEF Nodes
<1> QED BY <1>7, <1>8 DEF Submitted

LEMMA AbortSubmitted ==
    ASSUME NEW r, Good(r), Submitted(r) # {}, NEW again
    PROVE  Submitted(Abort(r, again)) # {}
<1> DEFINE s == Withdraw(r, {d \in Range(r.dels) : d.replay})
           t == [s EXCEPT !.jobs = Withdrawn(Forsaken(@)), !.done = Forsaken(@)]
<1>1. Good(s) /\ s \in Nodes /\ Submitted(s) # {}
  BY WithdrawGood, WithdrawSubmitted DEF Good
<1>2. Abort(r, again) = Idle(IF again THEN Retry(t) ELSE [t EXCEPT !.retry = 0, !.armed = FALSE])
  BY DEF Abort
<1> HIDE DEF s
<1>3. t = [s EXCEPT !.jobs = Withdrawn(Forsaken(s.jobs)), !.done = Forsaken(s.done)]
  OBVIOUS
<1>4. Abort(r, again).dels = s.dels
  BY <1>1, <1>2, <1>3 DEF Idle, Retry, Nodes
<1> QED BY <1>1, <1>4 DEF Submitted

LEMMA DropGood ==
    ASSUME NEW r, Good(r), Submitted(r) # {}
    PROVE  Good(DropFirstSubmitted(r))
<1> DEFINE i == FirstOf(Submitted(r))
<1>1. r \in Nodes /\ r.dels \in Seq(Deliveries) /\ Len(r.dels) \in Nat /\ DOMAIN r.dels = 1 .. Len(r.dels)
  BY LenProperties DEF Good, Nodes
<1>2. i \in 1 .. Len(r.dels)
  <2>1. Submitted(r) \subseteq Nat /\ Submitted(r) \subseteq 1 .. Len(r.dels)
    BY <1>1 DEF Submitted
  <2> QED BY <2>1, First
<1> HIDE DEF i
<1>3. RemoveAt(r.dels, i) \in Seq(Deliveries)
  <2>1. SubSeq(r.dels, 1, i - 1) \in Seq(Deliveries) /\ SubSeq(r.dels, i + 1, Len(r.dels)) \in Seq(Deliveries)
    BY <1>1, <1>2, SubSeqProperties
  <2> QED BY <2>1, ConcatProperties DEF RemoveAt
<1>4. DropFirstSubmitted(r) = [r EXCEPT !.dels = RemoveAt(r.dels, i)]
  BY DEF DropFirstSubmitted, i
<1>5. /\ DropFirstSubmitted(r) \in Nodes /\ SameRound(DropFirstSubmitted(r), r)
      /\ DropFirstSubmitted(r).jobs = r.jobs /\ DropFirstSubmitted(r).done = r.done
  BY <1>1, <1>3, <1>4 DEF Nodes, SameRound
<1> QED BY <1>5, Aside

LEMMA MutationReceiptGood ==
    ASSUME NEW r, Good(r), NEW j \in Receipts
    PROVE  Good(MutationReceipt(r, j))
<1> DEFINE s == IF j.ok THEN [r EXCEPT !.applied = j.n] ELSE r
           t == [s EXCEPT !.ready = FALSE]
           u == Withdraw(t, Range(s.dels))
           v == AbortActive(u)
           broken == Gap(v)
<1> SUFFICES ASSUME Submitted(r) # {} PROVE Good(MutationReceipt(r, j))
  BY DEF MutationReceipt
<1>1. MutationReceipt(r, j) \in {DropFirstSubmitted(broken), DropFirstSubmitted(s)}
  BY DEF MutationReceipt
<1>2. s \in Nodes /\ SameRound(s, r) /\ s.jobs = r.jobs /\ s.done = r.done /\ s.dels = r.dels
  BY DEF Good, Nodes, SameRound, Receipts
<1> HIDE DEF s
<1>3. t \in Nodes /\ SameRound(t, s) /\ t.jobs = s.jobs /\ t.done = s.done /\ t.dels = s.dels
  BY <1>2 DEF Nodes, SameRound
<1> HIDE DEF t
<1>4. Good(s) /\ Submitted(s) # {}
  BY <1>2, Aside DEF Submitted
<1>5. Good(t) /\ Submitted(t) # {}
  BY <1>3, <1>4, Aside DEF Submitted
<1>6. Good(u) /\ Submitted(u) # {}
  BY <1>5, WithdrawGood, WithdrawSubmitted
<1> HIDE DEF u
<1>7. Good(v) /\ Submitted(v) # {}
  BY <1>6, AbortActiveGood, AbortSubmitted DEF AbortActive
<1> HIDE DEF v
<1>8. Good(broken) /\ Submitted(broken) # {}
  <2>1. broken.dels = v.dels
    BY <1>7 DEF Gap, Send, Good, Nodes
  <2> QED BY <1>7, <2>1, GapGood DEF Submitted
<1> HIDE DEF broken
<1> QED BY <1>1, <1>4, <1>8, DropGood

\* What holds of a receipt when it is taken.
Due(r, j) ==
    Mine(j) => /\ Asked(r, j)
               /\ j.k = "PROMOTE" => Free(r)
               /\ j.k # "PROMOTE" /\ j.ok => r.stage[j.b] = Content(j.b, r.wm)

LEMMA PromotionReceiptGood ==
    ASSUME NEW r, Good(r), NEW j \in Receipts, j.k = "PROMOTE", Due(r, j)
    PROVE  Good(PromotionReceipt(r, j))
<1> DEFINE s == [r EXCEPT !.applied = j.n]
           u == [s EXCEPT !.promo = "done"]
           t == [s EXCEPT !.ready = FALSE]
<1>1. s \in Nodes /\ SameRound(s, r) /\ s.jobs = r.jobs /\ s.done = r.done
  BY DEF Good, Nodes, SameRound, Receipts
<1> HIDE DEF s
<1>2. Good(s) /\ (Free(r) => Free(s))
  BY <1>1, Aside
<1>3. CASE j.mine
  <2>1. Free(s) /\ s.promo = "asked" /\ s.active # 0
    BY <1>1, <1>2, <1>3 DEF Due, Mine, OfRound, Asked, SameRound
  <2>2. /\ u \in Nodes /\ u.promo = "done" /\ u.jobs = s.jobs /\ u.done = s.done /\ u.root = s.root
        /\ u.stage = s.stage /\ u.wm = s.wm /\ u.spec = s.spec /\ u.inv = s.inv /\ u.pend = s.pend
        /\ u.durable = s.durable /\ u.active = s.active
    BY <1>1 DEF Nodes
  <2> HIDE DEF u
  <2>3. Masks(u)
    BY <1>2, <2>1, <2>2 DEF Good, Masks
  <2>4. Good(u)
    BY <1>2, <2>1, <2>2, <2>3, Settles
  <2>5. PromotionReceipt(r, j) = Pump(u)
    BY <1>3 DEF PromotionReceipt, u, s
  <2> QED BY <2>4, <2>5, PumpGood
<1>4. CASE ~j.mine
  <2>1. t \in Nodes /\ SameRound(t, s) /\ t.jobs = s.jobs /\ t.done = s.done
    BY <1>1 DEF Nodes, SameRound
  <2>2. PromotionReceipt(r, j) \in {Abort(t, TRUE), t}
    BY <1>4 DEF PromotionReceipt, s
  <2> HIDE DEF t
  <2>3. Good(t)
    BY <1>2, <2>1, Aside
  <2> QED BY <2>2, <2>3, AbortGood
<1> QED BY <1>3, <1>4

LEMMA RoundReceiptGood ==
    ASSUME NEW r, Good(r), NEW j \in Receipts, OfRound(j), Due(r, j)
    PROVE  Good(RoundReceipt(r, j))
<1> DEFINE s == [r EXCEPT !.durable = @ \cup {j.b}, !.pend = @ \ {j.b}]
           f == [m |-> "ACK", id |-> j.id, b |-> j.b, w |-> j.n, d |-> j.d]
<1>1. CASE j.k = "PROMOTE" /\ j.ok
  BY <1>1, PromotionReceiptGood DEF RoundReceipt
<1>2. CASE ~ (j.k = "PROMOTE" /\ j.ok) /\ (~j.mine \/ ~j.ok)
  BY <1>2, AbortGood DEF RoundReceipt
<1>3. CASE j.k # "PROMOTE" /\ j.mine /\ j.ok
  <2>1. RoundReceipt(r, j) = Check(IF j.k = "REUSE" THEN s ELSE Send(s, f))
    BY <1>3 DEF RoundReceipt
  <2>2. Asked(r, j) /\ r.stage[j.b] = Content(j.b, r.wm) /\ j.b \in r.inv
    BY <1>3 DEF Due, Mine, Asked
  <2>3. r \in Nodes /\ j.b \in Blocks
    BY DEF Good, Receipts
  <2>4. f \in Replies
    BY DEF Receipts, Replies
  <2> HIDE DEF f
  <2>5. /\ s \in Nodes /\ s.durable = r.durable \cup {j.b} /\ s.pend = r.pend \ {j.b}
        /\ s.jobs = r.jobs /\ s.done = r.done /\ s.root = r.root
        /\ s.stage = r.stage /\ s.wm = r.wm /\ s.spec = r.spec /\ s.inv = r.inv /\ s.promo = r.promo
        /\ s.active = r.active
    BY <2>3 DEF Nodes
  <2> HIDE DEF s
  <2>6. Masks(s)
    BY <2>2, <2>3, <2>5 DEF Good, Masks, Asked
  <2>7. \A y : Asked(r, y) => Asked(s, y)
    BY <2>5 DEF Asked
  <2>8. Good(s)
    BY <2>5, <2>6, <2>7, Grows
  <2>9. Good(Send(s, f))
    BY <2>4, <2>8, SendGood
  <2> QED BY <2>1, <2>8, <2>9, CheckGood
<1> QED BY <1>1, <1>2, <1>3

\* A receipt that is taken, and the node without it.
LEMMA TakenGood ==
    ASSUME NEW r, Good(r), r.done # <<>>
    PROVE  LET j == Head(r.done)
               s == [r EXCEPT !.done = Tail(@)]
           IN  /\ j \in Receipts /\ Good(s) /\ Due(s, j) /\ j = r.done[1]
               /\ SameRound(s, r) /\ s.jobs = r.jobs /\ s.done = Tail(r.done) /\ s.dels = r.dels
               /\ s.ready = r.ready /\ s.applied = r.applied /\ s.accepted = r.accepted
               /\ Len(r.done) \in Nat /\ Len(s.done) \in Nat /\ Len(r.done) = Len(s.done) + 1
               /\ \A i \in 1 .. Len(s.done) : s.done[i] = r.done[i + 1]
<1> DEFINE j == Head(r.done)
           s == [r EXCEPT !.done = Tail(@)]
<1> SUFFICES /\ j \in Receipts /\ Good(s) /\ Due(s, j) /\ j = r.done[1]
             /\ SameRound(s, r) /\ s.jobs = r.jobs /\ s.done = Tail(r.done) /\ s.dels = r.dels
             /\ s.ready = r.ready /\ s.applied = r.applied /\ s.accepted = r.accepted
             /\ Len(r.done) \in Nat /\ Len(s.done) \in Nat /\ Len(r.done) = Len(s.done) + 1
             /\ \A i \in 1 .. Len(s.done) : s.done[i] = r.done[i + 1]
  OBVIOUS
<1>1. r \in Nodes /\ r.done \in Seq(Receipts)
  BY DEF Good, Nodes
<1>2. /\ Tail(r.done) \in Seq(Receipts) /\ Len(r.done) \in Nat /\ Len(r.done) >= 1
      /\ Len(Tail(r.done)) = Len(r.done) - 1
      /\ \A i \in 1 .. Len(Tail(r.done)) : Tail(r.done)[i] = r.done[i + 1]
      /\ j = r.done[1] /\ 1 \in 1 .. Len(r.done)
  <2>1. Tail(r.done) \in Seq(Receipts) /\ j = r.done[1] /\ Len(Tail(r.done)) = Len(r.done) - 1
    BY <1>1, HeadTailProperties
  <2>2. Len(r.done) \in Nat /\ Len(r.done) # 0
    BY <1>1, LenProperties, EmptySeq
  <2>3. \A i \in 1 .. Len(Tail(r.done)) : Tail(r.done)[i] = r.done[i + 1]
    BY <1>1, <2>1, HeadTailProperties
  <2> QED BY <2>1, <2>2, <2>3
<1>3. j \in Receipts
  BY <1>1, <1>2, ElementOfSeq
<1>4. /\ s \in Nodes /\ SameRound(s, r) /\ s.jobs = r.jobs /\ s.done = Tail(r.done) /\ s.dels = r.dels
      /\ s.ready = r.ready /\ s.applied = r.applied /\ s.accepted = r.accepted
  BY <1>1, <1>2 DEF Nodes, SameRound
<1> HIDE DEF s, j
<1>5. \A i \in 1 .. Len(s.done) : i + 1 \in 1 .. Len(r.done) /\ s.done[i] = r.done[i + 1] /\ 1 < i + 1
  BY <1>2, <1>4
<1>6. Good(s)
  <2>1. Masks(s) /\ Prefix(s)
    BY <1>4 DEF Good, Masks, Prefix, SameRound
  <2>2. \A y : Asked(r, y) => Asked(s, y)
    BY <1>4 DEF Asked, SameRound
  <2>3. Line(s)
    <3>1. ASSUME NEW i \in 1 .. Len(s.done), Mine(s.done[i])
          PROVE  /\ Asked(s, s.done[i])
                 /\ s.done[i].k # "PROMOTE" /\ s.done[i].ok => s.stage[s.done[i].b] = Content(s.done[i].b, s.wm)
      BY <1>4, <1>5, <2>2, <3>1 DEF Good, Line, SameRound
    <3> QED BY <1>4, <2>2, <3>1 DEF Good, Line
  <2>4. Promoting(s)
    <3>1. \A i, k \in 1 .. Len(s.done) : i < k /\ Mine(s.done[i]) /\ s.done[i].k = "PROMOTE" => ~Mine(s.done[k])
      <4> TAKE i, k \in 1 .. Len(s.done)
      <4>1. i < k => i + 1 < k + 1
        OBVIOUS
      <4> QED BY <1>5, <4>1 DEF Good, Promoting
    <3> QED BY <1>4, <1>5, <3>1 DEF Good, Promoting
  <2> QED BY <1>4, <2>1, <2>3, <2>4 DEF Good
<1>7. Due(s, j)
  <2> SUFFICES ASSUME Mine(j) PROVE /\ Asked(s, j)
                                    /\ j.k = "PROMOTE" => Free(s)
                                    /\ j.k # "PROMOTE" /\ j.ok => s.stage[j.b] = Content(j.b, s.wm)
    BY DEF Due
  <2>1. Asked(r, j) /\ (j.k # "PROMOTE" /\ j.ok => r.stage[j.b] = Content(j.b, r.wm))
    BY <1>2 DEF Good, Line
  <2>2. j.k = "PROMOTE" => Free(s)
    <3> SUFFICES ASSUME j.k = "PROMOTE" PROVE Free(s)
      OBVIOUS
    <3>1. \A i \in 1 .. Len(s.jobs) : ~Mine(s.jobs[i])
      BY <1>2, <1>4 DEF Good, Promoting
    <3>2. \A i \in 1 .. Len(s.done) : ~Mine(s.done[i])
      BY <1>2, <1>5 DEF Good, Promoting
    <3> QED BY <3>1, <3>2 DEF Free
  <2> QED BY <1>4, <2>1, <2>2 DEF Asked, SameRound
<1>8. Len(s.done) \in Nat /\ Len(r.done) = Len(s.done) + 1
  BY <1>2, <1>4
<1> QED BY <1>2, <1>3, <1>4, <1>5, <1>6, <1>7, <1>8

LEMMA ReceiptGood ==
    ASSUME NEW r, Good(r)
    PROVE  Good(Receipt(r))
<1> DEFINE j == Head(r.done)
           s == [r EXCEPT !.done = Tail(@)]
<1> SUFFICES ASSUME r.done # <<>> PROVE Good(Receipt(r))
  BY DEF Receipt
<1>1. j \in Receipts /\ Good(s) /\ Due(s, j)
  BY TakenGood
<1>2. Receipt(r) = IF OfRound(j) THEN RoundReceipt(s, j) ELSE MutationReceipt(s, j)
  BY DEF Receipt
<1> HIDE DEF s, j
<1> QED BY <1>1, <1>2, RoundReceiptGood, MutationReceiptGood

\* What the receipts of a turn make of the node, one by one.
AfterBy(r) == CHOOSE f : f = [i \in 0 .. Len(r.done) |-> IF i = 0 THEN r ELSE Receipt(f[i - 1])]

LEMMA AfterUnfolds ==
    ASSUME NEW r, Good(r)
    PROVE  /\ Len(r.done) \in Nat /\ Completions(r) = Pump(AfterBy(r)[Len(r.done)]) /\ AfterBy(r)[0] = r
           /\ \A n \in Nat : n + 1 <= Len(r.done) => AfterBy(r)[n + 1] = Receipt(AfterBy(r)[n])
<1> DEFINE Step(f, i) == IF i = 0 THEN r ELSE Receipt(f[i - 1])
           Long == {n \in Nat : \E f : f = [i \in 0 .. n |-> Step(f, i)]}
           a == AfterBy(r)
<1>1. 0 \in Long
  <2> DEFINE f == [i \in 0 .. 0 |-> r]
  <2>1. f = [i \in 0 .. 0 |-> Step(f, i)]
    OBVIOUS
  <2> QED BY <2>1
<1>2. ASSUME NEW n \in Nat, n \in Long PROVE n + 1 \in Long
  <2>1. PICK f : f = [i \in 0 .. n |-> Step(f, i)]
    BY <1>2
  <2>2. \A i \in 0 .. n : f[i] = Step(f, i)
    <3> HIDE DEF Step
    <3> QED BY <2>1
  <2> DEFINE g == [i \in 0 .. n + 1 |-> IF i <= n THEN f[i] ELSE Step(f, i)]
  <2>3. \A i \in 0 .. n + 1 : g[i] = Step(g, i)
    <3> TAKE i \in 0 .. n + 1
    <3>1. CASE i = 0
      BY <2>1, <3>1
    <3>2. CASE i # 0
      <4>1. i - 1 \in 0 .. n
        BY <3>2
      <4>2. g[i - 1] = f[i - 1]
        BY <4>1
      <4>3. i <= n => f[i] = Step(f, i)
        BY <2>2, <3>2
      <4>4. g[i] = Step(f, i)
        BY <4>3
      <4>5. Step(f, i) = Step(g, i)
        BY <4>2, <3>2
      <4> QED BY <4>4, <4>5
    <3> QED BY <3>1, <3>2
  <2>4. g = [i \in 0 .. n + 1 |-> g[i]]
    OBVIOUS
  <2>5. g = [i \in 0 .. n + 1 |-> Step(g, i)]
    <3> HIDE DEF g, Step
    <3> QED BY <2>3, <2>4
  <2> HIDE DEF g, Step
  <2>6. \E h : h = [i \in 0 .. n + 1 |-> Step(h, i)]
    BY <2>5
  <2> QED BY <2>6
<1>3. Len(r.done) \in Nat /\ Len(r.done) \in Long
  <2> HIDE DEF Long
  <2>1. Nat \subseteq Long
    BY <1>1, <1>2, Induction
  <2>2. Len(r.done) \in Nat
    BY LenProperties DEF Good, Nodes
  <2> QED BY <2>1, <2>2
<1>4. \E f : f = [i \in 0 .. Len(r.done) |-> Step(f, i)]
  BY <1>3
<1>5. a = [i \in 0 .. Len(r.done) |-> Step(a, i)]
  BY <1>4 DEF AfterBy
<1>6. Completions(r) = Pump(a[Len(r.done)])
  BY DEF Completions, AfterBy
<1>7. \A i \in 0 .. Len(r.done) : a[i] = Step(a, i)
  <2> HIDE DEF a, Step
  <2> QED BY <1>5
<1> HIDE DEF a
<1>8. a[0] = r
  <2>1. 0 \in 0 .. Len(r.done)
    BY <1>3
  <2> QED BY <1>7, <2>1
<1>9. ASSUME NEW n \in Nat, n + 1 <= Len(r.done) PROVE a[n + 1] = Receipt(a[n])
  <2>1. n + 1 \in 0 .. Len(r.done) /\ n + 1 # 0 /\ n + 1 - 1 = n
    BY <1>3, <1>9
  <2> QED BY <1>7, <2>1
<1> QED BY <1>3, <1>6, <1>8, <1>9 DEF a

LEMMA CompletionsGood ==
    ASSUME NEW r, Good(r)
    PROVE  Good(Completions(r))
<1> DEFINE a == AfterBy(r)
           Fine == {n \in Nat : n <= Len(r.done) => Good(a[n])}
<1>1. /\ Len(r.done) \in Nat /\ Completions(r) = Pump(a[Len(r.done)]) /\ a[0] = r
      /\ \A n \in Nat : n + 1 <= Len(r.done) => a[n + 1] = Receipt(a[n])
  BY AfterUnfolds
<1> HIDE DEF a
<1>2. 0 \in Fine
  BY <1>1
<1>3. ASSUME NEW n \in Nat, n \in Fine PROVE n + 1 \in Fine
  <2> SUFFICES ASSUME n + 1 <= Len(r.done) PROVE Good(a[n + 1])
    OBVIOUS
  <2>1. Good(a[n])
    BY <1>1, <1>3
  <2> QED BY <1>1, <2>1, ReceiptGood
<1>4. Good(a[Len(r.done)])
  <2> HIDE DEF Fine
  <2>1. Nat \subseteq Fine
    BY <1>2, <1>3, Induction
  <2>2. Len(r.done) \in Fine
    BY <1>1, <2>1
  <2> QED BY <1>1, <2>2 DEF Fine
<1> QED BY <1>1, <1>4, PumpGood

-----------------------------------------------------------------------------
(* The writer.                                                                *)

\* What the writer makes of its next job, whatever that does to the roots.
LEMMA Takes ==
    ASSUME NEW r, Good(r), r.jobs # <<>>, NEW s \in Nodes, NEW x \in Receipts,
           x.k = Head(r.jobs).k, x.b = Head(r.jobs).b, x.d = Head(r.jobs).d, x.n = Head(r.jobs).n,
           x.mine = Head(r.jobs).mine,
           s.jobs = Tail(r.jobs), s.done = Append(r.done, x), Masks(s), Prefix(s),
           s.active = r.active, s.wm = r.wm, s.inv = r.inv, s.spec = r.spec, s.promo = r.promo,
           \A b \in r.inv : r.stage[b] = Content(b, r.wm) => s.stage[b] = Content(b, r.wm),
           Mine(x) /\ x.k # "PROMOTE" /\ x.ok => s.stage[x.b] = Content(x.b, r.wm)
    PROVE  Good(s)
<1>1. r.jobs \in Seq(Jobs) /\ r.done \in Seq(Receipts)
  BY DEF Good, Nodes
<1>2. /\ Len(r.jobs) \in Nat /\ Len(s.jobs) = Len(r.jobs) - 1 /\ 1 \in 1 .. Len(r.jobs)
      /\ \A i \in 1 .. Len(s.jobs) : s.jobs[i] = r.jobs[i + 1]
      /\ Head(r.jobs) = r.jobs[1]
  <2>1. Head(r.jobs) = r.jobs[1] /\ Len(s.jobs) = Len(r.jobs) - 1
    BY <1>1, HeadTailProperties
  <2>2. Len(r.jobs) \in Nat /\ Len(r.jobs) # 0
    BY <1>1, LenProperties, EmptySeq
  <2>3. \A i \in 1 .. Len(s.jobs) : s.jobs[i] = r.jobs[i + 1]
    BY <1>1, <2>1, HeadTailProperties
  <2> QED BY <2>1, <2>2, <2>3
<1>3. /\ Len(r.done) \in Nat /\ Len(s.done) = Len(r.done) + 1 /\ s.done[Len(r.done) + 1] = x
      /\ \A i \in 1 .. Len(r.done) : s.done[i] = r.done[i]
  BY <1>1, AppendProperties, LenProperties
<1> DEFINE h == r.jobs[1]
<1>4. /\ Mine(x) => Mine(h)
      /\ x.k = h.k /\ x.b = h.b /\ x.d = h.d /\ x.n = h.n
  BY <1>2 DEF Mine, OfRound
<1>5. \A i \in 1 .. Len(s.jobs) : i + 1 \in 1 .. Len(r.jobs) /\ s.jobs[i] = r.jobs[i + 1] /\ 1 < i + 1
  BY <1>2
<1>6. \A i \in 1 .. Len(s.done) : i \in 1 .. Len(r.done) \/ i = Len(r.done) + 1
  BY <1>3
<1>7. \A y : Asked(r, y) => Asked(s, y)
  BY DEF Asked
<1>8. Mine(h) => Asked(r, h)
  BY <1>2 DEF Good, Line
<1>9. Line(s)
  <2>1. ASSUME NEW i \in 1 .. Len(s.jobs)
        PROVE  /\ ~OfRound(s.jobs[i]) => s.jobs[i].n >= 1 /\ s.jobs[i].b = Touch[s.jobs[i].n]
               /\ OfRound(s.jobs[i]) /\ s.jobs[i].live => s.jobs[i].mine
               /\ Mine(s.jobs[i]) => Asked(s, s.jobs[i])
    BY <1>5, <1>7 DEF Good, Line
  <2>2. ASSUME NEW i \in 1 .. Len(s.done), Mine(s.done[i])
        PROVE  /\ Asked(s, s.done[i])
               /\ s.done[i].k # "PROMOTE" /\ s.done[i].ok => s.stage[s.done[i].b] = Content(s.done[i].b, s.wm)
    <3>1. CASE i \in 1 .. Len(r.done)
      <4>1. /\ s.done[i] = r.done[i] /\ Asked(r, r.done[i])
            /\ r.done[i].k # "PROMOTE" /\ r.done[i].ok => r.stage[r.done[i].b] = Content(r.done[i].b, r.wm)
        BY <1>3, <2>2, <3>1 DEF Good, Line
      <4>2. r.done[i].k # "PROMOTE" => r.done[i].b \in r.inv
        BY <4>1 DEF Asked
      <4> QED BY <1>7, <4>1, <4>2
    <3>2. CASE i = Len(r.done) + 1
      <4>1. s.done[i] = x /\ Mine(x) /\ Asked(r, h)
        BY <1>3, <1>4, <1>8, <2>2, <3>2
      <4>2. Asked(s, x)
        BY <1>4, <4>1 DEF Asked
      <4> QED BY <4>1, <4>2
    <3> QED BY <1>6, <3>1, <3>2
  <2> QED BY <2>1, <2>2 DEF Line
<1> HIDE DEF h
<1>10. Promoting(s)
  <2>1. \A i, k \in 1 .. Len(s.jobs) : i < k /\ Mine(s.jobs[i]) /\ s.jobs[i].k = "PROMOTE" => ~Mine(s.jobs[k])
    <3> TAKE i, k \in 1 .. Len(s.jobs)
    <3>1. i < k => i + 1 < k + 1
      OBVIOUS
    <3> QED BY <1>5, <3>1 DEF Good, Promoting
  <2>2. ASSUME NEW i \in 1 .. Len(s.done), NEW k \in 1 .. Len(s.done), i < k,
               Mine(s.done[i]), s.done[i].k = "PROMOTE"
        PROVE  ~Mine(s.done[k])
    <3>1. i \in 1 .. Len(r.done) /\ s.done[i] = r.done[i]
      BY <1>3, <1>6, <2>2
    <3>2. CASE k \in 1 .. Len(r.done)
      BY <1>3, <2>2, <3>1, <3>2 DEF Good, Promoting
    <3>3. CASE k = Len(r.done) + 1
      <4>1. ~Mine(h)
        BY <1>2, <2>2, <3>1 DEF Good, Promoting, h
      <4> QED BY <1>3, <1>4, <3>3, <4>1
    <3> QED BY <1>6, <3>2, <3>3
  <2>3. ASSUME NEW i \in 1 .. Len(s.done), NEW k \in 1 .. Len(s.jobs), Mine(s.done[i]), s.done[i].k = "PROMOTE"
        PROVE  ~Mine(s.jobs[k])
    <3>1. CASE i \in 1 .. Len(r.done)
      BY <1>3, <1>5, <2>3, <3>1 DEF Good, Promoting
    <3>2. CASE i = Len(r.done) + 1
      <4>1. Mine(h) /\ h.k = "PROMOTE"
        BY <1>3, <1>4, <2>3, <3>2
      <4> QED BY <1>2, <1>5, <4>1 DEF Good, Promoting, h
    <3> QED BY <1>6, <3>1, <3>2
  <2> QED BY <2>1, <2>2, <2>3 DEF Promoting
<1> QED BY <1>9, <1>10 DEF Good

LEMMA Receipting ==
    ASSUME NEW r, Good(r), r.jobs # <<>>, NEW ok \in BOOLEAN
    PROVE  LET j == Head(r.jobs)  x == Receipted(j, ok)
           IN  /\ j \in Jobs /\ x \in Receipts /\ x.k = j.k /\ x.b = j.b /\ x.d = j.d /\ x.n = j.n
               /\ x.mine = j.mine /\ x.ok = ok
               /\ Tail(r.jobs) \in Seq(Jobs) /\ Append(r.done, x) \in Seq(Receipts)
               /\ ~OfRound(j) => j.n >= 1 /\ j.b = Touch[j.n]
               /\ OfRound(j) /\ j.live => j.mine
               /\ Mine(j) => Asked(r, j)
<1>1. r.jobs \in Seq(Jobs) /\ r.done \in Seq(Receipts)
  BY DEF Good, Nodes
<1> DEFINE j == Head(r.jobs)
           x == Receipted(j, ok)
<1>2. j = r.jobs[1] /\ 1 \in 1 .. Len(r.jobs) /\ Tail(r.jobs) \in Seq(Jobs)
  <2>1. Len(r.jobs) \in Nat /\ Len(r.jobs) # 0
    BY <1>1, LenProperties, EmptySeq
  <2> QED BY <1>1, <2>1, HeadTailProperties
<1>3. j \in Jobs
  BY <1>1, <1>2, ElementOfSeq
<1>4. /\ ~OfRound(j) => j.n >= 1 /\ j.b = Touch[j.n]
      /\ OfRound(j) /\ j.live => j.mine
      /\ Mine(j) => Asked(r, j)
  BY <1>2 DEF Good, Line
<1> HIDE DEF j
<1>5. /\ x \in Receipts /\ x.k = j.k /\ x.b = j.b /\ x.d = j.d /\ x.n = j.n
      /\ x.mine = j.mine /\ x.ok = ok
  BY <1>3 DEF Receipted, Jobs, Receipts
<1> HIDE DEF x
<1>6. Append(r.done, x) \in Seq(Receipts)
  BY <1>1, <1>5, AppendProperties
<1> QED BY <1>2, <1>3, <1>4, <1>5, <1>6 DEF x, j

\* A job that fails leaves the roots alone.
LEMMA FailedGood ==
    ASSUME NEW r, Good(r), r.jobs # <<>>
    PROVE  Good([r EXCEPT !.jobs = Tail(@), !.done = Append(@, Receipted(Head(r.jobs), FALSE))])
<1> DEFINE j == Head(r.jobs)
           x == Receipted(j, FALSE)
           s == [r EXCEPT !.jobs = Tail(@), !.done = Append(@, x)]
<1>1. r \in Nodes
  BY DEF Good
<1>2. /\ j \in Jobs /\ x \in Receipts /\ x.k = j.k /\ x.b = j.b /\ x.d = j.d /\ x.n = j.n
      /\ x.mine = j.mine /\ ~x.ok
      /\ Tail(r.jobs) \in Seq(Jobs) /\ Append(r.done, x) \in Seq(Receipts)
  BY Receipting
<1> HIDE DEF x
<1>3. /\ s \in Nodes /\ SameRound(s, r) /\ s.jobs = Tail(r.jobs) /\ s.done = Append(r.done, x)
  BY <1>1, <1>2 DEF Nodes, SameRound
<1> HIDE DEF s
<1>4. Masks(s) /\ Prefix(s)
  BY <1>3 DEF Good, Masks, Prefix, SameRound
<1>5. Good(s)
  BY <1>2, <1>3, <1>4, Takes DEF SameRound
<1> QED BY <1>5 DEF s, x

\* A mutation follows the root, a block of the round goes to the pending root as it was
\* announced, and the promotion finds all of them there.
LEMMA WrittenGood ==
    ASSUME NEW r, Good(r), r.jobs # <<>>, Head(r.jobs).live, Succeeds(r, Head(r.jobs))
    PROVE  Good([Executed(r, Head(r.jobs)) EXCEPT !.jobs = Tail(@), !.done = Append(@, Receipted(Head(r.jobs), TRUE))])
<1> DEFINE j == Head(r.jobs)
           x == Receipted(j, TRUE)
           e == Executed(r, j)
           s == [e EXCEPT !.jobs = Tail(@), !.done = Append(@, x)]
<1>1. r \in Nodes /\ r.root \in RootRecords /\ r.stage \in [Blocks -> 0 .. MaxSeq]
  BY DEF Good, Nodes
<1>2. /\ j \in Jobs /\ x \in Receipts /\ x.k = j.k /\ x.b = j.b /\ x.d = j.d /\ x.n = j.n
      /\ x.mine = j.mine /\ x.ok
      /\ Tail(r.jobs) \in Seq(Jobs) /\ Append(r.done, x) \in Seq(Receipts)
      /\ ~OfRound(j) => j.n >= 1 /\ j.b = Touch[j.n]
      /\ OfRound(j) /\ j.live => j.mine
      /\ Mine(j) => Asked(r, j)
  BY Receipting
<1>3. j.live /\ Succeeds(r, j)
  OBVIOUS
<1> HIDE DEF x, j
<1>4. OfRound(j) => Asked(r, j) /\ Mine(j)
  BY <1>2, <1>3 DEF Mine
<1>5. ASSUME NEW root \in RootRecords, NEW stage \in [Blocks -> 0 .. MaxSeq],
             e = [r EXCEPT !.root = root, !.stage = stage]
      PROVE  /\ s \in Nodes /\ s.jobs = Tail(r.jobs) /\ s.done = Append(r.done, x)
             /\ s.root = root /\ s.stage = stage /\ s.wm = r.wm /\ s.spec = r.spec /\ s.inv = r.inv
             /\ s.promo = r.promo /\ s.pend = r.pend /\ s.durable = r.durable /\ s.active = r.active
  <2>1. /\ e \in Nodes /\ e.jobs = r.jobs /\ e.done = r.done
        /\ e.root = root /\ e.stage = stage /\ e.wm = r.wm /\ e.spec = r.spec /\ e.inv = r.inv
        /\ e.promo = r.promo /\ e.pend = r.pend /\ e.durable = r.durable /\ e.active = r.active
    BY <1>1, <1>5 DEF Nodes
  <2> HIDE DEF e
  <2> QED BY <1>2, <2>1 DEF Nodes
<1>6. CASE j.k = "MUTATION"
  <2> DEFINE root == [seq |-> j.n, blocks |-> [r.root.blocks EXCEPT ![j.b] = j.n]]
  <2>1. j.n = r.root.seq + 1 /\ j.b = Touch[j.n] /\ j.n \in 0 .. MaxSeq /\ r.root.seq \in Nat
    BY <1>1, <1>2, <1>3, <1>6, Stream DEF Succeeds, OfRound, Jobs, RootRecords
  <2>2. root = Root(j.n)
    <3>1. r.root = Root(r.root.seq)
      BY DEF Good, Prefix
    <3>2. Root(r.root.seq + 1) = [seq |-> r.root.seq + 1,
                                  blocks |-> [Root(r.root.seq).blocks EXCEPT ![Touch[r.root.seq + 1]] = r.root.seq + 1]]
      BY <2>1, RootStep
    <3> QED BY <2>1, <3>1, <3>2
  <2>3. root \in RootRecords
    BY <2>1, <2>2, RootType
  <2>4. e = [r EXCEPT !.root = root]
    BY <1>6 DEF Executed
  <2> HIDE DEF root
  <2>5. e = [r EXCEPT !.root = root, !.stage = r.stage]
    BY <1>1, <2>4 DEF Nodes
  <2> HIDE DEF e
  <2>6. /\ s \in Nodes /\ s.jobs = Tail(r.jobs) /\ s.done = Append(r.done, x)
        /\ s.root = root /\ s.stage = r.stage /\ s.wm = r.wm /\ s.spec = r.spec /\ s.inv = r.inv
        /\ s.promo = r.promo /\ s.pend = r.pend /\ s.durable = r.durable /\ s.active = r.active
    BY <1>1, <1>5, <2>3, <2>5
  <2> HIDE DEF s
  <2>7. Masks(s) /\ Prefix(s)
    <3>1. Masks(s)
      BY <2>6 DEF Good, Masks
    <3>2. root.seq = j.n
      BY DEF root
    <3> QED BY <2>2, <2>6, <3>1, <3>2 DEF Prefix
  <2>8. ~Mine(x)
    BY <1>2, <1>6 DEF Mine, OfRound
  <2> QED BY <1>2, <2>6, <2>7, <2>8, Takes DEF s, e, x, j
<1>7. CASE j.k = "PROMOTE"
  <2> DEFINE root == [seq |-> j.n, blocks |-> r.stage]
  <2>1. j.n = r.wm /\ r.promo = "asked" /\ r.wm \in 0 .. MaxSeq
    BY <1>1, <1>4, <1>7 DEF OfRound, Asked, Nodes
  <2>2. r.stage = [b \in Blocks |-> Content(b, r.wm)]
    <3>1. \A b \in Blocks : r.stage[b] = Content(b, r.wm)
      BY <2>1 DEF Good, Masks
    <3> QED BY <1>1, <3>1
  <2>3. root = Root(j.n)
    BY <2>1, <2>2 DEF Root
  <2>4. root \in RootRecords
    BY <2>1, <2>3, RootType
  <2>5. e = [r EXCEPT !.root = root]
    BY <1>7 DEF Executed
  <2> HIDE DEF root
  <2>6. e = [r EXCEPT !.root = root, !.stage = r.stage]
    BY <1>1, <2>5 DEF Nodes
  <2> HIDE DEF e
  <2>7. /\ s \in Nodes /\ s.jobs = Tail(r.jobs) /\ s.done = Append(r.done, x)
        /\ s.root = root /\ s.stage = r.stage /\ s.wm = r.wm /\ s.spec = r.spec /\ s.inv = r.inv
        /\ s.promo = r.promo /\ s.pend = r.pend /\ s.durable = r.durable /\ s.active = r.active
    BY <1>1, <1>5, <2>4, <2>6
  <2> HIDE DEF s
  <2>8. Masks(s) /\ Prefix(s)
    <3>1. Masks(s)
      BY <2>7 DEF Good, Masks
    <3>2. root.seq = j.n
      BY DEF root
    <3> QED BY <2>3, <2>7, <3>1, <3>2 DEF Prefix
  <2>9. x.k = "PROMOTE"
    BY <1>2, <1>7
  <2>10. \A b \in r.inv : r.stage[b] = Content(b, r.wm) => s.stage[b] = Content(b, r.wm)
    BY <2>7
  <2>11. Mine(x) /\ x.k # "PROMOTE" /\ x.ok => s.stage[x.b] = Content(x.b, r.wm)
    BY <2>9
  <2>12. Good(s)
    BY <1>2, <2>7, <2>8, <2>10, <2>11, Takes DEF j
  <2> QED BY <2>12 DEF s, e, x, j
<1>8. CASE j.k \in {"REUSE", "END"}
  <2> DEFINE stage == [r.stage EXCEPT ![j.b] = j.d]
  <2>1. j.b \in Blocks /\ j.d \in 0 .. MaxSeq /\ j.b \in r.inv /\ j.d = Content(j.b, r.wm)
    <3>1. j.b \in r.inv /\ j.d = r.spec[j.b]
      BY <1>4, <1>8 DEF OfRound, Asked
    <3> QED BY <1>2, <3>1 DEF Good, Masks, Jobs
  <2>2. stage \in [Blocks -> 0 .. MaxSeq] /\ \A b \in Blocks : stage[b] = IF b = j.b THEN j.d ELSE r.stage[b]
    BY <1>1, <2>1
  <2>3. e = [r EXCEPT !.stage = stage]
    BY <1>8 DEF Executed
  <2> HIDE DEF stage
  <2>4. e = [r EXCEPT !.root = r.root, !.stage = stage]
    BY <1>1, <2>3 DEF Nodes
  <2> HIDE DEF e
  <2>5. /\ s \in Nodes /\ s.jobs = Tail(r.jobs) /\ s.done = Append(r.done, x)
        /\ s.root = r.root /\ s.stage = stage /\ s.wm = r.wm /\ s.spec = r.spec /\ s.inv = r.inv
        /\ s.promo = r.promo /\ s.pend = r.pend /\ s.durable = r.durable /\ s.active = r.active
    BY <1>1, <1>5, <2>2, <2>4
  <2> HIDE DEF s
  <2>6. r.inv \subseteq Blocks /\ r.durable \subseteq Blocks
    BY <1>1 DEF Nodes
  <2>7. Masks(s) /\ Prefix(s)
    BY <2>1, <2>2, <2>5, <2>6 DEF Good, Masks, Prefix
  <2>8. \A b \in r.inv : r.stage[b] = Content(b, r.wm) => s.stage[b] = Content(b, r.wm)
    BY <2>1, <2>2, <2>5, <2>6
  <2>9. s.stage[x.b] = Content(x.b, r.wm)
    BY <1>2, <2>1, <2>2, <2>5
  <2> QED BY <1>2, <2>5, <2>7, <2>8, <2>9, Takes DEF s, e, x, j
<1>9. j.k \in {"MUTATION", "PROMOTE", "REUSE", "END"}
  BY <1>2 DEF Jobs
<1> QED BY <1>6, <1>7, <1>8, <1>9 DEF s, e, x, j

-----------------------------------------------------------------------------
(* The authority.                                                             *)

Rounds == [id : Nat, gen : 0 .. MaxSeq, requested : SUBSET Blocks, sent : SUBSET Blocks, acked : SUBSET Blocks]
Authorities == [ready : BOOLEAN, seq : 0 .. MaxSeq, relayed : 0 .. MaxSeq, next : Nat, round : Rounds]

Orderly(a) ==
    /\ a \in Authorities /\ a.relayed <= a.seq
    /\ a.round.acked \subseteq a.round.sent /\ a.round.sent \subseteq a.round.requested

\* What may be under way to the replica.
Frames == {f \in [m : {"INF", "SNAP", "MANIFEST ACK"}, id : Nat \ {0}, b : Blocks,
                  w : 0 .. MaxSeq, d : 0 .. MaxSeq] : f.d = Content(f.b, f.w)}
            \cup [m : {"INS"}, n : 1 .. MaxSeq] \cup [m : {"ERR"}, id : Nat] \cup [m : {"MANIFEST ERR"}]

LEMMA FramesSound == \A f \in Frames : Sound(f)
BY DEF Frames, Sound, Told

LEMMA RoundFrames ==
    ASSUME NEW id \in Nat \ {0}, NEW n \in 0 .. MaxSeq, NEW b \in Blocks
    PROVE  Inf(id, n, b) \in Frames /\ Snap(id, n, b) \in Frames /\ ManifestAck(Inf(id, n, b)) \in Frames
<1>1. Content(b, n) \in 0 .. MaxSeq
  <2>1. Content(b, n) \in 0 .. n /\ MaxSeq \in Nat
    BY ContentType, Stream
  <2> QED BY <2>1
<1>2. Inf(id, n, b) \in Frames /\ Snap(id, n, b) \in Frames
  BY <1>1 DEF Inf, Snap, Frames
<1> DEFINE g == Inf(id, n, b)
<1>3. g \in [m : {"INF"}, id : Nat \ {0}, b : Blocks, w : 0 .. MaxSeq, d : 0 .. MaxSeq] /\ g.d = Content(g.b, g.w)
  BY <1>1 DEF Inf
<1> HIDE DEF g
<1>4. [g EXCEPT !.m = "MANIFEST ACK"] \in Frames
  BY <1>3 DEF Frames
<1>5. ManifestAck(Inf(id, n, b)) \in Frames
  BY <1>4 DEF ManifestAck, g
<1> QED BY <1>2, <1>5

LEMMA InventoryFrames ==
    ASSUME NEW id \in Nat \ {0}, NEW n \in 0 .. MaxSeq
    PROVE  /\ Inventory(id, n) \in Seq(Frames) /\ Len(Inventory(id, n)) \in Nat
           /\ \A i \in 1 .. Len(Inventory(id, n)) :
                 Inventory(id, n)[i] \in Frames /\ ManifestAck(Inventory(id, n)[i]) \in Frames
<1> DEFINE c == Cardinality(Blocks)
           order == CHOOSE s \in Ascending(Blocks) : TRUE
           infs == [i \in 1 .. c |-> Inf(id, n, order[i])]
<1>1. c \in Nat /\ order \in [1 .. c -> Blocks]
  <2>1. c \in Nat
    BY SyncAssumption, FS_CardinalityType
  <2>2. Ascending(Blocks) # {}
    BY SyncAssumption, Sorts
  <2>3. order \in Ascending(Blocks)
    BY <2>2
  <2> HIDE DEF order
  <2> QED BY <2>1, <2>3 DEF Ascending
<1>2. Inventory(id, n) = infs
  BY DEF Inventory
<1> HIDE DEF c, order
<1>3. \A i \in 1 .. c : infs[i] \in Frames /\ ManifestAck(infs[i]) \in Frames
  BY <1>1, RoundFrames
<1>4. infs \in [1 .. c -> Frames]
  BY <1>3
<1> HIDE DEF infs
<1>5. infs \in Seq(Frames) /\ Len(infs) = c
  <2>1. infs \in Seq(Frames)
    BY <1>1, <1>4, SeqDef
  <2>2. DOMAIN infs = 1 .. c /\ DOMAIN infs = 1 .. Len(infs) /\ Len(infs) \in Nat
    BY <1>4, <2>1, LenProperties
  <2> QED BY <1>1, <2>1, <2>2
<1> QED BY <1>1, <1>2, <1>3, <1>5

LEMMA ManifestFrames ==
    ASSUME NEW id \in Nat \ {0}, NEW n \in 0 .. MaxSeq
    PROVE  Manifest(id, n) \in Seq(Frames)
<1> DEFINE infs == Inventory(id, n)
           all == [i \in 1 .. 2 * Len(infs) |->
                     IF i % 2 = 1 THEN ManifestAck(infs[(i + 1) \div 2]) ELSE infs[i \div 2]]
<1>1. /\ Len(infs) \in Nat
      /\ \A i \in 1 .. Len(infs) : infs[i] \in Frames /\ ManifestAck(infs[i]) \in Frames
  BY InventoryFrames
<1>2. Manifest(id, n) = all
  BY DEF Manifest
<1> HIDE DEF infs
<1>3. ASSUME NEW i \in 1 .. 2 * Len(infs) PROVE all[i] \in Frames
  <2>1. i % 2 = 1 => (i + 1) \div 2 \in 1 .. Len(infs)
    BY <1>1
  <2>2. i % 2 # 1 => i \div 2 \in 1 .. Len(infs)
    BY <1>1
  <2> QED BY <1>1, <2>1, <2>2
<1>4. all \in [1 .. 2 * Len(infs) -> Frames] /\ 2 * Len(infs) \in Nat
  BY <1>1, <1>3
<1> HIDE DEF all
<1>5. all \in Seq(Frames)
  BY <1>4, SeqDef
<1> QED BY <1>2, <1>5

-----------------------------------------------------------------------------
(* The invariant.                                                             *)

SyncInvariant ==
    /\ Good(node) /\ Orderly(auth)
    /\ down \in Seq(Frames) /\ up \in Seq(Replies)

LEMMA Heads ==
    ASSUME NEW T, NEW s \in Seq(T), s # <<>>
    PROVE  Head(s) \in T /\ Tail(s) \in Seq(T)
BY HeadTailProperties

LEMMA BecomesGood ==
    ASSUME NEW r, Good(r), up \in Seq(Replies), Becomes(r)
    PROVE  Good(node') /\ up' \in Seq(Replies)
<1>1. r \in Nodes /\ r.out \in Seq(Replies) /\ <<>> \in Seq(Replies)
  BY DEF Good, Nodes
<1> DEFINE s == [r EXCEPT !.out = <<>>]
<1>2. s \in Nodes /\ SameRound(s, r) /\ s.jobs = r.jobs /\ s.done = r.done
  BY <1>1 DEF Nodes, SameRound
<1>3. node' = s /\ (up' = up \/ up' = up \o r.out)
  BY DEF Becomes
<1> HIDE DEF s
<1>4. Good(s)
  BY <1>2, Aside
<1> QED BY <1>1, <1>3, <1>4, ConcatProperties

LEMMA InvariantStarts == Init => SyncInvariant
<1> SUFFICES ASSUME Init PROVE SyncInvariant
  OBVIOUS
<1>1. MaxSeq \in Nat /\ MaxSeq # 0 /\ RetryMax \in Nat
  <2>1. Touch \in Seq(Blocks) /\ Touch # <<>>
    BY SyncAssumption
  <2> QED BY <2>1, LenProperties, EmptySeq, SyncAssumption DEF MaxSeq
<1>2. 0 \in 0 .. MaxSeq /\ 1 \in 0 .. MaxSeq /\ 0 \in 0 .. RetryMax
  BY <1>1
<1>3. Root(0) \in RootRecords /\ Root(0).seq = 0
  BY <1>2, RootType DEF Root
<1>4. Orderly(auth)
  BY <1>2 DEF Init, NoRound, Snapshot, Orderly, Authorities, Rounds
<1>5. /\ Fresh \in Nodes /\ Fresh.jobs = <<>> /\ Fresh.done = <<>> /\ Fresh.inv = {} /\ Fresh.pend = {}
      /\ Fresh.durable = {} /\ Fresh.promo = "no" /\ Fresh.root = Root(0)
  <2> DEFINE root == Root(0)
             zero == [b \in Blocks |-> 0]
             calm == Calm
             none == <<>>
  <2>1. root \in RootRecords /\ zero \in [Blocks -> 0 .. MaxSeq] /\ calm \in Contacts
    BY <1>2, <1>3 DEF Calm, Contacts
  <2>2. none \in Seq(Deliveries) /\ none \in Seq(Jobs) /\ none \in Seq(Receipts) /\ none \in Seq(Replies)
    OBVIOUS
  <2>3. Fresh = [ready |-> FALSE, active |-> 0, wm |-> 0,
          inv |-> {}, spec |-> zero, pend |-> {}, durable |-> {}, promo |-> "no",
          retry |-> 0, armed |-> FALSE,
          dels |-> none, jobs |-> none, done |-> none,
          root |-> root, stage |-> zero, applied |-> 0,
          ae |-> calm, out |-> none, accepted |-> 0, exhausted |-> FALSE]
    BY DEF Fresh
  <2> HIDE DEF root, zero, calm, none
  <2>4. /\ Fresh \in Nodes /\ Fresh.jobs = none /\ Fresh.done = none /\ Fresh.inv = {} /\ Fresh.pend = {}
        /\ Fresh.durable = {} /\ Fresh.promo = "no" /\ Fresh.root = root
    BY <1>2, <2>1, <2>2, <2>3 DEF Nodes
  <2> QED BY <2>4 DEF root, none
<1>6. Good(Fresh)
  <2>1. Masks(Fresh)
    BY <1>5 DEF Masks
  <2>2. Line(Fresh) /\ Promoting(Fresh)
    <3>1. Len(Fresh.jobs) = 0 /\ Len(Fresh.done) = 0
      BY <1>5
    <3> QED BY <3>1 DEF Line, Promoting
  <2>3. Prefix(Fresh)
    BY <1>3, <1>5 DEF Prefix
  <2> QED BY <1>5, <2>1, <2>2, <2>3 DEF Good
<1>7. Hello \in Replies
  BY DEF Hello, Replies
<1>8. down \in Seq(Frames) /\ up \in Seq(Replies)
  BY <1>7 DEF Init
<1> QED BY <1>4, <1>6, <1>8 DEF Init, SyncInvariant

-----------------------------------------------------------------------------
(* Steps of the authority.                                                    *)

LEMMA AnswersKeep ==
    ASSUME SyncInvariant, up # <<>>, NEW a, Orderly(a), NEW frames \in Seq(Frames), Answers(a, frames)
    PROVE  SyncInvariant'
<1>1. up' = Tail(up) /\ auth' = a /\ down' = down \o frames /\ node' = node
  BY DEF Answers
<1>2. up' \in Seq(Replies)
  BY <1>1, Heads DEF SyncInvariant
<1>3. down' \in Seq(Frames)
  BY <1>1, ConcatProperties DEF SyncInvariant
<1> QED BY <1>1, <1>2, <1>3 DEF SyncInvariant

\* What the authority sends of itself.
LEMMA SendsKeep ==
    ASSUME SyncInvariant, Orderly(auth'), NEW frames \in Seq(Frames),
           down' = down \/ down' = down \o frames, UNCHANGED <<node, up>>
    PROVE  SyncInvariant'
<1>1. down' \in Seq(Frames)
  BY ConcatProperties DEF SyncInvariant
<1> QED BY <1>1 DEF SyncInvariant

LEMMA OneFrame ==
    ASSUME NEW f \in Frames, NEW s \in Seq(Frames)
    PROVE  Append(s, f) = s \o <<f>> /\ <<f>> \in Seq(Frames)
OBVIOUS

LEMMA Offers ==
    ASSUME Orderly(auth), NEW id \in Nat, NEW n \in 0 .. MaxSeq
    PROVE  Orderly(Offer(auth, id, n))
BY DEF Orderly, Authorities, Rounds, Offer, Snapshot

LEMMA AuthorityKeeps ==
    ASSUME SyncInvariant,
           \/ HearHello \/ HearManifest \/ HearRes \/ HearAck
           \/ SendBlock \/ SendFails \/ DropRound
           \/ Mutate \/ Relay \/ RelayFails \/ RelaySkips \/ Unready \/ BecomeReady
    PROVE  SyncInvariant'
<1>0. /\ Orderly(auth) /\ auth \in Authorities /\ auth.round \in Rounds
      /\ down \in Seq(Frames) /\ up \in Seq(Replies) /\ MaxSeq \in Nat
      /\ auth.next \in Nat /\ auth.seq \in 0 .. MaxSeq /\ auth.relayed \in 0 .. MaxSeq
      /\ auth.relayed <= auth.seq /\ <<>> \in Seq(Frames)
  BY Stream DEF SyncInvariant, Orderly, Authorities
<1>1. CASE HearHello
  <2> DEFINE a == [Offer(auth, auth.next + 1, auth.seq) EXCEPT !.next = @ + 1]
             infs == Inventory(auth.next + 1, auth.seq)
  <2>1. auth.next + 1 \in Nat \ {0}
    BY <1>0
  <2>2. infs \in Seq(Frames)
    BY <1>0, <2>1, InventoryFrames
  <2>3. Orderly(a)
    <3>1. Offer(auth, auth.next + 1, auth.seq) = [auth EXCEPT !.round = Snapshot(auth.next + 1, auth.seq)]
      BY DEF Offer
    <3>2. Snapshot(auth.next + 1, auth.seq) \in Rounds /\ Snapshot(auth.next + 1, auth.seq).acked = {}
          /\ Snapshot(auth.next + 1, auth.seq).sent = {}
      BY <1>0, <2>1 DEF Snapshot, Rounds
    <3> DEFINE q == Snapshot(auth.next + 1, auth.seq)
    <3>3. a = [auth EXCEPT !.round = q, !.next = auth.next + 1]
      BY <1>0, <3>1 DEF Authorities
    <3> HIDE DEF q, a
    <3>4. q \in Rounds /\ q.acked = {} /\ q.sent = {}
      BY <3>2 DEF q
    <3> QED BY <1>0, <2>1, <3>3, <3>4 DEF Orderly, Authorities
  <2>4. Answers(a, infs) \/ Answers(auth, <<>>)
    BY <1>1 DEF HearHello
  <2> HIDE DEF a, infs
  <2> QED BY <1>0, <1>1, <2>2, <2>3, <2>4, AnswersKeep DEF HearHello
<1>2. CASE HearManifest
  <2> DEFINE a == Offer(auth, RequestId, auth.seq)
             frames == Manifest(RequestId, auth.seq)
             err == <<ManifestErr>>
  <2>1. RequestId \in Nat \ {0}
    BY SyncAssumption
  <2>2. frames \in Seq(Frames) /\ Orderly(a)
    BY <1>0, <2>1, ManifestFrames, Offers
  <2>3. err \in Seq(Frames)
    BY DEF ManifestErr, Frames
  <2>4. Answers(a, frames) \/ Answers(auth, err)
    BY <1>2 DEF HearManifest
  <2> HIDE DEF a, frames, err
  <2> QED BY <1>0, <1>2, <2>2, <2>3, <2>4, AnswersKeep DEF HearManifest
<1>3. CASE HearRes
  <2> DEFINE f == Head(up)
             a == [auth EXCEPT !.round.requested = @ \cup {f.b}]
             err == <<Err(f.id)>>
  <2>1. f \in Replies /\ f.m = "RES"
    BY <1>0, <1>3, Heads DEF HearRes
  <2>2. f.b \in Blocks /\ f.id \in Nat
    BY <2>1 DEF Replies
  <2>3. Answers(a, <<>>) \/ Answers(auth, err)
    BY <1>3 DEF HearRes
  <2> HIDE DEF f
  <2>4. err \in Seq(Frames)
    <3>1. Err(f.id) \in Frames
      BY <2>2 DEF Err, Frames
    <3> QED BY <3>1
  <2>5. Orderly(a)
    BY <1>0, <2>2 DEF Orderly, Authorities, Rounds
  <2> HIDE DEF a, err
  <2> QED BY <1>0, <1>3, <2>3, <2>4, <2>5, AnswersKeep DEF HearRes
<1>4. CASE HearAck
  <2> DEFINE f == Head(up)
             a == [auth EXCEPT !.round.acked = @ \cup {f.b}]
  <2>1. (Answers(a, <<>>) /\ f.b \in auth.round.sent) \/ Answers(auth, <<>>)
    BY <1>4 DEF HearAck
  <2> HIDE DEF f
  <2>2. f.b \in auth.round.sent => Orderly(a)
    BY <1>0 DEF Orderly, Authorities, Rounds
  <2> HIDE DEF a
  <2> QED BY <1>0, <1>4, <2>1, <2>2, AnswersKeep DEF HearAck
<1>5. CASE SendBlock
  <2> DEFINE S == auth.round.requested \ auth.round.sent
             b == FirstOf(S)
             f == Snap(auth.round.id, auth.round.gen, b)
             a == [auth EXCEPT !.round.sent = @ \cup {b}]
  <2>1. /\ auth.round.id # 0 /\ S # {} /\ down' = Append(down, f) /\ auth' = a /\ UNCHANGED <<node, up>>
    BY <1>5 DEF SendBlock, Sendable
  <2>2. b \in S /\ b \in Blocks /\ auth.round.id \in Nat \ {0} /\ auth.round.gen \in 0 .. MaxSeq
    <3>1. S \subseteq Blocks /\ S \subseteq Nat
      BY <1>0, SyncAssumption DEF Rounds
    <3>2. b \in S
      BY <2>1, <3>1, First
    <3> QED BY <1>0, <2>1, <3>1, <3>2 DEF Rounds
  <2>3. f \in Frames
    BY <2>2, RoundFrames
  <2> HIDE DEF b, f
  <2>4. Orderly(a)
    BY <1>0, <2>2 DEF Orderly, Authorities, Rounds
  <2>5. <<f>> \in Seq(Frames) /\ down' = down \o <<f>>
    BY <1>0, <2>1, <2>3, OneFrame
  <2> QED BY <2>1, <2>4, <2>5, SendsKeep
<1>6. CASE SendFails \/ DropRound
  <2> DEFINE a == [auth EXCEPT !.round = NoRound]
             f == Err(auth.round.id)
  <2>1. auth' = a /\ (down' = down \/ down' = Append(down, f)) /\ UNCHANGED <<node, up>>
    BY <1>6 DEF SendFails, DropRound
  <2>2. f \in Frames
    BY <1>0 DEF Err, Frames, Rounds
  <2> HIDE DEF f
  <2>3. NoRound \in Rounds /\ NoRound.acked = {} /\ NoRound.sent = {}
    BY <1>0 DEF NoRound, Snapshot, Rounds
  <2>4. Orderly(a)
    BY <1>0, <2>3 DEF Orderly, Authorities
  <2>5. <<f>> \in Seq(Frames) /\ Append(down, f) = down \o <<f>>
    BY <1>0, <2>2, OneFrame
  <2> QED BY <2>1, <2>4, <2>5, SendsKeep
<1>7. CASE Mutate \/ Unready
  <2> DEFINE a == [auth EXCEPT !.seq = @ + 1]
             c == [auth EXCEPT !.ready = FALSE]
  <2>1. (auth' = a /\ auth.seq < MaxSeq) \/ auth' = c
    BY <1>7 DEF Mutate, Unready
  <2>2. auth.seq < MaxSeq => auth.seq + 1 \in 0 .. MaxSeq /\ auth.relayed <= auth.seq + 1
    BY <1>0
  <2>3. (auth.seq < MaxSeq => Orderly(a)) /\ Orderly(c)
    BY <1>0, <2>2 DEF Orderly, Authorities
  <2>4. Orderly(auth')
    BY <2>1, <2>3
  <2>5. down' = down /\ UNCHANGED <<node, up>>
    BY <1>7 DEF Mutate, Unready
  <2> QED BY <1>0, <2>4, <2>5, SendsKeep
<1>8. CASE Relay \/ RelayFails \/ RelaySkips
  <2> DEFINE f == [m |-> "INS", n |-> auth.relayed + 1]
             a == [auth EXCEPT !.relayed = @ + 1]
             c == [auth EXCEPT !.relayed = @ + 1, !.ready = FALSE]
  <2>1. /\ auth.relayed < auth.seq /\ auth' \in {a, c} /\ (down' = down \/ down' = Append(down, f))
        /\ UNCHANGED <<node, up>>
    BY <1>8 DEF Relay, RelayFails, RelaySkips
  <2>2. auth.relayed + 1 \in 1 .. MaxSeq /\ auth.relayed + 1 \in 0 .. MaxSeq /\ auth.relayed + 1 <= auth.seq
    BY <1>0, <2>1
  <2>3. f \in Frames
    BY <2>2 DEF Frames
  <2> HIDE DEF f
  <2>4. Orderly(a) /\ Orderly(c)
    BY <1>0, <2>2 DEF Orderly, Authorities
  <2>5. Orderly(auth')
    BY <2>1, <2>4
  <2>6. <<f>> \in Seq(Frames) /\ Append(down, f) = down \o <<f>>
    BY <1>0, <2>3, OneFrame
  <2> QED BY <2>1, <2>5, <2>6, SendsKeep
<1>9. CASE BecomeReady
  <2>1. PICK n \in auth.seq .. MaxSeq :
          LET a == [auth EXCEPT !.ready = TRUE, !.seq = n, !.relayed = n]
          IN  IF linked
              THEN /\ auth.next < MaxOffer
                   /\ auth' = [Offer(a, a.next + 1, n) EXCEPT !.next = @ + 1]
                   /\ down' = down \o Inventory(a.next + 1, n)
              ELSE auth' = a /\ UNCHANGED down
    BY <1>9 DEF BecomeReady
  <2> DEFINE a == [auth EXCEPT !.ready = TRUE, !.seq = n, !.relayed = n]
             q == Snapshot(a.next + 1, n)
             c == [Offer(a, a.next + 1, n) EXCEPT !.next = @ + 1]
             infs == Inventory(auth.next + 1, n)
  <2>2. n \in 0 .. MaxSeq /\ n <= n /\ auth.next + 1 \in Nat \ {0}
    BY <1>0
  <2>3. a \in Authorities /\ Orderly(a) /\ a.next = auth.next
    BY <1>0, <2>2 DEF Orderly, Authorities
  <2>4. infs \in Seq(Frames)
    BY <2>2, InventoryFrames
  <2>5. (auth' = c /\ down' = down \o infs) \/ (auth' = a /\ down' = down)
    BY <2>1, <2>3
  <2> HIDE DEF a, infs
  <2>6. q \in Rounds /\ q.acked = {} /\ q.sent = {}
    BY <2>2, <2>3 DEF Snapshot, Rounds
  <2>7. c = [a EXCEPT !.round = q, !.next = a.next + 1]
    BY <2>3 DEF Authorities, Offer
  <2> HIDE DEF q, c
  <2>8. Orderly(c)
    BY <2>2, <2>3, <2>6, <2>7 DEF Orderly, Authorities
  <2>9. UNCHANGED <<node, up>>
    BY <1>9 DEF BecomeReady
  <2> QED BY <1>0, <2>3, <2>4, <2>5, <2>8, <2>9, SendsKeep
<1> QED BY <1>1, <1>2, <1>3, <1>4, <1>5, <1>6, <1>7, <1>8, <1>9

-----------------------------------------------------------------------------
(* Steps of the replica.                                                      *)

\* Facts that belong to no round may change at any time.
LEMMA Notes ==
    ASSUME NEW r, Good(r)
    PROVE  /\ Good([r EXCEPT !.armed = FALSE]) /\ Good([r EXCEPT !.ready = FALSE])
           /\ r.retry < RetryMax => Good([r EXCEPT !.retry = @ + 1])
           /\ \A c \in Contacts : Good([r EXCEPT !.ae = c])
<1>1. r \in Nodes
  BY DEF Good
<1>2. Good([r EXCEPT !.armed = FALSE])
  <2> DEFINE s == [r EXCEPT !.armed = FALSE]
  <2>1. s \in Nodes /\ SameRound(s, r) /\ s.jobs = r.jobs /\ s.done = r.done
    BY <1>1 DEF Nodes, SameRound
  <2> HIDE DEF s
  <2>2. Good(s)
    BY <2>1, Aside
  <2> QED BY <2>2 DEF s
<1>3. Good([r EXCEPT !.ready = FALSE])
  <2> DEFINE s == [r EXCEPT !.ready = FALSE]
  <2>1. s \in Nodes /\ SameRound(s, r) /\ s.jobs = r.jobs /\ s.done = r.done
    BY <1>1 DEF Nodes, SameRound
  <2> HIDE DEF s
  <2>2. Good(s)
    BY <2>1, Aside
  <2> QED BY <2>2 DEF s
<1>4. ASSUME r.retry < RetryMax PROVE Good([r EXCEPT !.retry = @ + 1])
  <2> DEFINE s == [r EXCEPT !.retry = @ + 1]
  <2>1. r.retry + 1 \in 0 .. RetryMax
    <3>1. RetryMax \in Nat /\ r.retry \in 0 .. RetryMax
      BY <1>1, SyncAssumption DEF Nodes
    <3> QED BY <1>4, <3>1
  <2>2. s \in Nodes /\ SameRound(s, r) /\ s.jobs = r.jobs /\ s.done = r.done
    BY <1>1, <2>1 DEF Nodes, SameRound
  <2> HIDE DEF s
  <2>3. Good(s)
    BY <2>2, Aside
  <2> QED BY <2>3 DEF s
<1>5. ASSUME NEW c \in Contacts PROVE Good([r EXCEPT !.ae = c])
  <2> DEFINE s == [r EXCEPT !.ae = c]
  <2>1. s \in Nodes /\ SameRound(s, r) /\ s.jobs = r.jobs /\ s.done = r.done
    BY <1>1 DEF Nodes, SameRound
  <2> HIDE DEF s
  <2>2. Good(s)
    BY <2>1, Aside
  <2> QED BY <2>2 DEF s
<1> QED BY <1>2, <1>3, <1>4, <1>5

LEMMA ReselectGood ==
    ASSUME NEW r, Good(r)
    PROVE  Good(Reselect(r))
<1> DEFINE v == Revoke(r)
           x == AbortActive(Withdraw(v, Range(r.dels)))
<1>1. Good(v)
  BY RevokeGood
<1> HIDE DEF v
<1>2. Good(x)
  BY <1>1, WithdrawGood, AbortActiveGood
<1>3. Reselect(r) = [x EXCEPT !.ready = FALSE]
  BY DEF Reselect, v
<1> HIDE DEF x
<1> QED BY <1>2, <1>3, Notes

\* A step that makes of the node what is good leaves the rest of the invariant.
LEMMA BecomesKeeps ==
    ASSUME SyncInvariant, NEW r, Good(r), Becomes(r), auth' = auth, down' \in Seq(Frames)
    PROVE  SyncInvariant'
<1>1. Good(node') /\ up' \in Seq(Replies)
  BY BecomesGood DEF SyncInvariant
<1> QED BY <1>1 DEF SyncInvariant

LEMMA ReplicaKeeps ==
    ASSUME SyncInvariant,
           \/ Receive \/ Refuse \/ Tick \/ Write \/ WriteFails
           \/ Timeout \/ RetryDue \/ Verify \/ VerifyExpires
           \/ LinkBreaks \/ LinkReturns
    PROVE  SyncInvariant'
<1>0. /\ Good(node) /\ node \in Nodes /\ Orderly(auth) /\ auth \in Authorities
      /\ down \in Seq(Frames) /\ up \in Seq(Replies) /\ <<>> \in Seq(Frames) /\ <<>> \in Seq(Replies)
      /\ MaxSeq \in Nat
  BY Stream DEF SyncInvariant, Good, Orderly
<1>1. CASE Receive
  <2>1. down # <<>> /\ down' = Tail(down) /\ Becomes(Hear(node, Head(down))) /\ auth' = auth
    BY <1>1 DEF Receive
  <2>2. Sound(Head(down)) /\ down' \in Seq(Frames)
    BY <1>0, <2>1, Heads, FramesSound
  <2>3. Good(Hear(node, Head(down)))
    BY <1>0, <2>2, HearGood
  <2> QED BY <2>1, <2>2, <2>3, BecomesKeeps
<1>2. CASE Tick
  <2>1. Becomes(Completions(node)) /\ auth' = auth /\ down' = down
    BY <1>2 DEF Tick
  <2>2. Good(Completions(node))
    BY <1>0, CompletionsGood
  <2> QED BY <1>0, <2>1, <2>2, BecomesKeeps
<1>3. CASE Write
  <2> DEFINE j == Head(node.jobs)
             x == [node EXCEPT !.jobs = Tail(@), !.done = Append(@, Receipted(j, FALSE))]
             y == [Executed(node, j) EXCEPT !.jobs = Tail(@), !.done = Append(@, Receipted(j, TRUE))]
  <2>1. node.jobs # <<>> /\ UNCHANGED <<auth, down, up>>
    BY <1>3 DEF Write
  <2>2. CASE j.live /\ Succeeds(node, j)
    <3>1. node' = y
      BY <1>3, <2>2 DEF Write
    <3>2. Good(y)
      BY <1>0, <2>1, <2>2, WrittenGood
    <3> QED BY <1>0, <2>1, <3>1, <3>2 DEF SyncInvariant
  <2>3. CASE ~ (j.live /\ Succeeds(node, j))
    <3>1. node' = x
      BY <1>3, <2>3 DEF Write
    <3>2. Good(x)
      BY <1>0, <2>1, FailedGood
    <3> QED BY <1>0, <2>1, <3>1, <3>2 DEF SyncInvariant
  <2> QED BY <2>2, <2>3
<1>4. CASE WriteFails
  <2> DEFINE x == [node EXCEPT !.jobs = Tail(@), !.done = Append(@, Receipted(Head(node.jobs), FALSE))]
  <2>1. node.jobs # <<>> /\ node' = x /\ UNCHANGED <<auth, down, up>>
    BY <1>4 DEF WriteFails
  <2>2. Good(x)
    BY <1>0, <2>1, FailedGood
  <2> QED BY <1>0, <2>1, <2>2 DEF SyncInvariant
<1>5. CASE Timeout
  <2>1. Becomes(Abort(node, TRUE)) /\ auth' = auth /\ down' = down
    BY <1>5 DEF Timeout
  <2> QED BY <1>0, <2>1, AbortGood, BecomesKeeps
<1>6. CASE RetryDue
  <2> DEFINE r == IF ~linked THEN [node EXCEPT !.armed = FALSE]
                  ELSE IF RetriesLeft(node) THEN Send([node EXCEPT !.retry = @ + 1], Hello)
                  ELSE Send([node EXCEPT !.armed = FALSE], Hello)
  <2>1. Becomes(r) /\ auth' = auth /\ down' = down
    BY <1>6 DEF RetryDue
  <2>2. Hello \in Replies
    BY DEF Hello, Replies
  <2>3. Good([node EXCEPT !.armed = FALSE]) /\ (RetriesLeft(node) => Good([node EXCEPT !.retry = @ + 1]))
    BY <1>0, Notes DEF RetriesLeft
  <2>4. Good(r)
    BY <2>2, <2>3, SendGood
  <2> HIDE DEF r
  <2> QED BY <1>0, <2>1, <2>4, BecomesKeeps
<1>7. CASE Verify
  <2> DEFINE s == [node EXCEPT !.ae.pending = TRUE]
             c == [node.ae EXCEPT !.pending = TRUE]
             f == [m |-> "MANIFEST"]
  <2>1. Becomes(Send(s, f)) /\ auth' = auth /\ down' = down
    BY <1>7 DEF Verify
  <2>2. f \in Replies
    BY DEF Replies
  <2>3. c \in Contacts
    BY <1>0 DEF Nodes, Contacts
  <2>4. s = [node EXCEPT !.ae = c]
    OBVIOUS
  <2> HIDE DEF c, f, s
  <2>5. Good(s)
    BY <1>0, <2>3, <2>4, Notes
  <2> QED BY <1>0, <2>1, <2>2, <2>5, SendGood, BecomesKeeps
<1>8. CASE VerifyExpires
  <2>1. Becomes([node EXCEPT !.ae = Calm]) /\ auth' = auth /\ down' = down
    BY <1>8 DEF VerifyExpires
  <2>2. Calm \in Contacts
    BY <1>0 DEF Calm, Contacts
  <2>3. Good([node EXCEPT !.ae = Calm])
    BY <1>0, <2>2, Notes
  <2> QED BY <1>0, <2>1, <2>3, BecomesKeeps
<1>9. CASE LinkBreaks
  <2> DEFINE r == Reselect(node)
             a == [auth EXCEPT !.round = NoRound]
  <2>1. up' = <<>> /\ down' = <<>> /\ node' = [r EXCEPT !.ae = Calm] /\ auth' = a
    BY <1>9 DEF LinkBreaks
  <2>2. Good(r)
    BY <1>0, ReselectGood
  <2> HIDE DEF r
  <2>3. Calm \in Contacts
    BY <1>0 DEF Calm, Contacts
  <2>4. Good([r EXCEPT !.ae = Calm])
    BY <2>2, <2>3, Notes
  <2>5. NoRound \in Rounds /\ NoRound.acked = {} /\ NoRound.sent = {}
    BY <1>0 DEF NoRound, Snapshot, Rounds
  <2>6. Orderly(a)
    BY <1>0, <2>5 DEF Orderly, Authorities
  <2> QED BY <1>0, <2>1, <2>4, <2>6 DEF SyncInvariant
<1>10. CASE LinkReturns
  <2>1. PICK next \in {0, auth.next} : auth' = [auth EXCEPT !.next = next]
    BY <1>10 DEF LinkReturns
  <2>2. up' = <<Hello>> /\ down' = down /\ node' = Reselect(node)
    BY <1>10 DEF LinkReturns
  <2>3. Hello \in Replies
    BY DEF Hello, Replies
  <2>4. <<Hello>> \in Seq(Replies)
    BY <2>3
  <2>5. Orderly(auth')
    BY <1>0, <2>1 DEF Orderly, Authorities
  <2>6. Good(Reselect(node))
    BY <1>0, ReselectGood
  <2> QED BY <1>0, <2>2, <2>4, <2>5, <2>6 DEF SyncInvariant
<1>11. CASE Refuse
  <2>1. down # <<>> /\ down' = Tail(down) /\ UNCHANGED <<auth, node, up>>
    BY <1>11 DEF Refuse
  <2>2. down' \in Seq(Frames)
    BY <1>0, <2>1, Heads
  <2> QED BY <1>0, <2>1, <2>2 DEF SyncInvariant
<1> QED BY <1>1, <1>2, <1>3, <1>4, <1>5, <1>6, <1>7, <1>8, <1>9, <1>10, <1>11

LEMMA InvariantKept == SyncInvariant /\ [Next]_vars => SyncInvariant'
<1> SUFFICES ASSUME SyncInvariant, [Next]_vars PROVE SyncInvariant'
  OBVIOUS
<1>1. CASE UNCHANGED vars
  BY <1>1 DEF vars, SyncInvariant
<1>2. CASE Next
  BY <1>2, AuthorityKeeps, ReplicaKeeps DEF Next
<1> QED BY <1>1, <1>2

\* What is under way between the authority and the replica, what waits at the writer and
\* what the round has collected agree at every step of UdbSync's code: the invariant the
\* two results below are read from.
THEOREM SyncInvariantHolds == Spec => []SyncInvariant
<1>1. Init => SyncInvariant
  BY InvariantStarts
<1>2. SyncInvariant /\ [Next]_vars => SyncInvariant'
  BY InvariantKept
<1> QED BY <1>1, <1>2, PTL DEF Spec

\* However often a round is aborted, repeated or replaced, and whatever the writer, the
\* link or a deadline does meanwhile, the replica's durable root is one the authority had
\* (udb_native_receive_inf, _promote, _complete and udb_storage_engine_authority).
THEOREM RootsArePrefixes == Spec => []RootIsPrefix
<1>1. SyncInvariant => RootIsPrefix
  BY DEF SyncInvariant, Good, Prefix, RootIsPrefix
<1> QED BY <1>1, SyncInvariantHolds, PTL

\* The masks of a round stay within the blocks and within each other, at both ends, and the
\* lists of deliveries, jobs and receipts hold only what the code puts there.
THEOREM SyncTypeCorrect == Spec => []SyncTypeOK
<1>1. SyncInvariant => SyncTypeOK
  <2> SUFFICES ASSUME SyncInvariant PROVE SyncTypeOK
    OBVIOUS
  <2>1. node \in Nodes /\ Masks(node) /\ Orderly(auth) /\ MaxSeq \in Nat
    BY Stream DEF SyncInvariant, Good
  <2>2. auth.seq \in 0 .. MaxSeq /\ auth.relayed \in 0 .. auth.seq
    BY <2>1 DEF Orderly, Authorities
  <2>3. node.ae.acked \subseteq Blocks /\ (node.ae.acked # {} => node.ae.pending)
    BY <2>1 DEF Nodes, Contacts
  <2> QED BY <2>1, <2>2, <2>3 DEF SyncTypeOK, Orderly, Masks, Nodes
<1> QED BY <1>1, SyncInvariantHolds, PTL

-----------------------------------------------------------------------------
(* The tail: what the replica is told of, and what the writer has of it.      *)

\* A list keeps what it begins with, if all of that is kept, and after it only what was
\* after it.
LEMMA OnlyFirst ==
    ASSUME NEW T, NEW s \in Seq(T), NEW S, NEW k \in 0 .. Len(s), \A i \in 1 .. k : s[i] \in S
    PROVE  /\ Only(s, S) \in Seq(T) /\ Len(Only(s, S)) \in Nat /\ k <= Len(Only(s, S))
           /\ \A i \in 1 .. k : Only(s, S)[i] = s[i]
           /\ \A i \in k + 1 .. Len(Only(s, S)) : \E m \in k + 1 .. Len(s) : Only(s, S)[i] = s[m] /\ s[m] \in S
<1> DEFINE f == KeptBy(s, S)
           Early(n) == n <= k => Len(f[n]) = n /\ \A i \in 1 .. n : f[n][i] = s[i]
           Late(n) == n >= k => /\ k <= Len(f[n])
                                /\ \A i \in 1 .. k : f[n][i] = s[i]
                                /\ \A i \in k + 1 .. Len(f[n]) : \E m \in k + 1 .. Len(s) : f[n][i] = s[m] /\ s[m] \in S
           Long == {n \in Nat : n <= Len(s) => f[n] \in Seq(T) /\ Early(n) /\ Late(n)}
<1>1. Len(s) \in Nat /\ (\A i \in 1 .. Len(s) : s[i] \in T) /\ k \in Nat /\ k <= Len(s)
  BY LenProperties, ElementOfSeq
<1>2. \A i \in 0 .. Len(s) : f[i] = IF i = 0 THEN <<>> ELSE IF s[i] \in S THEN Append(f[i - 1], s[i]) ELSE f[i - 1]
  BY KeptUnfolds
<1> HIDE DEF f
<1>3. 0 \in Long
  <2>1. f[0] = <<>>
    <3>1. 0 \in 0 .. Len(s)
      BY <1>1
    <3> QED BY <1>2, <3>1
  <2>2. <<>> \in Seq(T) /\ Len(<<>>) = 0
    OBVIOUS
  <2>3. Early(0)
    BY <2>1, <2>2
  <2>4. Late(0)
    BY <1>1, <2>1, <2>2
  <2> QED BY <2>1, <2>2, <2>3, <2>4
<1>4. ASSUME NEW n \in Nat, n \in Long PROVE n + 1 \in Long
  <2> SUFFICES ASSUME n + 1 <= Len(s) PROVE f[n + 1] \in Seq(T) /\ Early(n + 1) /\ Late(n + 1)
    OBVIOUS
  <2>1. f[n] \in Seq(T) /\ Early(n) /\ Late(n) /\ n + 1 \in 0 .. Len(s) /\ n + 1 \in 1 .. Len(s) /\ n + 1 - 1 = n /\ n + 1 # 0
    BY <1>1, <1>4
  <2>2. f[n + 1] = IF s[n + 1] \in S THEN Append(f[n], s[n + 1]) ELSE f[n]
    BY <1>2, <2>1
  <2>3. s[n + 1] \in T /\ (n + 1 <= k => s[n + 1] \in S)
    BY <1>1, <2>1
  <2>4. CASE s[n + 1] \in S
    <3> DEFINE g == f[n]
               h == f[n + 1]
               e == s[n + 1]
    <3>1. g \in Seq(T) /\ e \in T /\ h = Append(g, e) /\ e \in S /\ e = s[n + 1]
      BY <2>1, <2>2, <2>3, <2>4
    <3>2. (n <= k => Len(g) = n /\ \A i \in 1 .. n : g[i] = s[i])
          /\ (n >= k => /\ k <= Len(g)
                        /\ \A i \in 1 .. k : g[i] = s[i]
                        /\ \A i \in k + 1 .. Len(g) : \E m \in k + 1 .. Len(s) : g[i] = s[m] /\ s[m] \in S)
      BY <2>1
    <3> HIDE DEF g, h, e
    <3>3. /\ h \in Seq(T) /\ Len(h) = Len(g) + 1 /\ Len(g) \in Nat
          /\ h[Len(g) + 1] = e /\ \A i \in 1 .. Len(g) : h[i] = g[i]
      BY <3>1, AppendProperties, LenProperties
    <3>4. n + 1 <= k => Len(h) = n + 1 /\ \A i \in 1 .. n + 1 : h[i] = s[i]
      BY <1>1, <3>1, <3>2, <3>3
    <3>5. n + 1 >= k => /\ k <= Len(h)
                        /\ \A i \in 1 .. k : h[i] = s[i]
                        /\ \A i \in k + 1 .. Len(h) : \E m \in k + 1 .. Len(s) : h[i] = s[m] /\ s[m] \in S
      <4>1. CASE n + 1 = k
        <5>1. \A i \in k + 1 .. Len(h) : FALSE
          BY <3>4, <4>1
        <5> QED BY <3>4, <4>1, <5>1
      <4>2. CASE n >= k
        <5>1. k <= Len(h) /\ \A i \in 1 .. k : h[i] = s[i]
          BY <1>1, <3>2, <3>3, <4>2
        <5>2. ASSUME NEW i \in k + 1 .. Len(h) PROVE \E m \in k + 1 .. Len(s) : h[i] = s[m] /\ s[m] \in S
          <6>1. CASE i = Len(g) + 1
            <7>1. n + 1 \in k + 1 .. Len(s) /\ h[i] = s[n + 1] /\ s[n + 1] \in S
              BY <1>1, <3>1, <3>3, <4>2, <6>1
            <7> QED BY <7>1
          <6>2. CASE i # Len(g) + 1
            <7>1. i \in k + 1 .. Len(g) /\ h[i] = g[i]
              BY <1>1, <3>3, <5>2, <6>2
            <7> QED BY <3>2, <4>2, <7>1
          <6> QED BY <6>1, <6>2
        <5> QED BY <5>1, <5>2
      <4> QED BY <1>1, <4>1, <4>2
    <3> QED BY <3>3, <3>4, <3>5 DEF h
  <2>5. CASE s[n + 1] \notin S
    <3>1. f[n + 1] = f[n] /\ ~ (n + 1 <= k)
      BY <2>2, <2>3, <2>5
    <3>2. n >= k
      BY <1>1, <3>1
    <3> QED BY <2>1, <3>1, <3>2
  <2> QED BY <2>4, <2>5
<1>5. Len(s) \in Long
  <2> HIDE DEF Long
  <2>1. Nat \subseteq Long
    BY <1>3, <1>4, Induction
  <2> QED BY <1>1, <2>1
<1>6. f[Len(s)] \in Seq(T) /\ Late(Len(s)) /\ Len(s) >= k
  BY <1>1, <1>5
<1>7. Only(s, S) = f[Len(s)]
  BY KeptUnfolds DEF f
<1>8. Len(f[Len(s)]) \in Nat
  BY <1>6, LenProperties
<1> QED BY <1>6, <1>7, <1>8

\* Of a list, what comes after the k-th is in S, and nothing before.
Splits(s, S, k) ==
    /\ k \in 0 .. Len(s)
    /\ \A i \in 1 .. k : s[i] \notin S
    /\ \A i \in k + 1 .. Len(s) : s[i] \in S

\* A list that drops what it begins with and keeps the rest.
LEMMA OnlyLast ==
    ASSUME NEW T, NEW s \in Seq(T), NEW S, NEW k, Splits(s, S, k)
    PROVE  /\ Only(s, S) \in Seq(T) /\ Len(Only(s, S)) = Len(s) - k
           /\ \A i \in 1 .. Len(s) - k : Only(s, S)[i] = s[k + i]
<1> DEFINE f == KeptBy(s, S)
           Early(n) == n <= k => f[n] = <<>>
           Late(n) == n >= k => Len(f[n]) = n - k /\ \A i \in 1 .. n - k : f[n][i] = s[k + i]
           Long == {n \in Nat : n <= Len(s) => f[n] \in Seq(T) /\ Early(n) /\ Late(n)}
<1>0. /\ k \in 0 .. Len(s)
      /\ \A i \in 1 .. k : s[i] \notin S
      /\ \A i \in k + 1 .. Len(s) : s[i] \in S
  BY DEF Splits
<1>1. Len(s) \in Nat /\ (\A i \in 1 .. Len(s) : s[i] \in T) /\ k \in Nat /\ k <= Len(s)
  BY <1>0, LenProperties, ElementOfSeq
<1>2. \A i \in 0 .. Len(s) : f[i] = IF i = 0 THEN <<>> ELSE IF s[i] \in S THEN Append(f[i - 1], s[i]) ELSE f[i - 1]
  BY KeptUnfolds
<1> HIDE DEF f
<1>3. 0 \in Long
  <2>1. f[0] = <<>>
    <3>1. 0 \in 0 .. Len(s)
      BY <1>1
    <3> QED BY <1>2, <3>1
  <2>2. <<>> \in Seq(T) /\ Len(<<>>) = 0
    OBVIOUS
  <2>4. Late(0)
    BY <1>1, <2>1, <2>2
  <2> QED BY <2>1, <2>2, <2>4
<1>4. ASSUME NEW n \in Nat, n \in Long PROVE n + 1 \in Long
  <2> SUFFICES ASSUME n + 1 <= Len(s) PROVE f[n + 1] \in Seq(T) /\ Early(n + 1) /\ Late(n + 1)
    OBVIOUS
  <2>1. f[n] \in Seq(T) /\ Early(n) /\ Late(n) /\ n + 1 \in 0 .. Len(s) /\ n + 1 \in 1 .. Len(s) /\ n + 1 - 1 = n /\ n + 1 # 0
    BY <1>1, <1>4
  <2>2. f[n + 1] = IF s[n + 1] \in S THEN Append(f[n], s[n + 1]) ELSE f[n]
    BY <1>2, <2>1
  <2>4. CASE n + 1 <= k
    <3>1. s[n + 1] \notin S /\ f[n] = <<>> /\ f[n + 1] = f[n]
      BY <1>0, <1>1, <2>1, <2>2, <2>4
    <3>2. n + 1 >= k => (n + 1) - k = 0 /\ Len(<<>>) = 0
      BY <1>1, <2>4
    <3> QED BY <1>1, <2>1, <3>1, <3>2
  <2>5. CASE ~ (n + 1 <= k)
    <3> DEFINE g == f[n]
               h == f[n + 1]
               e == s[n + 1]
    <3>0. n + 1 \in k + 1 .. Len(s) /\ n >= k
      BY <1>1, <2>5
    <3>1. g \in Seq(T) /\ e \in T /\ h = Append(g, e) /\ e = s[n + 1]
      BY <1>0, <1>1, <2>1, <2>2, <3>0
    <3>2. Len(g) = n - k /\ \A i \in 1 .. n - k : g[i] = s[k + i]
      BY <2>1, <3>0
    <3> HIDE DEF g, h, e
    <3>3. /\ h \in Seq(T) /\ Len(h) = Len(g) + 1 /\ Len(g) \in Nat
          /\ h[Len(g) + 1] = e /\ \A i \in 1 .. Len(g) : h[i] = g[i]
      BY <3>1, AppendProperties, LenProperties
    <3>4. Len(h) = (n + 1) - k
      BY <1>1, <3>2, <3>3
    <3>5. ASSUME NEW i \in 1 .. (n + 1) - k PROVE h[i] = s[k + i]
      <4>1. CASE i = (n + 1) - k
        <5>1. i = Len(g) + 1 /\ k + i = n + 1
          BY <1>1, <3>2, <4>1
        <5> QED BY <3>1, <3>3, <5>1
      <4>2. CASE i # (n + 1) - k
        <5>1. i \in 1 .. n - k /\ i \in 1 .. Len(g)
          BY <1>1, <3>2, <3>5, <4>2
        <5> QED BY <3>2, <3>3, <5>1
      <4> QED BY <4>1, <4>2
    <3>6. Early(n + 1)
      BY <2>5
    <3>7. Late(n + 1)
      <4> SUFFICES Len(h) = (n + 1) - k /\ \A i \in 1 .. (n + 1) - k : h[i] = s[k + i]
        BY DEF h
      <4> QED BY <3>4, <3>5
    <3>8. f[n + 1] \in Seq(T)
      BY <3>3 DEF h
    <3> HIDE DEF Early, Late
    <3> QED BY <3>6, <3>7, <3>8
  <2> QED BY <2>4, <2>5
<1>5. Len(s) \in Long
  <2> HIDE DEF Long
  <2>1. Nat \subseteq Long
    BY <1>3, <1>4, Induction
  <2> QED BY <1>1, <2>1
<1>6. f[Len(s)] \in Seq(T) /\ Late(Len(s)) /\ Len(s) >= k
  BY <1>1, <1>5
<1>7. Only(s, S) = f[Len(s)]
  BY KeptUnfolds DEF f
<1> QED BY <1>6, <1>7

\* A list that keeps everything is the same.
LEMMA OnlyWhole ==
    ASSUME NEW T, NEW s \in Seq(T), NEW S, \A i \in 1 .. Len(s) : s[i] \in S
    PROVE  /\ Only(s, S) \in Seq(T) /\ Len(Only(s, S)) = Len(s)
           /\ \A i \in 1 .. Len(s) : Only(s, S)[i] = s[i]
<1>1. Len(s) \in 0 .. Len(s) /\ Len(s) \in Nat
  BY LenProperties
<1>2. \A i \in Len(s) + 1 .. Len(s) : FALSE
  BY <1>1
<1>3. /\ Only(s, S) \in Seq(T) /\ Len(Only(s, S)) \in Nat /\ Len(s) <= Len(Only(s, S))
      /\ \A i \in 1 .. Len(s) : Only(s, S)[i] = s[i]
      /\ \A i \in Len(s) + 1 .. Len(Only(s, S)) : \E m \in Len(s) + 1 .. Len(s) : TRUE
  BY <1>1, OnlyFirst
<1>4. Len(s) + 1 \notin Len(s) + 1 .. Len(Only(s, S))
  BY <1>2, <1>3
<1> QED BY <1>1, <1>3, <1>4

\* The writer has the first k deliveries, in the order of their jobs and receipts, and only
\* then what belongs to rounds; `lag` of the receipts are being handled.  What it does not
\* have is the tail of a replay.
Matched(r, k, lag) ==
    /\ k \in Nat /\ k <= Len(r.dels) /\ k <= Len(r.done) + Len(r.jobs) + lag
    /\ \A i \in 1 .. k : r.dels[i].sub
    /\ \A i \in k + 1 .. Len(r.dels) : ~r.dels[i].sub /\ r.dels[i].replay /\ ~r.dels[i].dead
    /\ \A i \in 1 .. Len(r.done) :
          /\ OfRound(r.done[i]) <=> i + lag > k
          /\ i + lag <= k => r.done[i].n = r.dels[i + lag].n
    /\ \A i \in 1 .. Len(r.jobs) :
          /\ OfRound(r.jobs[i]) <=> Len(r.done) + i + lag > k
          /\ Len(r.done) + i + lag <= k => r.jobs[i].n = r.dels[Len(r.done) + i + lag].n

\* Nothing at all comes after the promotion of the round.
Closing(r) ==
    /\ \A i \in 1 .. Len(r.done) :
          Mine(r.done[i]) /\ r.done[i].k = "PROMOTE" => i = Len(r.done) /\ Len(r.jobs) = 0
    /\ \A i \in 1 .. Len(r.jobs) : Mine(r.jobs[i]) /\ r.jobs[i].k = "PROMOTE" => i = Len(r.jobs)

NoPromotion(r) ==
    /\ \A i \in 1 .. Len(r.done) : ~ (Mine(r.done[i]) /\ r.done[i].k = "PROMOTE")
    /\ \A i \in 1 .. Len(r.jobs) : ~ (Mine(r.jobs[i]) /\ r.jobs[i].k = "PROMOTE")

\* READY, or after the promotion: all it was told of is at the writer, in its place.
Streaming(r, k) ==
    r.ready \/ r.promo = "done" =>
        /\ k = Len(r.dels) /\ k = Len(r.done) + Len(r.jobs) /\ r.accepted <= r.applied + k
        /\ \A i \in 1 .. k : /\ ~r.dels[i].dead /\ r.dels[i].n = r.applied + i
                             /\ r.dels[i].replay <=> r.promo = "done"

\* In a round: what the writer has counts no more, and the tail follows the snapshot.
Importing(r, k) ==
    r.active # 0 /\ r.promo # "done" =>
        /\ r.accepted <= r.wm + (Len(r.dels) - k)
        /\ \A i \in 1 .. k : r.dels[i].dead
        /\ \A i \in k + 1 .. Len(r.dels) : r.dels[i].n = r.wm + (i - k)

Follows(r) ==
    /\ r.ready => r.active = 0
    /\ Closing(r)
    /\ \E k \in Nat : Matched(r, k, 0) /\ Streaming(r, k) /\ Importing(r, k)

\* After a promotion there is a tail to wait for, or the node is READY.
Settled(r) == r.promo = "done" => r.dels # <<>>
Steady(r) == Follows(r) /\ Settled(r)

\* The deliveries xs are those of ys, but for some of the tail.
LesserTail(xs, ys, k) ==
    /\ Len(xs) \in Nat /\ k <= Len(xs)
    /\ \A i \in 1 .. k : xs[i].sub /\ xs[i].n = ys[i].n
    /\ \A i \in k + 1 .. Len(xs) : ~xs[i].sub /\ xs[i].replay /\ ~xs[i].dead

LEMMA Lists ==
    ASSUME NEW r, Good(r)
    PROVE  /\ Len(r.dels) \in Nat /\ Len(r.done) \in Nat /\ Len(r.jobs) \in Nat
           /\ \A i \in 1 .. Len(r.dels) : r.dels[i] \in Deliveries
           /\ \A i \in 1 .. Len(r.done) : r.done[i] \in Receipts
           /\ \A i \in 1 .. Len(r.jobs) : r.jobs[i] \in Jobs
           /\ r.accepted \in Nat /\ r.applied \in Nat /\ r.wm \in Nat /\ r.active \in Nat
<1>1. r \in Nodes /\ MaxSeq \in Nat
  BY Stream DEF Good
<1>2. r.dels \in Seq(Deliveries) /\ r.done \in Seq(Receipts) /\ r.jobs \in Seq(Jobs)
  BY <1>1 DEF Nodes
<1>3. r.accepted \in Nat /\ r.applied \in Nat /\ r.wm \in Nat /\ r.active \in Nat
  BY <1>1 DEF Nodes
<1> QED BY <1>2, <1>3, LenProperties, ElementOfSeq

LEMMA MatchedLess ==
    ASSUME NEW r, Good(r), NEW k, NEW lag \in Nat, Matched(r, k, lag), NEW s,
           LesserTail(s.dels, r.dels, k), LesserJobs(s.jobs, r.jobs), LesserReceipts(s.done, r.done)
    PROVE  Matched(s, k, lag)
<1>1. /\ Len(s.jobs) = Len(r.jobs) /\ Len(s.done) = Len(r.done)
      /\ \A i \in 1 .. Len(r.jobs) : s.jobs[i].k = r.jobs[i].k /\ s.jobs[i].n = r.jobs[i].n
      /\ \A i \in 1 .. Len(r.done) : s.done[i].k = r.done[i].k /\ s.done[i].n = r.done[i].n
  BY DEF LesserJobs, LesserReceipts, LesserJob, LesserReceipt
<1>2. Len(r.done) \in Nat /\ Len(r.jobs) \in Nat /\ k \in Nat
  BY Lists DEF Matched
<1>3. /\ k \in Nat /\ k <= Len(s.dels) /\ k <= Len(s.done) + Len(s.jobs) + lag
      /\ \A i \in 1 .. k : s.dels[i].sub
      /\ \A i \in k + 1 .. Len(s.dels) : ~s.dels[i].sub /\ s.dels[i].replay /\ ~s.dels[i].dead
  BY <1>1, <1>2 DEF Matched, LesserTail
<1>4. \A i \in 1 .. k : s.dels[i].n = r.dels[i].n
  BY DEF LesserTail
<1>5. ASSUME NEW i \in 1 .. Len(s.done)
      PROVE  /\ OfRound(s.done[i]) <=> i + lag > k
             /\ i + lag <= k => s.done[i].n = s.dels[i + lag].n
  <2>1. i \in 1 .. Len(r.done)
    BY <1>1
  <2>2. OfRound(s.done[i]) <=> OfRound(r.done[i])
    BY <1>1, <2>1 DEF OfRound
  <2>3. i + lag <= k => i + lag \in 1 .. k
    BY <1>2, <2>1
  <2> QED BY <1>1, <1>4, <2>1, <2>2, <2>3 DEF Matched
<1>6. ASSUME NEW i \in 1 .. Len(s.jobs)
      PROVE  /\ OfRound(s.jobs[i]) <=> Len(s.done) + i + lag > k
             /\ Len(s.done) + i + lag <= k => s.jobs[i].n = s.dels[Len(s.done) + i + lag].n
  <2>1. i \in 1 .. Len(r.jobs)
    BY <1>1
  <2>2. OfRound(s.jobs[i]) <=> OfRound(r.jobs[i])
    BY <1>1, <2>1 DEF OfRound
  <2> DEFINE p == Len(r.done) + i + lag
  <2>3. p <= k => p \in 1 .. k
    BY <1>2, <2>1
  <2>4. (OfRound(r.jobs[i]) <=> p > k) /\ (p <= k => r.jobs[i].n = r.dels[p].n)
    BY <2>1 DEF Matched
  <2>5. s.jobs[i].n = r.jobs[i].n /\ Len(s.done) + i + lag = p
    BY <1>1, <2>1
  <2> HIDE DEF p
  <2> QED BY <1>4, <2>2, <2>3, <2>4, <2>5
<1> QED BY <1>3, <1>5, <1>6 DEF Matched

LEMMA ClosingLess ==
    ASSUME NEW r, Closing(r), NEW s, LesserJobs(s.jobs, r.jobs), LesserReceipts(s.done, r.done)
    PROVE  Closing(s) /\ (NoPromotion(r) => NoPromotion(s))
<1>1. /\ Len(s.jobs) = Len(r.jobs) /\ Len(s.done) = Len(r.done)
      /\ \A i \in 1 .. Len(r.jobs) : s.jobs[i].k = r.jobs[i].k /\ (Mine(s.jobs[i]) => Mine(r.jobs[i]))
      /\ \A i \in 1 .. Len(r.done) : s.done[i].k = r.done[i].k /\ (Mine(s.done[i]) => Mine(r.done[i]))
  BY DEF LesserJobs, LesserReceipts, LesserJob, LesserReceipt, Mine, OfRound
<1> QED BY <1>1 DEF Closing, NoPromotion

\* Of what a round forgets nothing changes but the tail.
LEMMA SameTail ==
    ASSUME NEW r, Good(r), NEW k, NEW lag \in Nat, Matched(r, k, lag)
    PROVE  LesserTail(r.dels, r.dels, k)
BY Lists DEF LesserTail, Matched

\* What changes neither the deliveries nor the state of the round keeps both in step.
LEMMA FollowsLess ==
    ASSUME NEW r, Good(r), Follows(r), NEW s, s.dels = r.dels,
           LesserJobs(s.jobs, r.jobs), LesserReceipts(s.done, r.done),
           s.ready = r.ready \/ ~s.ready, s.promo = r.promo, s.active = r.active, s.wm = r.wm,
           s.applied = r.applied, s.accepted = r.accepted
    PROVE  Follows(s) /\ (Settled(r) => Settled(s))
<1>1. PICK k \in Nat : Matched(r, k, 0) /\ Streaming(r, k) /\ Importing(r, k)
  BY DEF Follows
<1>2. Matched(s, k, 0)
  BY <1>1, SameTail, MatchedLess
<1>3. Closing(s)
  BY ClosingLess DEF Follows
<1>4. Len(s.jobs) = Len(r.jobs) /\ Len(s.done) = Len(r.done)
  BY DEF LesserJobs, LesserReceipts
<1>5. Streaming(s, k) /\ Importing(s, k)
  BY <1>1, <1>4 DEF Streaming, Importing
<1> QED BY <1>1, <1>2, <1>3, <1>5 DEF Follows, Settled

\* What an operator leaves of the node's own progress.
Beside(s, r) == s.applied = r.applied /\ s.accepted = r.accepted

\* What is withdrawn is cancelled if the writer has it, and forgotten otherwise.
LEMMA WithdrawTail ==
    ASSUME NEW r, Good(r), NEW k, NEW lag \in Nat, Matched(r, k, lag), NEW which
    PROVE  LET s == Withdraw(r, which)
           IN  /\ Matched(s, k, lag) /\ Beside(s, r) /\ s.ready = r.ready /\ s.promo = r.promo
               /\ \A i \in 1 .. k : /\ s.dels[i].n = r.dels[i].n /\ s.dels[i].replay = r.dels[i].replay
                                    /\ s.dels[i].dead <=> r.dels[i].dead \/ r.dels[i] \in which
               /\ \A i \in k + 1 .. Len(s.dels) : \E m \in k + 1 .. Len(r.dels) : r.dels[m] \notin which
               /\ (\A i \in k + 1 .. Len(r.dels) : r.dels[i] \notin which) =>
                     /\ Len(s.dels) = Len(r.dels)
                     /\ \A i \in k + 1 .. Len(r.dels) : s.dels[i] = r.dels[i]
<1> DEFINE S == {d \in Range(r.dels) : d.sub \/ d \notin which}
           kept == Only(r.dels, S)
           dels == [i \in DOMAIN kept |-> [kept[i] EXCEPT !.dead = @ \/ kept[i] \in which]]
           s == Withdraw(r, which)
<1>1. r \in Nodes /\ r.dels \in Seq(Deliveries)
  BY DEF Good, Nodes
<1>2. /\ Len(r.dels) \in Nat /\ DOMAIN r.dels = 1 .. Len(r.dels) /\ k \in 0 .. Len(r.dels) /\ k \in Nat
      /\ \A i \in 1 .. Len(r.dels) : r.dels[i] \in Deliveries /\ (r.dels[i] \in S <=> r.dels[i].sub \/ r.dels[i] \notin which)
  BY <1>1, Lists, LenProperties DEF Matched, Range
<1>3. /\ \A i \in 1 .. k : r.dels[i].sub /\ r.dels[i] \in S
      /\ \A i \in k + 1 .. Len(r.dels) : ~r.dels[i].sub /\ r.dels[i].replay /\ ~r.dels[i].dead
  BY <1>2 DEF Matched
<1>4. s.dels = dels /\ Beside(s, r) /\ s.ready = r.ready /\ s.promo = r.promo
  BY <1>1 DEF Withdraw, Nodes, Beside
<1>5. LesserJobs(s.jobs, r.jobs) /\ LesserReceipts(s.done, r.done)
  BY WithdrawKeeps
<1> HIDE DEF S, s
<1>6. /\ kept \in Seq(Deliveries) /\ Len(kept) \in Nat /\ k <= Len(kept)
      /\ \A i \in 1 .. k : kept[i] = r.dels[i]
      /\ \A i \in k + 1 .. Len(kept) : \E m \in k + 1 .. Len(r.dels) : kept[i] = r.dels[m] /\ r.dels[m] \in S
  BY <1>1, <1>2, <1>3, OnlyFirst
<1>7. (\A i \in k + 1 .. Len(r.dels) : r.dels[i] \notin which) =>
         Len(kept) = Len(r.dels) /\ \A i \in 1 .. Len(r.dels) : kept[i] = r.dels[i]
  <2> SUFFICES ASSUME \A i \in k + 1 .. Len(r.dels) : r.dels[i] \notin which
               PROVE  Len(kept) = Len(r.dels) /\ \A i \in 1 .. Len(r.dels) : kept[i] = r.dels[i]
    OBVIOUS
  <2>1. \A i \in 1 .. Len(r.dels) : i \in 1 .. k \/ i \in k + 1 .. Len(r.dels)
    BY <1>2
  <2>2. \A i \in 1 .. Len(r.dels) : r.dels[i] \in S
    BY <1>2, <1>3, <2>1
  <2> QED BY <1>1, <2>2, OnlyWhole
<1> HIDE DEF kept
<1>8. DOMAIN kept = 1 .. Len(kept) /\ \A i \in 1 .. Len(kept) : kept[i] \in Deliveries
  BY <1>6, LenProperties, ElementOfSeq
<1>9. /\ Len(dels) = Len(kept) /\ Len(dels) \in Nat
      /\ \A i \in 1 .. Len(kept) : dels[i] = [kept[i] EXCEPT !.dead = @ \/ kept[i] \in which]
  <2>1. \A i \in 1 .. Len(kept) : [kept[i] EXCEPT !.dead = @ \/ kept[i] \in which] \in Deliveries
    BY <1>8 DEF Deliveries
  <2>2. dels \in [DOMAIN kept -> Deliveries]
    BY <1>8, <2>1
  <2>3. Len(dels) = Len(kept)
    BY <1>6, <2>2, Maps
  <2> QED BY <1>6, <1>8, <2>3
<1> HIDE DEF dels
<1>10. \A i \in 1 .. Len(kept) : /\ dels[i].n = kept[i].n /\ dels[i].sub = kept[i].sub /\ dels[i].replay = kept[i].replay
                                 /\ dels[i].dead = (kept[i].dead \/ kept[i] \in which)
  BY <1>8, <1>9 DEF Deliveries
<1>11. \A i \in 1 .. k : /\ dels[i].n = r.dels[i].n /\ dels[i].replay = r.dels[i].replay /\ dels[i].sub
                         /\ dels[i].dead = (r.dels[i].dead \/ r.dels[i] \in which)
  <2> TAKE i \in 1 .. k
  <2>1. i \in 1 .. Len(kept) /\ kept[i] = r.dels[i]
    BY <1>2, <1>6
  <2> QED BY <1>3, <1>10, <2>1
<1>12. ASSUME NEW i \in k + 1 .. Len(dels)
       PROVE  /\ ~dels[i].sub /\ dels[i].replay /\ ~dels[i].dead
              /\ \E m \in k + 1 .. Len(r.dels) : r.dels[m] \notin which
  <2>1. i \in k + 1 .. Len(kept) /\ i \in 1 .. Len(kept)
    BY <1>2, <1>9
  <2>2. PICK m \in k + 1 .. Len(r.dels) : kept[i] = r.dels[m] /\ r.dels[m] \in S
    BY <1>6, <2>1
  <2>3. m \in 1 .. Len(r.dels) /\ ~r.dels[m].sub
    BY <1>2, <1>3
  <2>4. r.dels[m] \notin which
    BY <1>2, <2>2, <2>3
  <2> QED BY <1>3, <1>10, <2>1, <2>2, <2>3, <2>4
<1>13. LesserTail(dels, r.dels, k)
  BY <1>6, <1>9, <1>11, <1>12 DEF LesserTail
<1>14. Matched(s, k, lag)
  BY <1>4, <1>5, <1>13, MatchedLess
<1>15. ASSUME \A i \in k + 1 .. Len(r.dels) : r.dels[i] \notin which
       PROVE  Len(dels) = Len(r.dels) /\ \A i \in k + 1 .. Len(r.dels) : dels[i] = r.dels[i]
  <2>1. Len(kept) = Len(r.dels) /\ \A i \in 1 .. Len(r.dels) : kept[i] = r.dels[i]
    BY <1>7, <1>15
  <2>2. ASSUME NEW i \in k + 1 .. Len(r.dels) PROVE dels[i] = r.dels[i]
    <3>1. i \in 1 .. Len(kept) /\ kept[i] = r.dels[i] /\ r.dels[i] \notin which /\ r.dels[i] \in Deliveries
      BY <1>2, <1>15, <2>1
    <3>2. dels[i] = [r.dels[i] EXCEPT !.dead = r.dels[i].dead \/ FALSE]
      BY <1>9, <3>1
    <3> QED BY <3>1, <3>2 DEF Deliveries
  <2> QED BY <1>9, <2>1, <2>2
<1> QED BY <1>4, <1>11, <1>12, <1>14, <1>15 DEF s

LEMMA FreeCloses ==
    ASSUME NEW s, Free(s)
    PROVE  Closing(s) /\ NoPromotion(s)
BY DEF Free, Closing, NoPromotion

\* With no round none of its jobs is left.
LEMMA IdleFree ==
    ASSUME NEW r, Good(r), r.active = 0
    PROVE  Free(r) /\ r.promo = "no" /\ r.inv = {} /\ r.pend = {}
BY DEF Good, Line, Asked, Free, Masks

\* An abort cancels or forgets the replay and leaves the rest of what the writer has.
LEMMA AbortTail ==
    ASSUME NEW r, Good(r), NEW k, NEW lag \in Nat, Matched(r, k, lag), NEW again
    PROVE  LET s == Abort(r, again)
           IN  /\ Matched(s, k, lag) /\ Beside(s, r) /\ s.ready = r.ready /\ s.promo = "no" /\ s.active = 0
               /\ \A i \in 1 .. k : /\ s.dels[i].n = r.dels[i].n /\ s.dels[i].replay = r.dels[i].replay
                                    /\ s.dels[i].dead <=> r.dels[i].dead \/ r.dels[i].replay
               /\ k = Len(r.dels) => Len(s.dels) = k
               /\ Len(s.done) = Len(r.done) /\ Len(s.jobs) = Len(r.jobs)
<1> DEFINE which == {d \in Range(r.dels) : d.replay}
           s == Withdraw(r, which)
           js == Withdrawn(Forsaken(s.jobs))
           ds == Forsaken(s.done)
           t == [s EXCEPT !.jobs = js, !.done = ds]
           u == IF again THEN Retry(t) ELSE [t EXCEPT !.retry = 0, !.armed = FALSE]
           v == Abort(r, again)
<1>0. r.dels \in Seq(Deliveries) /\ Len(r.dels) \in Nat /\ DOMAIN r.dels = 1 .. Len(r.dels) /\ k \in Nat
  BY LenProperties DEF Good, Nodes, Matched
<1>1. Good(s) /\ s \in Nodes
  BY WithdrawGood DEF Good
<1>2. v = Idle(u)
  BY DEF Abort
<1>3. /\ Matched(s, k, lag) /\ Beside(s, r) /\ s.ready = r.ready
      /\ \A i \in 1 .. k : /\ s.dels[i].n = r.dels[i].n /\ s.dels[i].replay = r.dels[i].replay
                           /\ s.dels[i].dead <=> r.dels[i].dead \/ r.dels[i] \in which
      /\ \A i \in k + 1 .. Len(s.dels) : \E m \in k + 1 .. Len(r.dels) : r.dels[m] \notin which
  BY WithdrawTail
<1>4. LesserJobs(s.jobs, r.jobs) /\ LesserReceipts(s.done, r.done)
  BY WithdrawKeeps
<1>5. \A i \in 1 .. Len(r.dels) : r.dels[i] \in which <=> r.dels[i].replay
  BY <1>0 DEF Range
<1>6. \A i \in 1 .. k : i \in 1 .. Len(r.dels)
  BY <1>0 DEF Matched
<1> HIDE DEF s, which, v
<1>7. /\ LesserJobs(js, s.jobs) /\ LesserReceipts(ds, s.done) /\ js \in Seq(Jobs) /\ ds \in Seq(Receipts)
  BY <1>1, Forsakes
<1> HIDE DEF js, ds
<1>8. /\ t.dels = s.dels /\ t.jobs = js /\ t.done = ds /\ Beside(t, s) /\ t.ready = s.ready
      /\ t \in Nodes
  BY <1>1, <1>7 DEF Nodes, Beside
<1> HIDE DEF t
<1>10. /\ u.dels = t.dels /\ u.jobs = t.jobs /\ u.done = t.done /\ Beside(u, t) /\ u.ready = t.ready
       /\ u \in Nodes
  <2>1. 0 \in 0 .. RetryMax /\ (t.retry < RetryMax => t.retry + 1 \in 0 .. RetryMax)
    <3>1. RetryMax \in Nat /\ t.retry \in 0 .. RetryMax
      BY <1>8, SyncAssumption DEF Nodes
    <3> QED BY <3>1
  <2>2. [t EXCEPT !.retry = 0, !.armed = FALSE] \in Nodes
    BY <1>8, <2>1 DEF Nodes
  <2>3. [t EXCEPT !.retry = 0, !.armed = FALSE, !.exhausted = TRUE] \in Nodes
    BY <1>8, <2>1 DEF Nodes
  <2>4. t.retry < RetryMax => [t EXCEPT !.retry = @ + 1, !.armed = TRUE] \in Nodes
    BY <1>8, <2>1 DEF Nodes
  <2>5. u \in Nodes
    BY <2>2, <2>3, <2>4 DEF Retry, RetriesLeft
  <2> QED BY <1>8, <2>5 DEF Retry, Nodes, Beside
<1> HIDE DEF u
<1>11. /\ v.dels = u.dels /\ v.jobs = u.jobs /\ v.done = u.done /\ Beside(v, u) /\ v.ready = u.ready
       /\ v.promo = "no" /\ v.active = 0
  BY <1>2, <1>10 DEF Idle, Nodes, Beside
<1>12. Matched(v, k, lag)
  <2>1. LesserTail(s.dels, s.dels, k)
    BY <1>1, <1>3, SameTail
  <2>2. v.dels = s.dels /\ v.jobs = js /\ v.done = ds
    BY <1>8, <1>10, <1>11
  <2> QED BY <1>1, <1>3, <1>7, <2>1, <2>2, MatchedLess
<1>13. k = Len(r.dels) => Len(v.dels) = k
  <2> SUFFICES ASSUME k = Len(r.dels), Len(v.dels) # k PROVE FALSE
    OBVIOUS
  <2>1. v.dels = s.dels /\ Len(s.dels) \in Nat /\ k <= Len(s.dels)
    BY <1>1, <1>3, <1>8, <1>10, <1>11, Lists DEF Matched
  <2>2. k + 1 \in k + 1 .. Len(s.dels)
    BY <1>0, <2>1
  <2>3. \E m \in k + 1 .. Len(r.dels) : TRUE
    BY <1>3, <2>2
  <2> QED BY <1>0, <2>3
<1>14. Len(v.done) = Len(r.done) /\ Len(v.jobs) = Len(r.jobs)
  BY <1>4, <1>7, <1>8, <1>10, <1>11 DEF LesserJobs, LesserReceipts
<1>15. Beside(v, r) /\ v.ready = r.ready /\ v.dels = s.dels
  BY <1>3, <1>8, <1>10, <1>11 DEF Beside
<1>16. \A i \in 1 .. k : /\ s.dels[i].n = r.dels[i].n /\ s.dels[i].replay = r.dels[i].replay
                         /\ s.dels[i].dead <=> r.dels[i].dead \/ r.dels[i].replay
  BY <1>3, <1>5, <1>6
<1> QED BY <1>11, <1>12, <1>13, <1>14, <1>15, <1>16 DEF v

\* A node without a round, and not READY, promises nothing.
LEMMA StoppedFollows ==
    ASSUME NEW r, Good(r), ~r.ready, r.active = 0, NEW k, Matched(r, k, 0)
    PROVE  Steady(r)
<1>1. Free(r) /\ r.promo = "no"
  BY IdleFree
<1>2. Closing(r)
  BY <1>1, FreeCloses
<1>3. Streaming(r, k) /\ Importing(r, k) /\ k \in Nat
  BY <1>1 DEF Streaming, Importing, Matched
<1> QED BY <1>1, <1>2, <1>3 DEF Steady, Follows, Settled

LEMMA AbortStops ==
    ASSUME NEW r, Good(r), ~r.ready, NEW k, Matched(r, k, 0), NEW again
    PROVE  Steady(Abort(r, again)) /\ Beside(Abort(r, again), r) /\ ~Abort(r, again).ready
<1> DEFINE s == Abort(r, again)
<1>1. Good(s) /\ s.active = 0
  BY AbortGood
<1>2. Matched(s, k, 0) /\ Beside(s, r) /\ s.ready = r.ready
  BY AbortTail
<1> HIDE DEF s
<1>3. Steady(s)
  BY <1>1, <1>2, StoppedFollows
<1> QED BY <1>2, <1>3 DEF s

\* An abort leaves a node that is READY as it is.
LEMMA AbortFollows ==
    ASSUME NEW r, Good(r), Follows(r), NEW again
    PROVE  Steady(Abort(r, again)) /\ Beside(Abort(r, again), r)
<1>1. PICK k \in Nat : Matched(r, k, 0) /\ Streaming(r, k)
  BY DEF Follows
<1>2. CASE ~r.ready
  BY <1>1, <1>2, AbortStops
<1>3. CASE r.ready
  <2> DEFINE s == Abort(r, again)
  <2>1. Good(s) /\ Free(s) /\ s.active = 0
    BY AbortGood
  <2>2. r.active = 0 /\ r.promo = "no"
    BY <1>3, IdleFree DEF Follows
  <2>3. /\ Matched(s, k, 0) /\ Beside(s, r) /\ s.ready = r.ready /\ s.promo = "no"
        /\ \A i \in 1 .. k : /\ s.dels[i].n = r.dels[i].n /\ s.dels[i].replay = r.dels[i].replay
                             /\ s.dels[i].dead <=> r.dels[i].dead \/ r.dels[i].replay
        /\ k = Len(r.dels) => Len(s.dels) = k
        /\ Len(s.done) = Len(r.done) /\ Len(s.jobs) = Len(r.jobs)
    BY <1>1, AbortTail
  <2> HIDE DEF s
  <2>4. /\ k = Len(r.dels) /\ k = Len(r.done) + Len(r.jobs) /\ r.accepted <= r.applied + k
        /\ \A i \in 1 .. k : /\ ~r.dels[i].dead /\ r.dels[i].n = r.applied + i /\ ~r.dels[i].replay
    BY <1>1, <1>3, <2>2 DEF Streaming
  <2>5. s.applied = r.applied /\ s.accepted = r.accepted
    BY <2>3 DEF Beside
  <2>6. Streaming(s, k)
    BY <2>3, <2>4, <2>5 DEF Streaming
  <2>7. Importing(s, k)
    BY <2>1 DEF Importing
  <2>8. Closing(s)
    BY <2>1, FreeCloses
  <2>9. Follows(s) /\ Settled(s)
    BY <1>1, <2>1, <2>3, <2>6, <2>7, <2>8 DEF Follows, Settled
  <2> QED BY <2>3, <2>9 DEF s, Steady
<1> QED BY <1>2, <1>3

LEMMA SameReceipts ==
    ASSUME NEW r, Good(r), NEW s, s.jobs = r.jobs, s.done = r.done
    PROVE  LesserJobs(s.jobs, r.jobs) /\ LesserReceipts(s.done, r.done)
BY Same

LEMMA NoLag == \A a, b \in Nat : a + 0 = a /\ a + b + 0 = a + b /\ a + b \in Nat
OBVIOUS

LEMMA Beyond ==
    \A a, b, k \in Nat : k <= a + b =>
        a + (b + 1) + 0 > k /\ ~ (a + (b + 1) + 0 <= k) /\ k <= a + (b + 1) + 0
OBVIOUS

\* Where a place of the first or of the second of two lists is in both.
LEMMA Places ==
    \A a, b \in Nat :
        /\ \A i \in 1 .. a : i + 0 = i /\ i <= a + b /\ ~ (i > a + b) /\ i \in 1 .. a + b
        /\ \A i \in 1 .. b : /\ a + i + 0 = a + i /\ a + i <= a + b /\ ~ (a + i > a + b)
                              /\ a + i \in 1 .. a + b
OBVIOUS

LEMMA MatchedBounds ==
    ASSUME NEW r, NEW k, NEW lag, Matched(r, k, lag)
    PROVE  k \in Nat /\ k <= Len(r.dels) /\ k <= Len(r.done) + Len(r.jobs) + lag
BY DEF Matched

\* To ask again, or to send anything, disturbs no delivery.
LEMMA GapFollows ==
    ASSUME NEW r, Good(r), Follows(r)
    PROVE  Follows(Gap(r)) /\ Beside(Gap(r), r) /\ (Settled(r) => Settled(Gap(r)))
<1> DEFINE s == Gap(r)
<1>1. r \in Nodes
  BY DEF Good
<1>2. /\ s.dels = r.dels /\ s.jobs = r.jobs /\ s.done = r.done /\ ~s.ready /\ s.promo = r.promo
      /\ s.active = r.active /\ s.wm = r.wm /\ Beside(s, r)
  BY <1>1 DEF Gap, Send, Nodes, Beside
<1> HIDE DEF s
<1>3. LesserJobs(s.jobs, r.jobs) /\ LesserReceipts(s.done, r.done)
  BY <1>2, SameReceipts
<1>4. Follows(s) /\ (Settled(r) => Settled(s))
  BY <1>2, <1>3, FollowsLess DEF Beside
<1> QED BY <1>2, <1>4 DEF s

\* What changes only what a delivery never reads.
LEMMA AsideFollows ==
    ASSUME NEW r, Good(r), Follows(r), NEW s, s.dels = r.dels, s.jobs = r.jobs, s.done = r.done,
           s.ready = r.ready \/ ~s.ready, s.promo = r.promo, s.active = r.active, s.wm = r.wm, Beside(s, r)
    PROVE  Follows(s) /\ (Settled(r) => Settled(s))
<1>1. LesserJobs(s.jobs, r.jobs) /\ LesserReceipts(s.done, r.done)
  BY SameReceipts
<1> QED BY <1>1, FollowsLess DEF Beside

LEMMA SendFollows ==
    ASSUME NEW r, Good(r), Follows(r), NEW f
    PROVE  Follows(Send(r, f)) /\ Beside(Send(r, f), r) /\ (Settled(r) => Settled(Send(r, f)))
<1> DEFINE s == Send(r, f)
<1>1. r \in Nodes
  BY DEF Good
<1>2. /\ s.dels = r.dels /\ s.jobs = r.jobs /\ s.done = r.done /\ s.ready = r.ready /\ s.promo = r.promo
      /\ s.active = r.active /\ s.wm = r.wm /\ Beside(s, r)
  BY <1>1 DEF Send, Nodes, Beside
<1> HIDE DEF s
<1> QED BY <1>2, AsideFollows DEF s

LEMMA RevokeTail ==
    ASSUME NEW r, Good(r), NEW k, Matched(r, k, 0)
    PROVE  Matched(Revoke(r), k, 0) /\ Beside(Revoke(r), r) /\ Revoke(r).ready = r.ready
<1> DEFINE v == Revoke(r)
<1>1. v.dels = r.dels /\ v.done = r.done /\ LesserJobs(v.jobs, r.jobs)
  BY RevokeGood
<1>2. v.applied = r.applied /\ v.accepted = r.accepted /\ v.ready = r.ready
  BY DEF Revoke, Good, Nodes
<1> HIDE DEF v
<1>3. LesserTail(v.dels, r.dels, k)
  BY <1>1, SameTail
<1>4. LesserReceipts(v.done, r.done)
  BY <1>1, Same
<1>5. Matched(v, k, 0)
  BY <1>1, <1>3, <1>4, MatchedLess
<1> QED BY <1>2, <1>5 DEF v, Beside

\* When another server is selected all is cancelled or forgotten.
LEMMA ReselectFollows ==
    ASSUME NEW r, Good(r), Follows(r)
    PROVE  Steady(Reselect(r)) /\ Beside(Reselect(r), r)
<1> DEFINE v == Revoke(r)
           w == Withdraw(v, Range(r.dels))
           x == AbortActive(w)
<1>1. PICK k \in Nat : Matched(r, k, 0)
  BY DEF Follows
<1>2. Good(v) /\ Matched(v, k, 0) /\ Beside(v, r) /\ v.active = r.active
  BY <1>1, RevokeGood, RevokeTail
<1> HIDE DEF v
<1>3. Good(w) /\ Matched(w, k, 0) /\ Beside(w, v)
  BY <1>2, WithdrawGood, WithdrawTail
<1> HIDE DEF w
<1>4. Good(x) /\ x.active = 0
  BY <1>3, AbortActiveGood
<1>5. Matched(x, k, 0) /\ Beside(x, w)
  BY <1>3, AbortTail DEF AbortActive, Beside
<1>6. Reselect(r) = [x EXCEPT !.ready = FALSE]
  BY DEF Reselect, v, w
<1> HIDE DEF x
<1> DEFINE y == [x EXCEPT !.ready = FALSE]
<1>7. /\ y.dels = x.dels /\ y.jobs = x.jobs /\ y.done = x.done /\ ~y.ready /\ y.active = 0 /\ Beside(y, x)
  BY <1>4 DEF Good, Nodes, Beside
<1>8. Good(y)
  BY <1>4, Notes
<1> HIDE DEF y
<1>9. Matched(y, k, 0)
  <2>1. LesserJobs(y.jobs, x.jobs) /\ LesserReceipts(y.done, x.done)
    BY <1>4, <1>7, SameReceipts
  <2>2. LesserTail(y.dels, x.dels, k)
    BY <1>4, <1>5, <1>7, SameTail
  <2> QED BY <1>4, <1>5, <2>1, <2>2, MatchedLess
<1>10. Steady(y)
  BY <1>7, <1>8, <1>9, StoppedFollows
<1>11. Beside(y, r)
  BY <1>2, <1>3, <1>5, <1>7 DEF Beside
<1> QED BY <1>6, <1>10, <1>11 DEF y

\* A round begins with the provisional tail of before; what the writer has is cancelled.
LEMMA BeginTail ==
    ASSUME NEW r, Good(r), r.active = 0, NEW k, Matched(r, k, 0), NEW id \in Nat, NEW w \in 0 .. MaxSeq
    PROVE  LET s == [Begin(r, id) EXCEPT !.wm = w]
           IN  /\ Matched(s, k, 0) /\ Beside(s, r) /\ ~s.ready /\ NoPromotion(s)
               /\ s.active = id /\ s.wm = w /\ s.promo = "no" /\ s.inv = {}
               /\ \A i \in 1 .. k : s.dels[i].dead
<1> DEFINE v == Revoke(r)
           which == {d \in Range(r.dels) : d.sub \/ ~d.replay}
           x == Withdraw(v, which)
           s == [Begin(r, id) EXCEPT !.wm = w]
<1>1. Free(r)
  BY IdleFree
<1>2. Good(v) /\ Free(v) /\ Matched(v, k, 0) /\ Beside(v, r) /\ v.dels = r.dels
  BY <1>1, RevokeGood, RevokeTail
<1>3. x = Withdraw(v, {d \in Range(r.dels) : d.sub \/ ~d.replay})
  OBVIOUS
<1>4. s = [[Idle(x) EXCEPT !.active = id, !.ready = FALSE, !.armed = FALSE] EXCEPT !.wm = w]
  BY <1>3 DEF Begin
<1> HIDE DEF v
<1>5. Good(x) /\ Free(x) /\ x \in Nodes
  BY <1>2, WithdrawGood DEF Good
<1>6. /\ Matched(x, k, 0) /\ Beside(x, v)
      /\ \A i \in 1 .. k : x.dels[i].dead <=> v.dels[i].dead \/ v.dels[i] \in which
  BY <1>2, WithdrawTail
<1>7. \A i \in 1 .. k : v.dels[i] \in which
  <2>1. r.dels \in Seq(Deliveries) /\ Len(r.dels) \in Nat /\ DOMAIN r.dels = 1 .. Len(r.dels)
    BY LenProperties DEF Good, Nodes
  <2>2. \A i \in 1 .. k : i \in 1 .. Len(r.dels) /\ r.dels[i].sub
    BY <2>1 DEF Matched
  <2> QED BY <1>2, <2>1, <2>2 DEF Range
<1> HIDE DEF x, which
<1>8. /\ s.dels = x.dels /\ s.jobs = x.jobs /\ s.done = x.done /\ Beside(s, x) /\ ~s.ready
      /\ s.active = id /\ s.wm = w /\ s.promo = "no" /\ s.inv = {}
  BY <1>4, <1>5 DEF Idle, Nodes, Beside
<1> HIDE DEF s
<1>9. Matched(s, k, 0)
  <2>1. LesserJobs(s.jobs, x.jobs) /\ LesserReceipts(s.done, x.done)
    BY <1>5, <1>8, SameReceipts
  <2>2. LesserTail(s.dels, x.dels, k)
    BY <1>5, <1>6, <1>8, SameTail
  <2> QED BY <1>5, <1>6, <2>1, <2>2, MatchedLess
<1>10. NoPromotion(s)
  BY <1>5, <1>8 DEF Free, NoPromotion
<1>11. Beside(s, r) /\ \A i \in 1 .. k : s.dels[i].dead
  BY <1>2, <1>6, <1>7, <1>8 DEF Beside
<1> QED BY <1>8, <1>9, <1>10, <1>11 DEF s

\* There is a promotion of the round only while it is asked for.
LEMMA Unpromised ==
    ASSUME NEW r, Good(r), r.promo # "asked"
    PROVE  NoPromotion(r) /\ Closing(r)
<1>1. \A j : Mine(j) /\ j.k = "PROMOTE" => ~Asked(r, j)
  BY DEF Asked
<1>2. NoPromotion(r)
  BY <1>1 DEF Good, Line, NoPromotion
<1> QED BY <1>2 DEF NoPromotion, Closing

\* What the snapshot covers is dropped from the tail only.
LEMMA BindTail ==
    ASSUME NEW r, Good(r), NEW k, Matched(r, k, 0)
    PROVE  LET s == Bind(r)
           IN  /\ Matched(s, k, 0) /\ Beside(s, r) /\ s.ready = r.ready
               /\ \A i \in 1 .. k : s.dels[i] = r.dels[i]
<1> DEFINE S == {d \in Range(r.dels) : ~(d.replay /\ ~d.dead /\ ~d.sub /\ d.n <= r.wm)}
           kept == Only(r.dels, S)
           s == Bind(r)
<1>1. r \in Nodes /\ r.dels \in Seq(Deliveries)
  BY DEF Good, Nodes
<1>2. /\ Len(r.dels) \in Nat /\ DOMAIN r.dels = 1 .. Len(r.dels) /\ k \in 0 .. Len(r.dels) /\ k \in Nat
      /\ \A i \in 1 .. k : r.dels[i].sub
      /\ \A i \in k + 1 .. Len(r.dels) : ~r.dels[i].sub /\ r.dels[i].replay /\ ~r.dels[i].dead
  BY <1>1, Lists, LenProperties DEF Matched
<1>3. \A i \in 1 .. k : r.dels[i] \in S /\ r.dels[i].sub
  BY <1>2 DEF Range
<1>4. s = [r EXCEPT !.dels = kept]
  BY DEF Bind
<1> HIDE DEF S
<1>5. /\ kept \in Seq(Deliveries) /\ Len(kept) \in Nat /\ k <= Len(kept)
      /\ \A i \in 1 .. k : kept[i] = r.dels[i]
      /\ \A i \in k + 1 .. Len(kept) : \E m \in k + 1 .. Len(r.dels) : kept[i] = r.dels[m] /\ r.dels[m] \in S
  BY <1>1, <1>2, <1>3, OnlyFirst
<1> HIDE DEF kept
<1>6. /\ s.dels = kept /\ s.jobs = r.jobs /\ s.done = r.done /\ Beside(s, r) /\ s.ready = r.ready
  BY <1>1, <1>4 DEF Nodes, Beside
<1> HIDE DEF s
<1>7. ASSUME NEW i \in k + 1 .. Len(kept) PROVE ~kept[i].sub /\ kept[i].replay /\ ~kept[i].dead
  BY <1>2, <1>5
<1>8. LesserTail(s.dels, r.dels, k)
  BY <1>3, <1>5, <1>6, <1>7 DEF LesserTail
<1>9. LesserJobs(s.jobs, r.jobs) /\ LesserReceipts(s.done, r.done)
  BY <1>6, SameReceipts
<1>10. Matched(s, k, 0)
  BY <1>8, <1>9, MatchedLess
<1> QED BY <1>5, <1>6, <1>10 DEF s

\* A tail that is bound to the round follows its snapshot.
LEMMA BoundFollows ==
    ASSUME NEW r, Good(r), NEW k, Matched(r, k, 0), \A i \in 1 .. k : r.dels[i].dead,
           Bound(r), r.accepted <= r.wm, ~r.ready, r.promo = "no"
    PROVE  Steady(r)
<1> DEFINE S == {d \in Range(r.dels) : ~d.dead /\ d.replay = TRUE}
<1>1. r.dels \in Seq(Deliveries)
  BY DEF Good, Nodes
<1>2. /\ Len(r.dels) \in Nat /\ DOMAIN r.dels = 1 .. Len(r.dels) /\ k \in 0 .. Len(r.dels) /\ k \in Nat
      /\ \A i \in 1 .. k : r.dels[i].sub
      /\ \A i \in k + 1 .. Len(r.dels) : ~r.dels[i].sub /\ r.dels[i].replay /\ ~r.dels[i].dead
      /\ \A i \in 1 .. Len(r.dels) : r.dels[i] \in Deliveries
  BY <1>1, Lists, LenProperties DEF Matched
<1>3. \A i \in 1 .. k : r.dels[i] \notin S
  OBVIOUS
<1>4. \A i \in k + 1 .. Len(r.dels) : r.dels[i] \in S
  <2> TAKE i \in k + 1 .. Len(r.dels)
  <2>1. i \in 1 .. Len(r.dels) /\ r.dels[i] \in Range(r.dels)
    BY <1>2 DEF Range
  <2>2. r.dels[i].replay = TRUE
    BY <1>2, <2>1 DEF Deliveries
  <2> QED BY <1>2, <2>1, <2>2
<1>5. Waiting(r, TRUE) = Only(r.dels, S)
  BY DEF Waiting
<1> HIDE DEF S
<1>6. /\ Only(r.dels, S) \in Seq(Deliveries) /\ Len(Only(r.dels, S)) = Len(r.dels) - k
      /\ \A i \in 1 .. Len(r.dels) - k : Only(r.dels, S)[i] = r.dels[k + i]
  <2> DEFINE q == r.dels
  <2>1. q \in Seq(Deliveries) /\ Splits(q, S, k)
    BY <1>1, <1>2, <1>3, <1>4 DEF Splits
  <2> HIDE DEF q
  <2>2. /\ Only(q, S) \in Seq(Deliveries) /\ Len(Only(q, S)) = Len(q) - k
        /\ \A i \in 1 .. Len(q) - k : Only(q, S)[i] = q[k + i]
    BY <2>1, OnlyLast
  <2> QED BY <2>2 DEF q
<1> DEFINE tail == Waiting(r, TRUE)
<1>7. /\ DOMAIN tail = 1 .. Len(r.dels) - k
      /\ \A i \in 1 .. Len(r.dels) - k : tail[i] = r.dels[k + i]
      /\ \A i \in DOMAIN tail : tail[i].n = r.wm + i
  BY <1>5, <1>6, LenProperties DEF Bound
<1> HIDE DEF tail
<1>8. ASSUME NEW i \in k + 1 .. Len(r.dels) PROVE r.dels[i].n = r.wm + (i - k)
  <2>1. i - k \in 1 .. Len(r.dels) - k /\ k + (i - k) = i
    BY <1>2
  <2> QED BY <1>7, <2>1
<1>9. r.accepted <= r.wm + (Len(r.dels) - k)
  BY <1>2, Lists DEF Matched
<1>10. Importing(r, k)
  BY <1>8, <1>9 DEF Importing
<1>11. Streaming(r, k)
  BY DEF Streaming
<1>12. Closing(r)
  BY Unpromised
<1> QED BY <1>2, <1>10, <1>11, <1>12 DEF Steady, Follows, Settled

\* s is r with one more job of the round.
OneMore(s, r, j) ==
    /\ j \in Jobs /\ OfRound(j) /\ s.jobs = Append(r.jobs, j) /\ s.done = r.done /\ s.dels = r.dels
    /\ s.ready = r.ready /\ s.active = r.active /\ s.wm = r.wm /\ s.promo \in {"no", "asked"} /\ Beside(s, r)

\* A job of the round stands after all that came before.
LEMMA StageFollows ==
    ASSUME NEW r, Good(r), Follows(r), r.active # 0, r.promo = "no",
           NEW j, NEW s, OneMore(s, r, j)
    PROVE  Steady(s)
<1>1. PICK k \in Nat : Matched(r, k, 0) /\ Importing(r, k)
  BY DEF Follows
<1>2. /\ Len(r.dels) \in Nat /\ Len(r.done) \in Nat /\ Len(r.jobs) \in Nat
  BY Lists
<1>12. r.jobs \in Seq(Jobs)
  BY DEF Good, Nodes
<1>10. k \in Nat /\ k <= Len(r.dels) /\ k <= Len(r.done) + Len(r.jobs)
  <2>1. k \in Nat /\ k <= Len(r.dels) /\ k <= Len(r.done) + Len(r.jobs) + 0
    BY <1>1, MatchedBounds
  <2> QED BY <1>2, <2>1, NoLag
<1>3. /\ Len(s.jobs) = Len(r.jobs) + 1 /\ s.jobs[Len(r.jobs) + 1] = j
      /\ \A i \in 1 .. Len(r.jobs) : s.jobs[i] = r.jobs[i]
  BY <1>2, <1>12, AppendProperties DEF OneMore
<1>11. s.done = r.done /\ s.dels = r.dels /\ s.active = r.active /\ s.wm = r.wm /\ Beside(s, r) /\ OfRound(j)
       /\ s.promo # "done"
  BY DEF OneMore
<1>4. ~r.ready /\ ~s.ready
  BY DEF Follows, OneMore
<1>5. Streaming(s, k)
  BY <1>4, <1>11 DEF Streaming
<1>6. Importing(s, k)
  BY <1>1, <1>11 DEF Importing, Beside
<1>7. NoPromotion(r)
  BY Unpromised
<1>8. Closing(s)
  <2>1. ASSUME NEW i \in 1 .. Len(s.done), Mine(s.done[i]), s.done[i].k = "PROMOTE" PROVE FALSE
    BY <1>7, <1>11, <2>1 DEF NoPromotion
  <2>2. ASSUME NEW i \in 1 .. Len(s.jobs), Mine(s.jobs[i]), s.jobs[i].k = "PROMOTE" PROVE i = Len(s.jobs)
    <3> SUFFICES ASSUME i # Len(s.jobs) PROVE FALSE
      OBVIOUS
    <3>1. i \in 1 .. Len(r.jobs) /\ s.jobs[i] = r.jobs[i]
      BY <1>2, <1>3
    <3> QED BY <1>7, <2>2, <3>1 DEF NoPromotion
  <2> QED BY <2>1, <2>2 DEF Closing
<1>9. Matched(s, k, 0)
  <2>1. ASSUME NEW i \in 1 .. Len(s.jobs)
        PROVE  /\ OfRound(s.jobs[i]) <=> Len(s.done) + i + 0 > k
               /\ Len(s.done) + i + 0 <= k => s.jobs[i].n = s.dels[Len(s.done) + i + 0].n
    <3>1. CASE i = Len(r.jobs) + 1
      <4>1. Len(s.done) + i + 0 > k /\ ~ (Len(s.done) + i + 0 <= k)
        BY <1>2, <1>10, <1>11, <3>1, Beyond
      <4> QED BY <1>3, <1>11, <3>1, <4>1
    <3>2. CASE i # Len(r.jobs) + 1
      <4>1. i \in 1 .. Len(r.jobs) /\ s.jobs[i] = r.jobs[i]
        BY <1>2, <1>3, <3>2
      <4> QED BY <1>1, <1>11, <4>1 DEF Matched
    <3> QED BY <3>1, <3>2
  <2>2. k \in Nat /\ k <= Len(s.dels) /\ k <= Len(s.done) + Len(s.jobs) + 0
    BY <1>2, <1>3, <1>10, <1>11, Beyond
  <2>3. /\ \A i \in 1 .. k : s.dels[i].sub
        /\ \A i \in k + 1 .. Len(s.dels) : ~s.dels[i].sub /\ s.dels[i].replay /\ ~s.dels[i].dead
        /\ \A i \in 1 .. Len(s.done) :
              /\ OfRound(s.done[i]) <=> i + 0 > k
              /\ i + 0 <= k => s.done[i].n = s.dels[i + 0].n
    BY <1>1, <1>11 DEF Matched
  <2> QED BY <2>1, <2>2, <2>3 DEF Matched
<1> QED BY <1>1, <1>4, <1>5, <1>6, <1>8, <1>9, <1>11 DEF Steady, Follows, Settled

LEMMA CheckFollows ==
    ASSUME NEW r, Good(r), Follows(r)
    PROVE  Follows(Check(r)) /\ Beside(Check(r), r) /\ (Settled(r) => Settled(Check(r)))
<1> SUFFICES ASSUME Full(r.inv), Full(r.durable), r.promo = "no", r.pend = {}, r.active # 0
             PROVE  Steady(Check(r)) /\ Beside(Check(r), r)
  BY DEF Check, Beside, Steady
<1> DEFINE j == StageJob(r, "PROMOTE", FirstOf(Blocks))
           x == Submit(r, j)
           s == [x EXCEPT !.promo = "asked"]
<1>1. FirstOf(Blocks) \in Blocks /\ r \in Nodes
  BY First, SyncAssumption DEF Good
<1>2. j \in Jobs /\ OfRound(j)
  BY <1>1, StageJobs
<1>3. Check(r) = s
  BY DEF Check
<1> HIDE DEF j
<1>4. /\ s.jobs = Append(r.jobs, j) /\ s.done = r.done /\ s.dels = r.dels /\ s.ready = r.ready
      /\ s.active = r.active /\ s.wm = r.wm /\ s.promo = "asked" /\ Beside(s, r)
  BY <1>1 DEF Submit, Nodes, Beside
<1> HIDE DEF s
<1>5. Steady(s)
  BY <1>2, <1>4, StageFollows DEF OneMore
<1> QED BY <1>3, <1>4, <1>5

LEMMA CompareFollows ==
    ASSUME NEW r, Good(r), Follows(r), NEW f, Told(f), f.w = r.wm, r.active # 0, f.b \notin r.inv
    PROVE  Steady(Compare(r, f)) /\ Beside(Compare(r, f), r)
<1> DEFINE s == Noted(r, f)
           j == StageJob(s, "REUSE", f.b)
           u == Submit(s, j)
           t == [s EXCEPT !.pend = @ \cup {f.b}]
           g == [m |-> "RES", id |-> f.id, b |-> f.b]
<1>1. /\ Good(s) /\ s \in Nodes /\ s.inv = r.inv \cup {f.b} /\ s.promo = "no" /\ r.promo = "no"
      /\ s.active = r.active /\ s.wm = r.wm /\ s.dels = r.dels /\ s.jobs = r.jobs /\ s.done = r.done
      /\ s.ready = r.ready /\ s.applied = r.applied /\ s.accepted = r.accepted /\ f.b \in Blocks
  BY NotedGood
<1>2. Compare(r, f) = IF s.root.blocks[f.b] = f.d THEN Check(u) ELSE Send(t, g)
  BY DEF Compare, Noted
<1> HIDE DEF s
<1>3. Follows(s) /\ Settled(s)
  BY <1>1, AsideFollows DEF Beside, Settled
<1>4. Good(u) /\ j \in Jobs /\ OfRound(j)
  BY <1>1, SubmitStage, StageJobs
<1> HIDE DEF j
<1>5. Steady(u) /\ Beside(u, s)
  <2>1. /\ u.jobs = Append(s.jobs, j) /\ u.done = s.done /\ u.dels = s.dels /\ u.ready = s.ready
        /\ u.active = s.active /\ u.wm = s.wm /\ u.promo = "no" /\ Beside(u, s)
    BY <1>1 DEF Submit, Nodes, Beside
  <2> HIDE DEF u
  <2> QED BY <1>1, <1>3, <1>4, <2>1, StageFollows DEF OneMore
<1> HIDE DEF u
<1>6. Steady(Check(u)) /\ Beside(Check(u), u)
  BY <1>4, <1>5, CheckFollows DEF Steady
<1> DEFINE y == Send(t, g)
<1>7. /\ y.jobs = s.jobs /\ y.done = s.done /\ y.dels = s.dels /\ y.ready = s.ready
      /\ y.active = s.active /\ y.wm = s.wm /\ y.promo = s.promo /\ Beside(y, s)
  BY <1>1 DEF Send, Nodes, Beside
<1> HIDE DEF y
<1>8. Steady(y)
  BY <1>1, <1>3, <1>7, AsideFollows DEF Steady
<1>9. Beside(y, r) /\ Beside(Check(u), r)
  BY <1>1, <1>5, <1>6, <1>7 DEF Beside
<1> QED BY <1>2, <1>6, <1>8, <1>9 DEF y

LEMMA HearInfFollows ==
    ASSUME NEW r, Good(r), Follows(r), NEW f, Told(f), r.accepted <= f.w
    PROVE  Steady(HearInf(r, f)) /\ Beside(HearInf(r, f), r)
<1> DEFINE begins == r.active # f.id
           over == IF begins /\ r.active # 0 THEN Abort(r, FALSE) ELSE r
           s == IF begins THEN [Begin(over, f.id) EXCEPT !.wm = f.w] ELSE r
           t == Bind(s)
<1>1. HearInf(r, f) = IF r.active # 0 /\ f.id < r.active THEN Abort(r, TRUE)
                      ELSE IF s.wm # f.w THEN Abort(Abort(s, TRUE), TRUE)
                      ELSE IF ~Bound(t) \/ f.b \in s.inv THEN Abort(t, TRUE)
                      ELSE Compare(t, f)
  BY DEF HearInf
<1>2. f.id \in Nat /\ f.id # 0 /\ f.b \in Blocks /\ f.w \in 0 .. MaxSeq
  BY DEF Told
<1>3. /\ Good(s) /\ ~s.ready /\ s.active # 0 /\ Beside(s, r)
      /\ \E k \in Nat : Matched(s, k, 0) /\ (s.promo # "done" => \A i \in 1 .. k : s.dels[i].dead)
  <2>1. CASE begins
    <3>1. Good(over) /\ Follows(over) /\ over.active = 0 /\ Beside(over, r)
      BY <2>1, AbortGood, AbortFollows DEF Steady, Beside
    <3>2. PICK k \in Nat : Matched(over, k, 0)
      BY <3>1 DEF Follows
    <3> DEFINE x == [Begin(over, f.id) EXCEPT !.wm = f.w]
    <3> HIDE DEF over
    <3>3. Free(over)
      BY <3>1, IdleFree
    <3>4. Good(x) /\ x.active = f.id
      BY <1>2, <3>1, <3>3, BeginGood
    <3>5. Matched(x, k, 0) /\ Beside(x, over) /\ ~x.ready /\ \A i \in 1 .. k : x.dels[i].dead
      BY <1>2, <3>1, <3>2, BeginTail
    <3>6. s = x
      BY <2>1
    <3> HIDE DEF x, s
    <3>7. Beside(s, r)
      BY <3>1, <3>5, <3>6 DEF Beside
    <3> QED BY <1>2, <3>2, <3>4, <3>5, <3>6, <3>7
  <2>2. CASE ~begins
    <3>1. s = r /\ r.active = f.id
      BY <2>2
    <3>2. PICK k \in Nat : Matched(r, k, 0) /\ Importing(r, k)
      BY DEF Follows
    <3>3. ~r.ready /\ r.active # 0
      BY <1>2, <3>1 DEF Follows
    <3>4. r.promo # "done" => \A i \in 1 .. k : r.dels[i].dead
      BY <3>2, <3>3 DEF Importing
    <3> HIDE DEF s
    <3> QED BY <3>1, <3>2, <3>3, <3>4 DEF Beside
  <2> QED BY <2>1, <2>2
<1> HIDE DEF begins, over, s
<1>4. PICK k \in Nat : Matched(s, k, 0) /\ (s.promo # "done" => \A i \in 1 .. k : s.dels[i].dead)
  BY <1>3
<1>5. Steady(Abort(Abort(s, TRUE), TRUE)) /\ Beside(Abort(Abort(s, TRUE), TRUE), r)
  <2> DEFINE x == Abort(s, TRUE)
             y == Abort(x, TRUE)
  <2>1. Good(x) /\ Steady(x) /\ Beside(x, s)
    BY <1>3, <1>4, AbortGood, AbortStops
  <2> HIDE DEF x
  <2>2. Steady(y) /\ Beside(y, x)
    BY <2>1, AbortFollows DEF Steady
  <2> HIDE DEF y
  <2>3. Beside(y, r)
    BY <1>3, <2>1, <2>2 DEF Beside
  <2> QED BY <2>2, <2>3 DEF x, y
<1>6. /\ Good(t) /\ SameRound(t, s) /\ Matched(t, k, 0) /\ Beside(t, s) /\ t.ready = s.ready
      /\ \A i \in 1 .. k : t.dels[i] = s.dels[i]
  BY <1>3, <1>4, BindGood, BindTail
<1> HIDE DEF t
<1>7. Steady(Abort(t, TRUE)) /\ Beside(Abort(t, TRUE), r)
  <2> DEFINE x == Abort(t, TRUE)
  <2>1. Steady(x) /\ Beside(x, t)
    BY <1>3, <1>6, AbortStops
  <2> HIDE DEF x
  <2>2. Beside(x, r)
    BY <1>3, <1>6, <2>1 DEF Beside
  <2> QED BY <2>1, <2>2 DEF x
<1>8. ASSUME s.wm = f.w, Bound(t), f.b \notin s.inv
      PROVE  Steady(Compare(t, f)) /\ Beside(Compare(t, f), r)
  <2>1. t.wm = f.w /\ f.b \notin t.inv /\ t.active # 0 /\ t.promo = s.promo
    BY <1>3, <1>6, <1>8 DEF SameRound
  <2>2. t.promo = "no"
    BY <1>2, <1>6, <2>1 DEF Good, Masks
  <2>3. /\ \A i \in 1 .. k : t.dels[i].dead
        /\ t.accepted <= t.wm /\ ~t.ready
    BY <1>3, <1>4, <1>6, <2>1, <2>2 DEF Beside
  <2>4. Steady(t)
    BY <1>6, <1>8, <2>2, <2>3, BoundFollows
  <2> DEFINE x == Compare(t, f)
  <2>5. Steady(x) /\ Beside(x, t)
    BY <1>6, <2>1, <2>4, CompareFollows DEF Steady
  <2> HIDE DEF x
  <2>6. Beside(x, r)
    BY <1>3, <1>6, <2>5 DEF Beside
  <2> QED BY <2>5, <2>6 DEF x
<1>9. CASE r.active # 0 /\ f.id < r.active
  BY <1>1, <1>9, AbortFollows
<1>10. CASE ~ (r.active # 0 /\ f.id < r.active)
  BY <1>1, <1>5, <1>7, <1>8, <1>10
<1> QED BY <1>9, <1>10

LEMMA HearSnapFollows ==
    ASSUME NEW r, Good(r), Steady(r), NEW f
    PROVE  Steady(HearSnap(r, f)) /\ Beside(HearSnap(r, f), r)
<1> SUFFICES ASSUME f.b \in r.pend PROVE Steady(Submit(r, StageJob(r, "END", f.b))) /\ Beside(Submit(r, StageJob(r, "END", f.b)), r)
  BY DEF HearSnap, Beside
<1> DEFINE j == StageJob(r, "END", f.b)
           s == Submit(r, j)
<1>1. r.promo = "no" /\ f.b \in r.inv /\ r.active # 0 /\ r \in Nodes
  BY DEF Good, Masks
<1>2. f.b \in Blocks
  BY <1>1 DEF Nodes
<1>3. j \in Jobs /\ OfRound(j)
  BY <1>1, <1>2, StageJobs
<1> HIDE DEF j
<1>4. OneMore(s, r, j) /\ Beside(s, r)
  BY <1>1, <1>3 DEF OneMore, Submit, Nodes, Beside
<1>5. Steady(s)
  BY <1>1, <1>4, StageFollows DEF Steady
<1> QED BY <1>4, <1>5 DEF j

LEMMA HearManifestAckFollows ==
    ASSUME NEW r, Good(r), Steady(r), NEW f, Told(f)
    PROVE  Steady(HearManifestAck(r, f)) /\ Beside(HearManifestAck(r, f), r)
<1>1. r \in Nodes
  BY DEF Good
<1>2. ASSUME NEW c PROVE Steady([r EXCEPT !.ae = c]) /\ Beside([r EXCEPT !.ae = c], r)
  <2> DEFINE s == [r EXCEPT !.ae = c]
  <2>1. /\ s.dels = r.dels /\ s.jobs = r.jobs /\ s.done = r.done /\ s.ready = r.ready /\ s.promo = r.promo
        /\ s.active = r.active /\ s.wm = r.wm /\ Beside(s, r)
    BY <1>1 DEF Nodes, Beside
  <2> HIDE DEF s
  <2>2. Steady(s)
    BY <2>1, AsideFollows DEF Steady
  <2> QED BY <2>1, <2>2 DEF s
<1>3. Steady(Abort([r EXCEPT !.ae = Calm], TRUE)) /\ Beside(Abort([r EXCEPT !.ae = Calm], TRUE), r)
  <2> DEFINE s == [r EXCEPT !.ae = Calm]
             x == Abort(s, TRUE)
  <2>1. Calm \in Contacts
    BY Stream DEF Calm, Contacts
  <2>2. Good(s) /\ Steady(s) /\ Beside(s, r)
    BY <1>2, <2>1, Notes
  <2> HIDE DEF s
  <2>3. Steady(x) /\ Beside(x, s)
    BY <2>2, AbortFollows DEF Steady
  <2> HIDE DEF x
  <2>4. Beside(x, r)
    BY <2>2, <2>3 DEF Beside
  <2> QED BY <2>3, <2>4 DEF x, s
<1> DEFINE c == IF Full(r.ae.acked \cup {f.b}) THEN Calm
                ELSE [pending |-> TRUE, acked |-> r.ae.acked \cup {f.b}, wm |-> f.w]
<1>4. \/ HearManifestAck(r, f) = r
      \/ HearManifestAck(r, f) = Abort([r EXCEPT !.ae = Calm], TRUE)
      \/ HearManifestAck(r, f) = [r EXCEPT !.ae = c]
  BY DEF HearManifestAck
<1>5. Beside(r, r)
  BY DEF Beside
<1> HIDE DEF c
<1> QED BY <1>2, <1>3, <1>4, <1>5

\* After the promotion: all the deliveries follow what is applied, and the writer has the
\* first k of them and nothing else.
Ripe(r, k) ==
    /\ Matched(r, k, 0) /\ k = Len(r.done) + Len(r.jobs) /\ r.accepted <= r.applied + Len(r.dels)
    /\ \A i \in 1 .. Len(r.dels) : ~r.dels[i].dead /\ r.dels[i].replay /\ r.dels[i].n = r.applied + i

\* What the writer has not is submitted, in its order.
LEMMA ReplayTail ==
    ASSUME NEW r, Good(r), NEW k, Ripe(r, k)
    PROVE  LET s == Replay(r)
           IN  /\ Len(s.dels) = Len(r.dels) /\ s.done = r.done
               /\ \A i \in 1 .. Len(r.dels) : /\ s.dels[i].sub /\ s.dels[i].n = r.dels[i].n
                                              /\ s.dels[i].replay /\ ~s.dels[i].dead
               /\ Len(s.jobs) = Len(r.jobs) + (Len(r.dels) - k)
               /\ \A i \in 1 .. Len(r.jobs) : s.jobs[i] = r.jobs[i]
               /\ \A m \in 1 .. Len(r.dels) - k :
                     s.jobs[Len(r.jobs) + m].k = "MUTATION" /\ s.jobs[Len(r.jobs) + m].n = r.dels[k + m].n
               /\ Beside(s, r) /\ s.ready = r.ready
<1> DEFINE S == {d \in Range(r.dels) : d.replay /\ ~d.sub /\ ~d.dead}
           fresh == Only(r.dels, S)
           x == [i \in DOMAIN fresh |-> MutationJob(fresh[i].n)]
           y == [i \in DOMAIN r.dels |-> IF r.dels[i].replay THEN [r.dels[i] EXCEPT !.sub = TRUE] ELSE r.dels[i]]
           s == Replay(r)
<1>1. r \in Nodes /\ r.dels \in Seq(Deliveries) /\ r.jobs \in Seq(Jobs)
  BY DEF Good, Nodes
<1>2. /\ Len(r.dels) \in Nat /\ DOMAIN r.dels = 1 .. Len(r.dels) /\ k \in 0 .. Len(r.dels) /\ k \in Nat
      /\ Len(r.jobs) \in Nat
      /\ \A i \in 1 .. Len(r.dels) : r.dels[i] \in Deliveries
  <2>1. k \in Nat /\ k <= Len(r.dels)
    BY MatchedBounds DEF Ripe
  <2>2. Len(r.dels) \in Nat /\ Len(r.jobs) \in Nat /\ \A i \in 1 .. Len(r.dels) : r.dels[i] \in Deliveries
    BY Lists
  <2>3. k \in 0 .. Len(r.dels)
    BY <2>1, <2>2
  <2> QED BY <1>1, <2>1, <2>2, <2>3, LenProperties
<1>3. /\ \A i \in 1 .. k : r.dels[i].sub
      /\ \A i \in k + 1 .. Len(r.dels) : ~r.dels[i].sub
      /\ \A i \in 1 .. Len(r.dels) : ~r.dels[i].dead /\ r.dels[i].replay
  BY DEF Ripe, Matched
<1>4. s = [r EXCEPT !.jobs = r.jobs \o x, !.dels = y]
  BY DEF Replay
<1>5. \A i \in 1 .. k : r.dels[i] \notin S
  BY <1>3
<1>6. \A i \in k + 1 .. Len(r.dels) : r.dels[i] \in S
  <2> TAKE i \in k + 1 .. Len(r.dels)
  <2>1. i \in 1 .. Len(r.dels) /\ r.dels[i] \in Range(r.dels)
    BY <1>2 DEF Range
  <2>2. ~r.dels[i].sub /\ ~r.dels[i].dead /\ r.dels[i].replay
    BY <1>3, <2>1
  <2> QED BY <2>1, <2>2
<1> HIDE DEF S
<1>7. /\ fresh \in Seq(Deliveries) /\ Len(fresh) = Len(r.dels) - k
      /\ \A i \in 1 .. Len(r.dels) - k : fresh[i] = r.dels[k + i]
  <2> DEFINE q == r.dels
  <2>1. q \in Seq(Deliveries) /\ Splits(q, S, k)
    BY <1>1, <1>2, <1>5, <1>6 DEF Splits
  <2> HIDE DEF q
  <2>2. /\ Only(q, S) \in Seq(Deliveries) /\ Len(Only(q, S)) = Len(q) - k
        /\ \A i \in 1 .. Len(q) - k : Only(q, S)[i] = q[k + i]
    BY <2>1, OnlyLast
  <2> QED BY <2>2 DEF q
<1> HIDE DEF fresh
<1>8. DOMAIN fresh = 1 .. Len(fresh) /\ Len(fresh) \in Nat /\ \A i \in 1 .. Len(fresh) : fresh[i] \in Deliveries
  BY <1>7, LenProperties, ElementOfSeq
<1>9. /\ x \in Seq(Jobs) /\ Len(x) = Len(fresh)
      /\ \A i \in 1 .. Len(fresh) : x[i] = MutationJob(fresh[i].n)
  <2>1. ASSUME NEW i \in 1 .. Len(fresh) PROVE MutationJob(fresh[i].n) \in Jobs
    <3>1. fresh[i].n \in 1 .. MaxSeq /\ MaxSeq \in Nat
      BY <1>8, Stream DEF Deliveries
    <3>2. Touch[fresh[i].n] \in Blocks /\ fresh[i].n \in 0 .. MaxSeq
      BY <3>1, Stream
    <3> QED BY <3>2 DEF MutationJob, Jobs
  <2>2. x \in [DOMAIN fresh -> Jobs]
    BY <1>8, <2>1
  <2>3. x \in Seq(Jobs) /\ Len(x) = Len(fresh)
    BY <1>7, <2>2, Maps
  <2> QED BY <1>8, <2>3
<1>10. /\ y \in Seq(Deliveries) /\ Len(y) = Len(r.dels)
       /\ \A i \in 1 .. Len(r.dels) : y[i] = [r.dels[i] EXCEPT !.sub = TRUE]
  <2>1. \A i \in 1 .. Len(r.dels) : y[i] \in Deliveries
    BY <1>2 DEF Deliveries
  <2>2. y \in [DOMAIN r.dels -> Deliveries]
    BY <1>2, <2>1
  <2>4. \A i \in 1 .. Len(r.dels) : y[i] = [r.dels[i] EXCEPT !.sub = TRUE]
    BY <1>2, <1>3
  <2> HIDE DEF y
  <2>3. y \in Seq(Deliveries) /\ Len(y) = Len(r.dels)
    BY <1>1, <2>2, Maps
  <2> QED BY <2>3, <2>4
<1> HIDE DEF x, y
<1>11. s.dels = y /\ s.jobs = r.jobs \o x /\ s.done = r.done /\ Beside(s, r) /\ s.ready = r.ready
  BY <1>1, <1>4 DEF Nodes, Beside
<1> HIDE DEF s
<1>12. \A i \in 1 .. Len(r.dels) : /\ y[i].sub /\ y[i].n = r.dels[i].n /\ y[i].replay /\ ~y[i].dead
  <2> TAKE i \in 1 .. Len(r.dels)
  <2>1. r.dels[i] \in Deliveries /\ y[i] = [r.dels[i] EXCEPT !.sub = TRUE]
    BY <1>2, <1>10
  <2>2. y[i].sub /\ y[i].n = r.dels[i].n /\ y[i].replay = r.dels[i].replay /\ y[i].dead = r.dels[i].dead
    BY <2>1 DEF Deliveries
  <2> QED BY <1>3, <2>2
<1>13. /\ Len(s.jobs) = Len(r.jobs) + Len(x)
       /\ \A i \in 1 .. Len(r.jobs) : s.jobs[i] = r.jobs[i]
       /\ \A m \in 1 .. Len(x) : s.jobs[Len(r.jobs) + m] = x[m]
  <2> DEFINE z == r.jobs
  <2>1. z \in Seq(Jobs) /\ s.jobs = z \o x /\ Len(z) \in Nat /\ Len(x) \in Nat
    BY <1>1, <1>2, <1>8, <1>9, <1>11
  <2> HIDE DEF z
  <2>2. /\ Len(z \o x) = Len(z) + Len(x)
        /\ \A i \in 1 .. Len(z) + Len(x) : (z \o x)[i] = IF i <= Len(z) THEN z[i] ELSE x[i - Len(z)]
    BY <1>9, <2>1, ConcatProperties
  <2>3. ASSUME NEW m \in 1 .. Len(x) PROVE (z \o x)[Len(z) + m] = x[m]
    <3>1. Len(z) + m \in 1 .. Len(z) + Len(x) /\ ~ (Len(z) + m <= Len(z)) /\ Len(z) + m - Len(z) = m
      BY <2>1
    <3> QED BY <2>2, <3>1
  <2>4. ASSUME NEW m \in 1 .. Len(z) PROVE (z \o x)[m] = z[m]
    <3>1. m \in 1 .. Len(z) + Len(x) /\ m <= Len(z)
      BY <2>1
    <3> QED BY <2>2, <3>1
  <2> QED BY <2>1, <2>2, <2>3, <2>4 DEF z
<1>14. ASSUME NEW m \in 1 .. Len(r.dels) - k
       PROVE  s.jobs[Len(r.jobs) + m].k = "MUTATION" /\ s.jobs[Len(r.jobs) + m].n = r.dels[k + m].n
  <2>1. s.jobs[Len(r.jobs) + m] = MutationJob(r.dels[k + m].n)
    BY <1>7, <1>9, <1>13
  <2> QED BY <2>1 DEF MutationJob
<1>15. Len(s.jobs) = Len(r.jobs) + (Len(r.dels) - k)
  BY <1>7, <1>9, <1>13
<1> QED BY <1>10, <1>11, <1>12, <1>13, <1>14, <1>15 DEF s

\* Then the node has all it was told of at the writer, or all of it is durable.
LEMMA PumpRipe ==
    ASSUME NEW r, Good(r), r.active # 0, r.promo = "done", ~r.ready, NEW k, Ripe(r, k)
    PROVE  Steady(Pump(r)) /\ Beside(Pump(r), r)
<1> DEFINE s == Replay(r)
           n == Len(r.dels)
           u == [Idle(s) EXCEPT !.ready = TRUE, !.retry = 0, !.armed = FALSE]
<1>1. Good(s) /\ SameRound(s, r) /\ s \in Nodes
  BY ReplayGood
<1>2. /\ Len(s.dels) = n /\ s.done = r.done
      /\ \A i \in 1 .. n : s.dels[i].sub /\ s.dels[i].n = r.dels[i].n /\ s.dels[i].replay /\ ~s.dels[i].dead
      /\ Len(s.jobs) = Len(r.jobs) + (n - k)
      /\ \A i \in 1 .. Len(r.jobs) : s.jobs[i] = r.jobs[i]
      /\ \A m \in 1 .. n - k : s.jobs[Len(r.jobs) + m].k = "MUTATION" /\ s.jobs[Len(r.jobs) + m].n = r.dels[k + m].n
      /\ Beside(s, r) /\ s.ready = r.ready
  BY ReplayTail
<1>3. Pump(r) = IF Waiting(s, TRUE) # <<>> THEN s ELSE u
  BY DEF Pump
<1> HIDE DEF s
<1>4. /\ n \in Nat /\ Len(r.done) \in Nat /\ Len(r.jobs) \in Nat /\ k \in Nat /\ k <= n
      /\ k = Len(r.done) + Len(r.jobs) /\ r.accepted <= r.applied + n /\ r.accepted \in Nat /\ r.applied \in Nat
  <2>1. Matched(r, k, 0) /\ k = Len(r.done) + Len(r.jobs) /\ r.accepted <= r.applied + n
    BY DEF Ripe
  <2> QED BY <2>1, Lists, MatchedBounds
<1>5. \A i \in 1 .. n : r.dels[i].n = r.applied + i
  BY DEF Ripe
<1>6. /\ \A i \in 1 .. Len(r.done) : ~OfRound(r.done[i]) /\ r.done[i].n = r.dels[i].n
      /\ \A i \in 1 .. Len(r.jobs) : ~OfRound(r.jobs[i]) /\ r.jobs[i].n = r.dels[Len(r.done) + i].n
  <2>1. ASSUME NEW i \in 1 .. Len(r.done) PROVE ~OfRound(r.done[i]) /\ r.done[i].n = r.dels[i].n
    <3>1. i + 0 = i /\ i <= k /\ ~ (i > k)
      BY <1>4, Places
    <3>2. Matched(r, k, 0)
      BY DEF Ripe
    <3>3. (OfRound(r.done[i]) <=> i + 0 > k) /\ (i + 0 <= k => r.done[i].n = r.dels[i + 0].n)
      BY <3>2 DEF Matched
    <3> QED BY <3>1, <3>3
  <2>2. ASSUME NEW i \in 1 .. Len(r.jobs) PROVE ~OfRound(r.jobs[i]) /\ r.jobs[i].n = r.dels[Len(r.done) + i].n
    <3> DEFINE p == Len(r.done) + i
    <3>1. p + 0 = p /\ p <= k /\ ~ (p > k)
      <4> DEFINE a == Len(r.done)
                 b == Len(r.jobs)
      <4>1. a \in Nat /\ b \in Nat /\ k = a + b /\ i \in 1 .. b
        BY <1>4
      <4> HIDE DEF a, b
      <4>2. a + i + 0 = a + i /\ a + i <= k /\ ~ (a + i > k)
        BY <4>1
      <4> QED BY <4>2 DEF a
    <3>4. Matched(r, k, 0)
      BY DEF Ripe
    <3>2. (OfRound(r.jobs[i]) <=> p + 0 > k) /\ (p + 0 <= k => r.jobs[i].n = r.dels[p + 0].n)
      BY <3>4 DEF Matched
    <3> HIDE DEF p
    <3>3. ~OfRound(r.jobs[i]) /\ r.jobs[i].n = r.dels[p].n
      BY <3>1, <3>2
    <3> QED BY <3>3 DEF p
  <2> QED BY <2>1, <2>2
<1>7. n = Len(s.done) + Len(s.jobs)
  BY <1>2, <1>4
<1>8. Matched(s, n, 0)
  <2>1. ASSUME NEW i \in 1 .. Len(s.done)
        PROVE  /\ OfRound(s.done[i]) <=> i + 0 > n
               /\ i + 0 <= n => s.done[i].n = s.dels[i + 0].n
    <3>0. i \in 1 .. Len(r.done)
      BY <1>2
    <3>1. i + 0 = i /\ i <= n /\ ~ (i > n) /\ i \in 1 .. n
      <4> DEFINE a == Len(s.done)
                 b == Len(s.jobs)
                 c == Len(r.dels)
      <4>0. a \in Nat /\ b \in Nat
        BY <1>1, Lists
      <4>1. a \in Nat /\ b \in Nat /\ c = a + b /\ i \in 1 .. a
        BY <1>7, <4>0
      <4> HIDE DEF a, b, c
      <4>2. i + 0 = i /\ i <= c /\ ~ (i > c) /\ i \in 1 .. c
        BY <4>1
      <4> QED BY <4>2 DEF c
    <3>2. ~OfRound(s.done[i]) /\ s.done[i].n = s.dels[i].n
      BY <1>2, <1>6, <3>0, <3>1
    <3> QED BY <3>1, <3>2
  <2>2. ASSUME NEW i \in 1 .. Len(s.jobs)
        PROVE  /\ OfRound(s.jobs[i]) <=> Len(s.done) + i + 0 > n
               /\ Len(s.done) + i + 0 <= n => s.jobs[i].n = s.dels[Len(s.done) + i + 0].n
    <3> DEFINE p == Len(r.done) + i
    <3>1. p + 0 = p /\ p <= n /\ ~ (p > n) /\ p \in 1 .. n
      <4> DEFINE a == Len(s.done)
                 b == Len(s.jobs)
                 c == Len(r.dels)
      <4>0. a \in Nat /\ b \in Nat /\ Len(r.done) = a
        BY <1>1, <1>2, Lists
      <4>1. a \in Nat /\ b \in Nat /\ c = a + b /\ i \in 1 .. b
        BY <1>7, <4>0
      <4> HIDE DEF a, b, c
      <4>2. a + i + 0 = a + i /\ a + i <= c /\ ~ (a + i > c) /\ a + i \in 1 .. c
        BY <4>1
      <4> QED BY <4>0, <4>2 DEF c
    <3>2. ~OfRound(s.jobs[i]) /\ s.jobs[i].n = r.dels[p].n
      <4>1. CASE i <= Len(r.jobs)
        <5>1. i \in 1 .. Len(r.jobs)
          BY <1>4, <4>1
        <5> QED BY <1>2, <1>6, <5>1
      <4>2. CASE ~ (i <= Len(r.jobs))
        <5> DEFINE m == i - Len(r.jobs)
        <5>1. m \in 1 .. n - k /\ i = Len(r.jobs) + m /\ p = k + m
          <6> DEFINE a == Len(r.done)
                     b == Len(r.jobs)
                     c == Len(r.dels)
          <6>1. a \in Nat /\ b \in Nat /\ c \in Nat /\ k = a + b /\ i \in 1 .. b + (c - k) /\ ~ (i <= b)
            BY <1>2, <1>4, <4>2
          <6> HIDE DEF a, b, c
          <6>2. i - b \in 1 .. c - k /\ i = b + (i - b) /\ a + i = k + (i - b)
            BY <6>1
          <6> QED BY <6>2 DEF a, b, c
        <5> HIDE DEF m, p
        <5>2. s.jobs[i].k = "MUTATION" /\ s.jobs[i].n = r.dels[p].n
          BY <1>2, <5>1
        <5> QED BY <5>2 DEF OfRound
      <4> QED BY <4>1, <4>2
    <3>3. s.dels[p].n = r.dels[p].n
      BY <1>2, <3>1
    <3>4. Len(s.done) + i + 0 = p
      BY <1>2, <3>1
    <3> HIDE DEF p
    <3> QED BY <3>1, <3>2, <3>3, <3>4
  <2>3. n \in Nat /\ n <= Len(s.dels) /\ n <= Len(s.done) + Len(s.jobs) + 0
    <3>1. Len(s.done) + Len(s.jobs) + 0 = n
      BY <1>4, <1>7
    <3> QED BY <1>2, <1>4, <3>1
  <2>4. /\ \A i \in 1 .. n : s.dels[i].sub
        /\ \A i \in n + 1 .. Len(s.dels) : ~s.dels[i].sub /\ s.dels[i].replay /\ ~s.dels[i].dead
    <3>1. \A i \in n + 1 .. Len(s.dels) : FALSE
      BY <1>2, <1>4
    <3> QED BY <1>2, <3>1
  <2> QED BY <2>1, <2>2, <2>3, <2>4 DEF Matched
<1>9. /\ s.accepted <= s.applied + n /\ s.active = r.active /\ s.promo = "done" /\ ~s.ready
      /\ \A i \in 1 .. n : ~s.dels[i].dead /\ s.dels[i].n = s.applied + i /\ s.dels[i].replay
  BY <1>1, <1>2, <1>4, <1>5 DEF Beside, SameRound
<1>10. CASE n = 0
  <2>1. Waiting(s, TRUE) = <<>>
    <3> DEFINE S == {d \in Range(s.dels) : ~d.dead /\ d.replay = TRUE}
    <3>1. s.dels \in Seq(Deliveries) /\ \A i \in 1 .. Len(s.dels) : s.dels[i] \in S
      BY <1>1, <1>2, <1>10 DEF Nodes
    <3>2. Only(s.dels, S) \in Seq(Deliveries) /\ Len(Only(s.dels, S)) = 0
      BY <1>2, <1>10, <3>1, OnlyWhole
    <3>3. Only(s.dels, S) = <<>>
      BY <3>2, EmptySeq
    <3> QED BY <3>3 DEF Waiting
  <2>2. Pump(r) = u
    BY <1>3, <2>1
  <2>3. Good(u)
    BY <2>2, PumpGood
  <2>4. /\ u.dels = s.dels /\ u.jobs = s.jobs /\ u.done = s.done /\ u.active = 0 /\ u.promo = "no"
        /\ Beside(u, s)
    BY <1>1 DEF Idle, Nodes, Beside
  <2> HIDE DEF u
  <2>5. Matched(u, n, 0)
    <3>1. LesserJobs(u.jobs, s.jobs) /\ LesserReceipts(u.done, s.done)
      BY <1>1, <2>4, SameReceipts
    <3>2. LesserTail(u.dels, s.dels, n)
      BY <1>1, <1>8, <2>4, SameTail
    <3> QED BY <1>1, <1>8, <3>1, <3>2, MatchedLess
  <2>6. Streaming(u, n)
    <3>1. n = Len(u.dels) /\ n = Len(u.done) + Len(u.jobs) /\ u.accepted <= u.applied + n
      BY <1>2, <1>7, <1>9, <2>4 DEF Beside
    <3>2. \A i \in 1 .. n : FALSE
      BY <1>10
    <3> QED BY <3>1, <3>2 DEF Streaming
  <2>7. Importing(u, n) /\ Closing(u) /\ Settled(u)
    BY <2>3, <2>4, Unpromised DEF Importing, Settled
  <2>8. Follows(u)
    BY <1>4, <2>4, <2>5, <2>6, <2>7 DEF Follows
  <2>9. Beside(u, r)
    BY <1>2, <2>4 DEF Beside
  <2> QED BY <2>2, <2>7, <2>8, <2>9 DEF Steady
<1>11. CASE n # 0
  <2>1. Waiting(s, TRUE) # <<>>
    <3> DEFINE S == {d \in Range(s.dels) : ~d.dead /\ d.replay = TRUE}
    <3>1. s.dels \in Seq(Deliveries) /\ DOMAIN s.dels = 1 .. n
      BY <1>1, <1>2, LenProperties DEF Nodes
    <3>2. \A i \in 1 .. Len(s.dels) : s.dels[i] \in S
      <4> TAKE i \in 1 .. Len(s.dels)
      <4>1. s.dels[i] \in Deliveries /\ s.dels[i] \in Range(s.dels) /\ s.dels[i].replay /\ ~s.dels[i].dead
        BY <1>2, <3>1, ElementOfSeq DEF Range
      <4>2. s.dels[i].replay = TRUE
        BY <4>1 DEF Deliveries
      <4> QED BY <4>1, <4>2
    <3> HIDE DEF S
    <3>3. Only(s.dels, S) \in Seq(Deliveries) /\ Len(Only(s.dels, S)) = n
      BY <1>2, <3>1, <3>2, OnlyWhole
    <3>4. Only(s.dels, S) # <<>>
      BY <1>11, <3>3
    <3> QED BY <3>4 DEF Waiting, S
  <2>2. Pump(r) = s
    BY <1>3, <2>1
  <2>3. Streaming(s, n)
    BY <1>2, <1>7, <1>9 DEF Streaming
  <2>4. Importing(s, n) /\ Closing(s)
    BY <1>1, <1>9, Unpromised DEF Importing
  <2>5. Settled(s)
    BY <1>2, <1>11 DEF Settled
  <2>6. Follows(s)
    BY <1>4, <1>8, <1>9, <2>3, <2>4 DEF Follows
  <2> QED BY <1>2, <2>2, <2>5, <2>6 DEF Steady
<1> QED BY <1>10, <1>11

\* The tail goes on from wherever the node stands.
LEMMA PumpFollows ==
    ASSUME NEW r, Good(r), Follows(r)
    PROVE  Steady(Pump(r)) /\ Beside(Pump(r), r)
<1>1. CASE r.active = 0 \/ r.promo # "done"
  <2>1. Pump(r) = r /\ r.promo # "done"
    BY <1>1, IdleFree DEF Pump
  <2> QED BY <2>1 DEF Steady, Settled, Beside
<1>2. CASE r.active # 0 /\ r.promo = "done"
  <2>1. PICK k \in Nat : Matched(r, k, 0) /\ Streaming(r, k)
    BY DEF Follows
  <2>2. Ripe(r, k)
    BY <1>2, <2>1 DEF Streaming, Ripe
  <2>3. ~r.ready
    BY <1>2 DEF Follows
  <2> QED BY <1>2, <2>2, <2>3, PumpRipe
<1> QED BY <1>1, <1>2

\* What waits when nothing was cancelled, when the first k were, or when nothing is left.
LEMMA WaitingAll ==
    ASSUME NEW r, Good(r), NEW b \in BOOLEAN,
           \A i \in 1 .. Len(r.dels) : ~r.dels[i].dead /\ r.dels[i].replay = b
    PROVE  /\ Waiting(r, b) \in Seq(Deliveries) /\ Len(Waiting(r, b)) = Len(r.dels)
           /\ \A i \in 1 .. Len(r.dels) : Waiting(r, b)[i] = r.dels[i]
<1> DEFINE S == {d \in Range(r.dels) : ~d.dead /\ d.replay = b}
           q == r.dels
<1>1. q \in Seq(Deliveries) /\ DOMAIN q = 1 .. Len(q)
  BY LenProperties DEF Good, Nodes
<1>2. \A i \in 1 .. Len(q) : q[i] \in S
  BY <1>1 DEF Range
<1>3. Waiting(r, b) = Only(q, S)
  BY DEF Waiting
<1> HIDE DEF q, S
<1>4. /\ Only(q, S) \in Seq(Deliveries) /\ Len(Only(q, S)) = Len(q)
      /\ \A i \in 1 .. Len(q) : Only(q, S)[i] = q[i]
  BY <1>1, <1>2, OnlyWhole
<1> QED BY <1>3, <1>4 DEF q

LEMMA WaitingLast ==
    ASSUME NEW r, Good(r), NEW b \in BOOLEAN, NEW k \in 0 .. Len(r.dels),
           \A i \in 1 .. k : r.dels[i].dead \/ r.dels[i].replay # b,
           \A i \in k + 1 .. Len(r.dels) : ~r.dels[i].dead /\ r.dels[i].replay = b
    PROVE  /\ Waiting(r, b) \in Seq(Deliveries) /\ Len(Waiting(r, b)) = Len(r.dels) - k
           /\ \A i \in 1 .. Len(r.dels) - k : Waiting(r, b)[i] = r.dels[k + i]
<1> DEFINE S == {d \in Range(r.dels) : ~d.dead /\ d.replay = b}
           q == r.dels
<1>1. q \in Seq(Deliveries) /\ DOMAIN q = 1 .. Len(q) /\ k \in 0 .. Len(q) /\ Len(q) \in Nat
  BY LenProperties DEF Good, Nodes
<1>2. \A i \in 1 .. k : q[i] \notin S
  OBVIOUS
<1>3. \A i \in k + 1 .. Len(q) : q[i] \in S
  BY <1>1 DEF Range
<1>4. Waiting(r, b) = Only(q, S)
  BY DEF Waiting
<1>6. q \in Seq(Deliveries) /\ Splits(q, S, k)
  BY <1>1, <1>2, <1>3 DEF Splits
<1> HIDE DEF q, S
<1>5. /\ Only(q, S) \in Seq(Deliveries) /\ Len(Only(q, S)) = Len(q) - k
      /\ \A i \in 1 .. Len(q) - k : Only(q, S)[i] = q[k + i]
  BY <1>6, OnlyLast
<1> QED BY <1>4, <1>5 DEF q

LEMMA WaitingNone ==
    ASSUME NEW r, Good(r), NEW b \in BOOLEAN, \A i \in 1 .. Len(r.dels) : r.dels[i].dead \/ r.dels[i].replay # b
    PROVE  Waiting(r, b) = <<>>
<1>1. Len(r.dels) \in Nat
  BY Lists
<1> DEFINE k == Len(r.dels)
<1>2. k \in 0 .. Len(r.dels) /\ Len(r.dels) - k = 0
  BY <1>1
<1>3. \A i \in k + 1 .. Len(r.dels) : ~r.dels[i].dead /\ r.dels[i].replay = b
  BY <1>1
<1>4. \A i \in 1 .. k : r.dels[i].dead \/ r.dels[i].replay # b
  OBVIOUS
<1> HIDE DEF k
<1>5. Waiting(r, b) \in Seq(Deliveries) /\ Len(Waiting(r, b)) = 0
  BY <1>2, <1>3, <1>4, WaitingLast
<1> QED BY <1>5, EmptySeq

\* The mutation that is due, when those that wait follow what there is without a hole.
LEMMA NextDue ==
    ASSUME NEW q \in Seq(Deliveries), NEW floor \in Nat, \A i \in 1 .. Len(q) : q[i].n = floor + i
    PROVE  (IF q = <<>> THEN floor ELSE q[Len(q)].n) = floor + Len(q)
<1>1. Len(q) \in Nat /\ (q = <<>> <=> Len(q) = 0)
  BY LenProperties, EmptySeq
<1>2. CASE q = <<>>
  BY <1>1, <1>2
<1>3. CASE q # <<>>
  <2>1. Len(q) \in 1 .. Len(q)
    BY <1>1, <1>3
  <2> QED BY <1>3, <2>1
<1> QED BY <1>2, <1>3

\* One more of the tail.
LEMMA AppendTail ==
    ASSUME NEW r, Good(r), NEW k, Matched(r, k, 0), NEW d \in Deliveries, ~d.sub, d.replay, ~d.dead,
           NEW s, s.dels = Append(r.dels, d), s.jobs = r.jobs, s.done = r.done
    PROVE  /\ Matched(s, k, 0) /\ Len(s.dels) = Len(r.dels) + 1 /\ s.dels[Len(r.dels) + 1] = d
           /\ \A i \in 1 .. Len(r.dels) : s.dels[i] = r.dels[i]
<1>1. r.dels \in Seq(Deliveries) /\ Len(r.dels) \in Nat /\ k \in Nat /\ k <= Len(r.dels)
  BY Lists, MatchedBounds DEF Good, Nodes
<1>2. /\ Len(s.dels) = Len(r.dels) + 1 /\ s.dels[Len(r.dels) + 1] = d
      /\ \A i \in 1 .. Len(r.dels) : s.dels[i] = r.dels[i]
  BY <1>1, AppendProperties
<1>3. \A i \in 1 .. k : s.dels[i].sub /\ s.dels[i].n = r.dels[i].n
  BY <1>1, <1>2 DEF Matched
<1>4. ASSUME NEW i \in k + 1 .. Len(s.dels) PROVE ~s.dels[i].sub /\ s.dels[i].replay /\ ~s.dels[i].dead
  <2>1. CASE i = Len(r.dels) + 1
    BY <1>2, <2>1
  <2>2. CASE i # Len(r.dels) + 1
    <3>1. i \in k + 1 .. Len(r.dels) /\ i \in 1 .. Len(r.dels)
      BY <1>1, <1>2, <2>2
    <3> QED BY <1>2, <3>1 DEF Matched
  <2> QED BY <2>1, <2>2
<1>5. LesserTail(s.dels, r.dels, k)
  BY <1>1, <1>2, <1>3, <1>4 DEF LesserTail
<1>6. Matched(s, k, 0)
  BY <1>5, SameReceipts, MatchedLess
<1> QED BY <1>2, <1>6

\* The mutation after those that wait, s is r with mutation n kept for a replay, and s is r
\* with mutation n at the writer.
After(q, floor) == (IF q = <<>> THEN floor ELSE q[Len(q)].n) + 1

Keeps(s, r, n) ==
    /\ s.dels = Append(r.dels, [n |-> n, replay |-> TRUE, sub |-> FALSE, dead |-> FALSE])
    /\ s.jobs = r.jobs /\ s.done = r.done /\ s.ready = r.ready /\ s.active = r.active /\ s.promo = r.promo
    /\ s.wm = r.wm /\ s.applied = r.applied /\ s.accepted = n

Streams(s, r, n) ==
    /\ s.dels = Append(r.dels, [n |-> n, replay |-> FALSE, sub |-> TRUE, dead |-> FALSE])
    /\ s.jobs = Append(r.jobs, MutationJob(n)) /\ s.done = r.done /\ s.ready /\ s.active = 0
    /\ s.applied = r.applied /\ s.accepted = n

\* A mutation that came without READY is kept for the round, or for the next one.
LEMMA KeptFollows ==
    ASSUME NEW r, Good(r), Steady(r), NEW n \in 1 .. MaxSeq, r.active # 0 \/ ~r.ready,
           r.active # 0 => n = After(Waiting(r, TRUE), r.wm), NEW s, Good(s), Keeps(s, r, n)
    PROVE  Steady(Pump(s)) /\ Beside(Pump(s), s)
<1> DEFINE d == [n |-> n, replay |-> TRUE, sub |-> FALSE, dead |-> FALSE]
           queue == Waiting(r, TRUE)
<1>1. /\ d \in Deliveries /\ d.n = n /\ d.replay /\ ~d.sub /\ ~d.dead /\ s.dels = Append(r.dels, d)
      /\ s.jobs = r.jobs /\ s.done = r.done /\ s.ready = r.ready /\ s.active = r.active /\ s.promo = r.promo
      /\ s.wm = r.wm /\ s.applied = r.applied /\ s.accepted = n
  BY DEF Deliveries, Keeps
<1> HIDE DEF d, queue
<1>2. PICK k \in Nat : Matched(r, k, 0) /\ Streaming(r, k) /\ Importing(r, k)
  BY DEF Steady, Follows
<1>3. /\ Matched(s, k, 0) /\ Len(s.dels) = Len(r.dels) + 1 /\ s.dels[Len(r.dels) + 1] = d
      /\ \A i \in 1 .. Len(r.dels) : s.dels[i] = r.dels[i]
  BY <1>1, <1>2, AppendTail
<1>4. /\ Len(r.dels) \in Nat /\ k <= Len(r.dels) /\ r.wm \in Nat /\ r.applied \in Nat
      /\ \A i \in 1 .. Len(r.dels) : r.dels[i] \in Deliveries
  BY <1>2, Lists, MatchedBounds
<1>5. CASE r.active = 0
  <2>1. Pump(s) = s /\ Beside(s, s)
    BY <1>1, <1>5 DEF Pump, Beside
  <2>2. ~s.ready /\ s.active = 0
    BY <1>1, <1>5
  <2>3. Steady(s)
    BY <1>3, <2>2, StoppedFollows
  <2> QED BY <2>1, <2>3
<1>6. CASE r.active # 0 /\ r.promo # "done"
  <2>1. Pump(s) = s /\ Beside(s, s) /\ ~r.ready /\ ~s.ready
    BY <1>1, <1>6 DEF Pump, Beside, Steady, Follows
  <2>2. /\ \A i \in 1 .. k : r.dels[i].dead
        /\ \A i \in k + 1 .. Len(r.dels) : r.dels[i].n = r.wm + (i - k)
    BY <1>2, <1>6 DEF Importing
  <2>3. k \in 0 .. Len(r.dels)
    BY <1>4
  <2>4. \A i \in k + 1 .. Len(r.dels) : ~r.dels[i].dead /\ r.dels[i].replay = TRUE
    <3> TAKE i \in k + 1 .. Len(r.dels)
    <3>1. i \in 1 .. Len(r.dels)
      BY <1>4
    <3>2. ~r.dels[i].dead /\ r.dels[i].replay
      BY <1>2 DEF Matched
    <3> QED BY <1>4, <3>1, <3>2 DEF Deliveries
  <2>5. /\ queue \in Seq(Deliveries) /\ Len(queue) = Len(r.dels) - k
        /\ \A i \in 1 .. Len(r.dels) - k : queue[i] = r.dels[k + i]
    BY <2>2, <2>3, <2>4, WaitingLast DEF queue
  <2>6. \A i \in 1 .. Len(queue) : queue[i].n = r.wm + i
    <3> TAKE i \in 1 .. Len(queue)
    <3>1. i \in 1 .. Len(r.dels) - k /\ k + i \in k + 1 .. Len(r.dels) /\ k + i - k = i
      BY <1>4, <2>5
    <3> QED BY <2>2, <2>5, <3>1
  <2>7. n = r.wm + (Len(r.dels) - k) + 1
    <3>1. n = After(queue, r.wm)
      BY <1>6 DEF queue
    <3>2. (IF queue = <<>> THEN r.wm ELSE queue[Len(queue)].n) = r.wm + Len(queue)
      BY <1>4, <2>5, <2>6, NextDue
    <3> QED BY <2>5, <3>1, <3>2 DEF After
  <2>8. \A i \in k + 1 .. Len(s.dels) : s.dels[i].n = s.wm + (i - k)
    <3> TAKE i \in k + 1 .. Len(s.dels)
    <3>1. CASE i = Len(r.dels) + 1
      <4>1. s.dels[i].n = n /\ s.wm = r.wm
        BY <1>1, <1>3, <3>1
      <4>2. \A a, b, c \in Nat : a + (b - c) + 1 = a + (b + 1 - c)
        OBVIOUS
      <4> QED BY <1>4, <2>7, <3>1, <4>1, <4>2
    <3>2. CASE i # Len(r.dels) + 1
      <4>1. i \in k + 1 .. Len(r.dels) /\ i \in 1 .. Len(r.dels)
        BY <1>3, <1>4, <3>2
      <4> QED BY <1>1, <1>3, <2>2, <4>1
    <3> QED BY <3>1, <3>2
  <2>9. \A i \in 1 .. k : s.dels[i].dead
    <3> TAKE i \in 1 .. k
    <3>1. i \in 1 .. Len(r.dels)
      BY <1>4
    <3> QED BY <1>3, <2>2, <3>1
  <2>10. s.accepted <= s.wm + (Len(s.dels) - k)
    <3>1. \A a, b, c \in Nat : a + (b - c) + 1 <= a + (b + 1 - c)
      OBVIOUS
    <3>2. n = r.wm + (Len(r.dels) - k) + 1 /\ s.accepted = n /\ s.wm = r.wm /\ Len(s.dels) = Len(r.dels) + 1
      BY <1>1, <1>3, <2>7
    <3> QED BY <1>4, <3>1, <3>2
  <2>11. Importing(s, k)
    BY <2>8, <2>9, <2>10 DEF Importing
  <2>12. Streaming(s, k)
    BY <1>1, <1>6, <2>1 DEF Streaming
  <2>13. Closing(s)
    BY <1>1 DEF Steady, Follows, Closing
  <2>14. Steady(s)
    BY <1>1, <1>2, <1>3, <1>6, <2>1, <2>11, <2>12, <2>13 DEF Steady, Follows, Settled
  <2> QED BY <2>1, <2>14
<1>7. CASE r.active # 0 /\ r.promo = "done"
  <2>1. /\ k = Len(r.dels) /\ k = Len(r.done) + Len(r.jobs)
        /\ \A i \in 1 .. k : /\ ~r.dels[i].dead /\ r.dels[i].n = r.applied + i /\ r.dels[i].replay
    BY <1>2, <1>7 DEF Streaming
  <2>2. \A i \in 1 .. Len(r.dels) : ~r.dels[i].dead /\ r.dels[i].replay = TRUE
    BY <1>4, <2>1 DEF Deliveries
  <2>3. /\ queue \in Seq(Deliveries) /\ Len(queue) = Len(r.dels)
        /\ \A i \in 1 .. Len(r.dels) : queue[i] = r.dels[i]
    BY <2>2, WaitingAll DEF queue
  <2>4. queue # <<>>
    <3>1. r.dels # <<>> /\ r.dels \in Seq(Deliveries)
      BY <1>7 DEF Steady, Settled, Good, Nodes
    <3>2. Len(queue) # 0
      BY <2>3, <3>1, EmptySeq
    <3> QED BY <3>2
  <2>5. \A i \in 1 .. Len(queue) : queue[i].n = r.applied + i
    BY <2>1, <2>3
  <2>6. n = r.applied + Len(r.dels) + 1
    <3>1. (IF queue = <<>> THEN r.applied ELSE queue[Len(queue)].n) = r.applied + Len(queue)
      BY <1>4, <2>3, <2>5, NextDue
    <3>2. n = After(queue, r.wm)
      BY <1>7 DEF queue
    <3> QED BY <2>3, <2>4, <3>1, <3>2 DEF After
  <2>7. \A i \in 1 .. Len(s.dels) : ~s.dels[i].dead /\ s.dels[i].replay /\ s.dels[i].n = s.applied + i
    <3> TAKE i \in 1 .. Len(s.dels)
    <3>1. CASE i = Len(r.dels) + 1
      BY <1>1, <1>3, <1>4, <2>6, <3>1
    <3>2. CASE i # Len(r.dels) + 1
      <4>1. i \in 1 .. Len(r.dels)
        BY <1>3, <1>4, <3>2
      <4> QED BY <1>1, <1>3, <2>1, <4>1
    <3> QED BY <3>1, <3>2
  <2>8. s.accepted <= s.applied + Len(s.dels)
    BY <1>1, <1>3, <1>4, <2>6
  <2>9. Ripe(s, k)
    BY <1>1, <1>3, <2>1, <2>7, <2>8 DEF Ripe
  <2>10. ~s.ready
    BY <1>1, <1>7 DEF Steady, Follows
  <2> QED BY <1>1, <1>7, <2>9, <2>10, PumpRipe
<1> QED BY <1>5, <1>6, <1>7

\* The writer has all the deliveries, and nothing else.
Whole(s, k) ==
    /\ k = Len(s.dels) /\ Len(s.done) \in Nat /\ Len(s.jobs) \in Nat /\ k = Len(s.done) + Len(s.jobs)
    /\ \A i \in 1 .. k : s.dels[i].sub
    /\ \A i \in 1 .. Len(s.done) : ~OfRound(s.done[i]) /\ s.done[i].n = s.dels[i].n
    /\ \A i \in 1 .. Len(s.jobs) : ~OfRound(s.jobs[i]) /\ s.jobs[i].n = s.dels[Len(s.done) + i].n

LEMMA WholeMatched ==
    ASSUME NEW s, NEW k \in Nat, Whole(s, k)
    PROVE  Matched(s, k, 0)
<1> DEFINE a == Len(s.done)
           b == Len(s.jobs)
<1>1. a \in Nat /\ b \in Nat /\ k = a + b
  BY DEF Whole
<1>2. ASSUME NEW i \in 1 .. a PROVE /\ OfRound(s.done[i]) <=> i + 0 > k
                                    /\ i + 0 <= k => s.done[i].n = s.dels[i + 0].n
  <2>1. i + 0 = i /\ ~ (i > k)
    <3> HIDE DEF a, b
    <3> QED BY <1>1
  <2>2. ~OfRound(s.done[i]) /\ s.done[i].n = s.dels[i].n
    BY DEF Whole
  <2> QED BY <2>1, <2>2
<1>3. ASSUME NEW i \in 1 .. b PROVE /\ OfRound(s.jobs[i]) <=> a + i + 0 > k
                                    /\ a + i + 0 <= k => s.jobs[i].n = s.dels[a + i + 0].n
  <2>1. ~OfRound(s.jobs[i]) /\ s.jobs[i].n = s.dels[a + i].n
    BY DEF Whole
  <2>2. a + i + 0 = a + i /\ ~ (a + i > k)
    <3> HIDE DEF a, b
    <3> QED BY <1>1
  <2> HIDE DEF a, b
  <2> QED BY <2>1, <2>2
<1>4. k <= Len(s.dels) /\ k <= a + b + 0
  <2>1. k <= a + b + 0 /\ k <= k
    <3> HIDE DEF a, b
    <3> QED BY <1>1
  <2> QED BY <2>1 DEF Whole
<1>5. \A i \in k + 1 .. Len(s.dels) : FALSE
  <2>1. \A i \in k + 1 .. k : FALSE
    OBVIOUS
  <2>2. Len(s.dels) = k
    BY DEF Whole
  <2> QED BY <2>1, <2>2
<1>6. \A i \in 1 .. k : s.dels[i].sub
  BY DEF Whole
<1> QED BY <1>2, <1>3, <1>4, <1>5, <1>6 DEF Matched

\* A mutation that comes while the node is READY goes to the writer.
LEMMA StreamFollows ==
    ASSUME NEW r, Good(r), Steady(r), NEW n \in 1 .. MaxSeq, r.active = 0, r.ready,
           n = After(Waiting(r, FALSE), r.applied), NEW s, Good(s), Streams(s, r, n)
    PROVE  Steady(s)
<1> DEFINE d == [n |-> n, replay |-> FALSE, sub |-> TRUE, dead |-> FALSE]
           j == MutationJob(n)
           queue == Waiting(r, FALSE)
<1>1. /\ d \in Deliveries /\ d.n = n /\ ~d.replay /\ d.sub /\ ~d.dead /\ s.dels = Append(r.dels, d)
      /\ s.jobs = Append(r.jobs, j) /\ s.done = r.done /\ s.ready /\ s.active = 0
      /\ s.applied = r.applied /\ s.accepted = n
  BY DEF Deliveries, Streams
<1> HIDE DEF d, queue
<1>2. j \in Jobs /\ j.k = "MUTATION" /\ j.n = n
  <2>2. MaxSeq \in Nat /\ Touch[n] \in Blocks
    BY Stream
  <2>3. \A m \in 1 .. MaxSeq : m \in 0 .. MaxSeq
    BY <2>2
  <2>1. n \in 0 .. MaxSeq /\ Touch[n] \in Blocks /\ 0 \in Nat
    BY <2>2, <2>3
  <2> QED BY <2>1 DEF MutationJob, Jobs
<1> HIDE DEF j
<1>3. PICK k \in Nat : Matched(r, k, 0) /\ Streaming(r, k)
  BY DEF Steady, Follows
<1> DEFINE a == Len(r.done)
           b == Len(r.jobs)
<1>4. a \in Nat /\ b \in Nat /\ r.applied \in Nat /\ \A i \in 1 .. Len(r.dels) : r.dels[i] \in Deliveries
  BY Lists
<1>5. r.promo = "no" /\ s.promo = "no" /\ Closing(s)
  BY <1>1, IdleFree, FreeCloses
<1>6. k = Len(r.dels) /\ k = a + b
  BY <1>3 DEF Streaming
<1>20. \A i \in 1 .. k : ~r.dels[i].dead /\ r.dels[i].n = r.applied + i /\ ~r.dels[i].replay
  BY <1>3, <1>5 DEF Streaming
<1>21. \A i \in 1 .. k : r.dels[i].sub
  BY <1>3 DEF Matched
<1>7. n = r.applied + k + 1
  <2>1. \A i \in 1 .. Len(r.dels) : ~r.dels[i].dead /\ r.dels[i].replay = FALSE
    BY <1>4, <1>6, <1>20 DEF Deliveries
  <2>2. /\ queue \in Seq(Deliveries) /\ Len(queue) = k
        /\ \A i \in 1 .. k : queue[i] = r.dels[i]
    BY <1>6, <2>1, WaitingAll DEF queue
  <2>3. \A i \in 1 .. Len(queue) : queue[i].n = r.applied + i
    BY <1>20, <2>2
  <2>4. (IF queue = <<>> THEN r.applied ELSE queue[Len(queue)].n) = r.applied + Len(queue)
    BY <1>4, <2>2, <2>3, NextDue
  <2>5. n = After(queue, r.applied)
    BY DEF queue
  <2> QED BY <2>2, <2>4, <2>5 DEF After
<1>8. /\ Len(s.dels) = k + 1 /\ s.dels[k + 1] = d
      /\ \A i \in 1 .. k : s.dels[i] = r.dels[i]
  <2>1. r.dels \in Seq(Deliveries)
    BY DEF Good, Nodes
  <2>2. /\ Len(s.dels) = Len(r.dels) + 1 /\ s.dels[Len(r.dels) + 1] = d
        /\ \A i \in 1 .. Len(r.dels) : s.dels[i] = r.dels[i]
    BY <1>1, <2>1, AppendProperties
  <2> QED BY <1>6, <2>2
<1>9. /\ Len(s.jobs) = b + 1 /\ s.jobs[b + 1] = j
      /\ \A i \in 1 .. b : s.jobs[i] = r.jobs[i]
  <2>1. r.jobs \in Seq(Jobs)
    BY DEF Good, Nodes
  <2> QED BY <1>1, <1>2, <2>1, AppendProperties
<1>10. Len(s.done) = a
  BY <1>1
<1>22. /\ \A i \in 1 .. a : (OfRound(r.done[i]) <=> i + 0 > k) /\ (i + 0 <= k => r.done[i].n = r.dels[i + 0].n)
       /\ \A i \in 1 .. b : (OfRound(r.jobs[i]) <=> a + i + 0 > k) /\ (a + i + 0 <= k => r.jobs[i].n = r.dels[a + i + 0].n)
  BY <1>3 DEF Matched
<1>23. r.done = s.done
  BY <1>1
<1> HIDE DEF a, b
<1>24. k + 1 \in Nat /\ k + 1 = a + (b + 1) /\ a \in Nat /\ b + 1 \in Nat /\ k \in Nat
  BY <1>4, <1>6
<1>11. \A i \in 1 .. k + 1 : /\ s.dels[i].sub /\ ~s.dels[i].dead /\ s.dels[i].n = s.applied + i /\ ~s.dels[i].replay
  <2> TAKE i \in 1 .. k + 1
  <2>1. CASE i = k + 1
    <3>1. s.dels[i] = d /\ s.applied + i = r.applied + k + 1
      BY <1>1, <1>4, <1>8, <2>1
    <3> QED BY <1>1, <1>7, <3>1
  <2>2. CASE i # k + 1
    <3>1. i \in 1 .. k
      BY <1>24, <2>2
    <3> QED BY <1>1, <1>8, <1>20, <1>21, <3>1
  <2> QED BY <2>1, <2>2
<1>12. ASSUME NEW i \in 1 .. a PROVE ~OfRound(s.done[i]) /\ s.done[i].n = s.dels[i].n
  <2>1. i + 0 = i /\ i <= k /\ ~ (i > k) /\ i \in 1 .. k
    BY <1>4, <1>6, Places
  <2> QED BY <1>8, <1>22, <1>23, <2>1
<1>13. ASSUME NEW i \in 1 .. b + 1
       PROVE  ~OfRound(s.jobs[i]) /\ s.jobs[i].n = s.dels[a + i].n
  <2>1. CASE i = b + 1
    <3>1. a + i = k + 1
      BY <1>4, <1>6, <2>1
    <3>2. s.dels[a + i] = d /\ s.jobs[i] = j
      BY <1>8, <1>9, <2>1, <3>1
    <3> QED BY <1>1, <1>2, <3>2 DEF OfRound
  <2>2. CASE i # b + 1
    <3>1. i \in 1 .. b
      BY <1>4, <2>2
    <3>2. a + i + 0 = a + i /\ a + i <= k /\ ~ (a + i > k) /\ a + i \in 1 .. k
      BY <1>4, <1>6, <3>1
    <3>3. ~OfRound(r.jobs[i]) /\ r.jobs[i].n = r.dels[a + i].n
      BY <1>22, <3>1, <3>2
    <3> QED BY <1>8, <1>9, <3>1, <3>2, <3>3
  <2> QED BY <2>1, <2>2
<1>14. Matched(s, k + 1, 0)
  <2>1. k + 1 = Len(s.dels) /\ Len(s.done) \in Nat /\ Len(s.jobs) \in Nat /\ k + 1 = Len(s.done) + Len(s.jobs)
    BY <1>8, <1>9, <1>10, <1>24
  <2>2. \A i \in 1 .. Len(s.done) : ~OfRound(s.done[i]) /\ s.done[i].n = s.dels[i].n
    BY <1>10, <1>12
  <2>3. \A i \in 1 .. Len(s.jobs) : ~OfRound(s.jobs[i]) /\ s.jobs[i].n = s.dels[Len(s.done) + i].n
    BY <1>9, <1>10, <1>13
  <2>4. Whole(s, k + 1)
    BY <1>11, <2>1, <2>2, <2>3 DEF Whole
  <2> QED BY <1>24, <2>4, WholeMatched
<1>15. Streaming(s, k + 1)
  <2>1. s.accepted <= s.applied + (k + 1)
    <3>1. s.accepted = n /\ s.applied = r.applied /\ r.applied \in Nat
      BY <1>1, <1>4
    <3> QED BY <1>7, <3>1
  <2>2. k + 1 = Len(s.dels) /\ k + 1 = Len(s.done) + Len(s.jobs)
    BY <1>8, <1>9, <1>10, <1>24
  <2> QED BY <1>5, <1>11, <2>1, <2>2 DEF Streaming
<1>16. Importing(s, k + 1)
  BY <1>1 DEF Importing
<1> QED BY <1>1, <1>5, <1>14, <1>15, <1>16, <1>24 DEF Steady, Follows, Settled

\* A mutation goes to the writer, or to the tail, or is known, or makes the node ask again.
LEMMA IngressFollows ==
    ASSUME NEW r, Good(r), Steady(r), NEW n \in 1 .. MaxSeq
    PROVE  LET s == Ingress(r, n)
           IN  Steady(s) /\ s.applied = r.applied /\ (s.accepted = r.accepted \/ s.accepted = n)
<1> DEFINE replay == r.active # 0 \/ ~r.ready
           floor == IF ~replay THEN r.applied ELSE IF r.active # 0 THEN r.wm ELSE n - 1
           queue == Waiting(r, replay)
           item == [n |-> n, replay |-> replay, sub |-> ~replay, dead |-> FALSE]
           kept == [r EXCEPT !.dels = Append(@, item), !.accepted = n]
           s == Ingress(r, n)
<1> SUFFICES Steady(s) /\ s.applied = r.applied /\ (s.accepted = r.accepted \/ s.accepted = n)
  OBVIOUS
<1>1. r \in Nodes /\ MaxSeq \in Nat
  BY Stream DEF Good
<1>2. s \in {r, Gap(r)} \/ (n = After(queue, floor) /\ s = IF ~replay THEN Submit(kept, MutationJob(n)) ELSE Pump(kept))
  BY DEF Ingress, After
<1>3. Good(s)
  BY IngressGood
<1>4. CASE s = r
  BY <1>4
<1>5. CASE s = Gap(r)
  <2> HIDE DEF s
  <2> QED BY <1>5, GapFollows DEF Steady, Beside
<1>6. CASE n = After(queue, floor) /\ ~replay /\ s = Submit(kept, MutationJob(n))
  <2>1. r.active = 0 /\ r.ready /\ replay = FALSE
    BY <1>6
  <2>2. n = After(Waiting(r, FALSE), r.applied)
    BY <1>6, <2>1
  <2>3. Streams(s, r, n)
    BY <1>1, <1>6, <2>1 DEF Streams, Submit, Nodes
  <2> HIDE DEF s, replay, queue, floor, item, kept
  <2>4. Steady(s)
    BY <1>3, <2>1, <2>2, <2>3, StreamFollows
  <2> QED BY <2>3, <2>4 DEF Streams
<1>7. CASE n = After(queue, floor) /\ replay /\ s = Pump(kept)
  <2>1. (r.active # 0 \/ ~r.ready) /\ replay = TRUE
    BY <1>7
  <2>2. r.active # 0 => n = After(Waiting(r, TRUE), r.wm)
    BY <1>7, <2>1
  <2>3. Keeps(kept, r, n)
    BY <1>1, <2>1 DEF Keeps, Nodes
  <2>4. Good(kept)
    <3>1. r.dels \in Seq(Deliveries) /\ item \in Deliveries
      BY <1>1 DEF Nodes, Deliveries
    <3> HIDE DEF item
    <3>2. Append(r.dels, item) \in Seq(Deliveries)
      BY <3>1, AppendProperties
    <3>3. n \in 0 .. MaxSeq
      BY <1>1
    <3>4. kept \in Nodes /\ SameRound(kept, r) /\ kept.jobs = r.jobs /\ kept.done = r.done
      BY <1>1, <3>2, <3>3 DEF Nodes, SameRound
    <3> HIDE DEF kept
    <3> QED BY <3>4, Aside
  <2> HIDE DEF s, replay, queue, floor, item, kept
  <2>5. Steady(Pump(kept)) /\ Beside(Pump(kept), kept)
    BY <2>1, <2>2, <2>3, <2>4, KeptFollows
  <2> QED BY <1>7, <2>3, <2>5 DEF Keeps, Beside
<1> HIDE DEF s, replay, queue, floor, item, kept
<1> QED BY <1>2, <1>4, <1>5, <1>6, <1>7

\* What the replica is told leaves it in step; an inventory must be of all it accepted.
LEMMA HearFollows ==
    ASSUME NEW r, Good(r), Steady(r), NEW f, Sound(f), f.m = "INF" => r.accepted <= f.w
    PROVE  LET s == Hear(r, f)
           IN  /\ Steady(s) /\ s.applied = r.applied
               /\ s.accepted = r.accepted \/ (f.m = "INS" /\ s.accepted = f.n)
<1> DEFINE s == Hear(r, f)
<1> SUFFICES /\ Steady(s) /\ s.applied = r.applied
             /\ s.accepted = r.accepted \/ (f.m = "INS" /\ s.accepted = f.n)
  OBVIOUS
<1>0. Follows(r) /\ Settled(r)
  BY DEF Steady
<1>1. CASE f.m = "INF"
  <2>1. s = HearInf(r, f) /\ Told(f)
    BY <1>1 DEF Hear, Sound
  <2> HIDE DEF s
  <2> QED BY <1>0, <1>1, <2>1, HearInfFollows DEF Beside
<1>2. CASE f.m = "SNAP"
  <2>1. s = HearSnap(r, f)
    BY <1>2 DEF Hear
  <2> HIDE DEF s
  <2> QED BY <2>1, HearSnapFollows DEF Beside
<1>3. CASE f.m = "ERR"
  <2>1. s = r \/ s = Abort(r, TRUE)
    BY <1>3 DEF Hear, HearErr
  <2> HIDE DEF s
  <2> QED BY <1>0, <2>1, AbortFollows DEF Beside
<1>4. CASE f.m = "INS"
  <2>1. s = Ingress(r, f.n) /\ f.n \in 1 .. MaxSeq
    BY <1>4 DEF Hear, Sound
  <2> HIDE DEF s
  <2> QED BY <1>4, <2>1, IngressFollows
<1>5. CASE f.m = "MANIFEST ACK"
  <2>1. s = HearManifestAck(r, f) /\ Told(f)
    BY <1>5 DEF Hear, Sound
  <2> HIDE DEF s
  <2> QED BY <2>1, HearManifestAckFollows DEF Beside
<1>6. CASE f.m = "MANIFEST ERR"
  <2>1. s = [r EXCEPT !.ae = Calm] /\ r \in Nodes
    BY <1>6 DEF Hear, Good
  <2>2. /\ s.dels = r.dels /\ s.jobs = r.jobs /\ s.done = r.done /\ s.ready = r.ready /\ s.promo = r.promo
        /\ s.active = r.active /\ s.wm = r.wm /\ Beside(s, r)
    BY <2>1 DEF Nodes, Beside
  <2> HIDE DEF s
  <2> QED BY <1>0, <2>2, AsideFollows DEF Steady, Beside
<1> QED BY <1>1, <1>2, <1>3, <1>4, <1>5, <1>6 DEF Sound

\* s is r without its first receipt j.
Taken(s, r, j) ==
    /\ r.done # <<>> /\ j = Head(r.done) /\ s = [r EXCEPT !.done = Tail(@)]

\* A receipt of a mutation is that of the first delivery; before one of a round there is
\* none left.
LEMMA TakenTail ==
    ASSUME NEW r, Good(r), NEW k, Matched(r, k, 0), NEW s, NEW j, Taken(s, r, j)
    PROVE  /\ ~OfRound(j) => k >= 1 /\ j.n = r.dels[1].n /\ Matched(s, k, 1)
           /\ OfRound(j) => k = 0 /\ Matched(s, 0, 0)
<1>1. /\ s.jobs = r.jobs /\ s.dels = r.dels /\ j = r.done[1]
      /\ Len(r.done) \in Nat /\ Len(s.done) \in Nat /\ Len(r.done) = Len(s.done) + 1
      /\ \A i \in 1 .. Len(s.done) : s.done[i] = r.done[i + 1]
  BY TakenGood DEF Taken
<1>2. Len(r.jobs) \in Nat /\ Len(r.dels) \in Nat
  BY Lists
<1>3. k \in Nat /\ k <= Len(r.dels) /\ k <= Len(r.done) + Len(r.jobs) + 0
  BY MatchedBounds
<1>4. (OfRound(j) <=> 1 + 0 > k) /\ (1 + 0 <= k => j.n = r.dels[1 + 0].n)
  <2>1. 1 \in 1 .. Len(r.done)
    BY <1>1
  <2> QED BY <1>1, <2>1 DEF Matched
<1>5. /\ \A i \in 1 .. k : s.dels[i].sub
      /\ \A i \in k + 1 .. Len(s.dels) : ~s.dels[i].sub /\ s.dels[i].replay /\ ~s.dels[i].dead
  BY <1>1 DEF Matched
<1>6. /\ \A i \in 1 .. Len(r.done) : (OfRound(r.done[i]) <=> i + 0 > k) /\ (i + 0 <= k => r.done[i].n = r.dels[i + 0].n)
      /\ \A i \in 1 .. Len(r.jobs) : /\ OfRound(r.jobs[i]) <=> Len(r.done) + i + 0 > k
                                     /\ Len(r.done) + i + 0 <= k => r.jobs[i].n = r.dels[Len(r.done) + i + 0].n
  BY DEF Matched
<1> DEFINE a == Len(s.done)
           b == Len(r.jobs)
           c == Len(r.dels)
<1>7. a \in Nat /\ b \in Nat /\ c \in Nat /\ k \in Nat /\ k <= c /\ k <= a + 1 + b + 0 /\ Len(r.done) = a + 1
  BY <1>1, <1>2, <1>3
<1> HIDE DEF a, b, c
<1>8. ASSUME NEW i \in 1 .. a
      PROVE  /\ i + 1 \in 1 .. a + 1 /\ s.done[i] = r.done[i + 1]
             /\ (OfRound(s.done[i]) <=> i + 1 > k) /\ (i + 1 <= k => s.done[i].n = s.dels[i + 1].n)
  <2>1. i + 1 \in 1 .. a + 1 /\ i + 1 + 0 = i + 1
    BY <1>7
  <2>2. s.done[i] = r.done[i + 1]
    BY <1>1 DEF a
  <2>3. (OfRound(r.done[i + 1]) <=> i + 1 + 0 > k) /\ (i + 1 + 0 <= k => r.done[i + 1].n = r.dels[i + 1 + 0].n)
    BY <1>6, <1>7, <2>1
  <2> QED BY <1>1, <2>1, <2>2, <2>3
<1>9. ASSUME NEW i \in 1 .. b
      PROVE  /\ OfRound(s.jobs[i]) <=> a + i + 1 > k
             /\ a + i + 1 <= k => s.jobs[i].n = s.dels[a + i + 1].n
  <2>1. a + 1 + i + 0 = a + i + 1
    BY <1>7
  <2>2. /\ OfRound(r.jobs[i]) <=> a + 1 + i + 0 > k
        /\ a + 1 + i + 0 <= k => r.jobs[i].n = r.dels[a + 1 + i + 0].n
    <3>1. /\ OfRound(r.jobs[i]) <=> Len(r.done) + i + 0 > k
          /\ Len(r.done) + i + 0 <= k => r.jobs[i].n = r.dels[Len(r.done) + i + 0].n
      BY <1>6 DEF b
    <3> QED BY <1>7, <3>1
  <2> QED BY <1>1, <2>1, <2>2
<1>10. CASE ~OfRound(j)
  <2>1. k >= 1 /\ 1 + 0 <= k /\ 1 + 0 = 1
    BY <1>4, <1>7, <1>10
  <2>2. k <= a + b + 1
    BY <1>7
  <2>3. k \in Nat /\ k <= Len(s.dels) /\ k <= Len(s.done) + Len(s.jobs) + 1
    BY <1>1, <1>7, <2>2 DEF a, b, c
  <2>4. /\ \A i \in 1 .. Len(s.done) : (OfRound(s.done[i]) <=> i + 1 > k) /\ (i + 1 <= k => s.done[i].n = s.dels[i + 1].n)
        /\ \A i \in 1 .. Len(s.jobs) : /\ OfRound(s.jobs[i]) <=> Len(s.done) + i + 1 > k
                                       /\ Len(s.done) + i + 1 <= k => s.jobs[i].n = s.dels[Len(s.done) + i + 1].n
    BY <1>1, <1>8, <1>9 DEF a, b
  <2>5. Matched(s, k, 1)
    BY <1>5, <2>3, <2>4 DEF Matched
  <2> QED BY <1>4, <1>10, <2>1, <2>5
<1>11. CASE OfRound(j)
  <2>1. k = 0
    BY <1>4, <1>7, <1>11
  <2>2. 0 <= Len(s.dels) /\ 0 <= Len(s.done) + Len(s.jobs) + 0
    <3>1. 0 <= c /\ 0 <= a + b + 0
      BY <1>7
    <3> QED BY <1>1, <3>1 DEF a, b, c
  <2>3. \A i \in 1 .. Len(s.done) : (OfRound(s.done[i]) <=> i + 0 > 0) /\ (i + 0 <= 0 => s.done[i].n = s.dels[i + 0].n)
    <3> TAKE i \in 1 .. Len(s.done)
    <3>1. i + 1 > k /\ i + 0 > 0 /\ ~ (i + 0 <= 0)
      BY <1>7, <2>1 DEF a
    <3>2. i \in 1 .. a
      BY DEF a
    <3> QED BY <1>8, <3>1, <3>2
  <2>4. \A i \in 1 .. Len(s.jobs) : /\ OfRound(s.jobs[i]) <=> Len(s.done) + i + 0 > 0
                                    /\ Len(s.done) + i + 0 <= 0 => s.jobs[i].n = s.dels[Len(s.done) + i + 0].n
    <3> TAKE i \in 1 .. Len(s.jobs)
    <3>1. a + i + 1 > k /\ a + i + 0 > 0 /\ ~ (a + i + 0 <= 0)
      BY <1>7, <2>1
    <3>2. i \in 1 .. b /\ Len(s.done) = a
      BY <1>1 DEF a, b
    <3> QED BY <1>9, <3>1, <3>2
  <2>5. Matched(s, 0, 0)
    BY <1>5, <2>1, <2>2, <2>3, <2>4 DEF Matched
  <2> QED BY <1>11, <2>1, <2>5
<1> QED BY <1>10, <1>11

\* The delivery whose receipt is handled leaves the list.
LEMMA DropTail ==
    ASSUME NEW r, Good(r), NEW k, k >= 1, Matched(r, k, 1)
    PROVE  LET s == DropFirstSubmitted(r)
           IN  /\ Matched(s, k - 1, 0) /\ FirstOf(Submitted(r)) = 1 /\ Submitted(r) # {}
               /\ Len(s.dels) = Len(r.dels) - 1 /\ \A i \in 1 .. Len(s.dels) : s.dels[i] = r.dels[i + 1]
               /\ s.jobs = r.jobs /\ s.done = r.done /\ s.ready = r.ready /\ s.promo = r.promo
               /\ s.active = r.active /\ s.wm = r.wm /\ Beside(s, r)
<1> DEFINE s == DropFirstSubmitted(r)
           q == r.dels
           a == Len(r.done)
           b == Len(r.jobs)
           c == Len(q)
<1> SUFFICES /\ Matched(s, k - 1, 0) /\ FirstOf(Submitted(r)) = 1 /\ Submitted(r) # {}
             /\ Len(s.dels) = c - 1 /\ \A i \in 1 .. Len(s.dels) : s.dels[i] = q[i + 1]
             /\ s.jobs = r.jobs /\ s.done = r.done /\ s.ready = r.ready /\ s.promo = r.promo
             /\ s.active = r.active /\ s.wm = r.wm /\ Beside(s, r)
  OBVIOUS
<1>1. r \in Nodes /\ q \in Seq(Deliveries) /\ DOMAIN q = 1 .. c
  BY LenProperties DEF Good, Nodes
<1>2. a \in Nat /\ b \in Nat /\ c \in Nat /\ k \in Nat /\ k <= c /\ k <= a + b + 1
  BY Lists, MatchedBounds
<1>3. /\ \A i \in 1 .. k : q[i].sub
      /\ \A i \in k + 1 .. c : ~q[i].sub /\ q[i].replay /\ ~q[i].dead
      /\ \A i \in 1 .. a : (OfRound(r.done[i]) <=> i + 1 > k) /\ (i + 1 <= k => r.done[i].n = q[i + 1].n)
      /\ \A i \in 1 .. b : (OfRound(r.jobs[i]) <=> a + i + 1 > k) /\ (a + i + 1 <= k => r.jobs[i].n = q[a + i + 1].n)
  BY DEF Matched
<1>4. FirstOf(Submitted(r)) = 1 /\ 1 \in Submitted(r)
  <2>1. 1 \in 1 .. c /\ 1 \in 1 .. k
    BY <1>2
  <2>2. 1 \in Submitted(r) /\ Submitted(r) \subseteq Nat
    BY <1>1, <1>3, <2>1 DEF Submitted
  <2>3. \A n \in Submitted(r) : n >= 1
    BY <1>1 DEF Submitted
  <2> DEFINE S == Submitted(r)
             m == FirstOf(S)
  <2> HIDE DEF S
  <2>4. \E n \in S : \A x \in S : n <= x
    BY <2>2, <2>3 DEF S
  <2>5. m \in S /\ \A x \in S : m <= x
    BY <2>4 DEF FirstOf
  <2> HIDE DEF m
  <2>6. m = 1
    BY <2>2, <2>3, <2>5 DEF S
  <2> QED BY <2>2, <2>6 DEF S, m
<1>5. s = [r EXCEPT !.dels = RemoveAt(q, 1)]
  BY <1>4 DEF DropFirstSubmitted
<1> DEFINE t == RemoveAt(q, 1)
<1>6. Len(t) = c - 1 /\ \A i \in 1 .. c - 1 : t[i] = q[i + 1]
  <2>1. t = SubSeq(q, 1, 0) \o SubSeq(q, 2, c)
    BY DEF RemoveAt
  <2>2. SubSeq(q, 1, 0) = <<>>
    BY <1>1, SubSeqProperties, EmptySeq
  <2> DEFINE u == SubSeq(q, 2, c)
  <2> HIDE DEF q
  <2>3. u \in Seq(Deliveries) /\ Len(u) = c - 1 /\ \A i \in 1 .. c - 1 : u[i] = q[i + 1]
    <3>1. u \in Seq(Deliveries) /\ Len(u) = (IF 2 <= c THEN c - 2 + 1 ELSE 0)
      BY <1>1, <1>2, SubSeqProperties
    <3>2. ASSUME NEW i \in 1 .. c - 1 PROVE u[i] = q[i + 1]
      <4>1. i \in 1 .. c - 2 + 1 /\ 2 + i - 1 = i + 1
        BY <1>2
      <4>2. u[i] = q[2 + i - 1]
        BY <1>1, <1>2, <4>1, SubSeqProperties
      <4> QED BY <4>1, <4>2
    <3>3. (2 <= c => c - 2 + 1 = c - 1) /\ (~ (2 <= c) => 0 = c - 1)
      <4>1. \A x, y \in Nat : y >= 1 /\ y <= x => (2 <= x => x - 2 + 1 = x - 1) /\ (~ (2 <= x) => 0 = x - 1)
        OBVIOUS
      <4> QED BY <1>2, <4>1
    <3>4. Len(u) = c - 1
      BY <3>1, <3>3
    <3> QED BY <3>1, <3>2, <3>4
  <2> HIDE DEF u
  <2>4. <<>> \o u = u
    BY <2>3
  <2> QED BY <2>1, <2>2, <2>3, <2>4 DEF u
<1> HIDE DEF t
<1>7. /\ s.dels = t /\ s.jobs = r.jobs /\ s.done = r.done /\ s.ready = r.ready /\ s.promo = r.promo
      /\ s.active = r.active /\ s.wm = r.wm /\ Beside(s, r)
  BY <1>1, <1>5 DEF t, Nodes, Beside
<1> HIDE DEF s, q, a, b, c
<1>8. Matched(s, k - 1, 0)
  <2>1. k - 1 \in Nat /\ k - 1 <= c - 1 /\ k - 1 <= a + b + 0
    BY <1>2
  <2>2. ASSUME NEW i \in 1 .. k - 1 PROVE t[i].sub
    <3>1. i + 1 \in 1 .. k /\ i \in 1 .. c - 1
      BY <1>2
    <3> QED BY <1>3, <1>6, <3>1
  <2>3. ASSUME NEW i \in k .. c - 1 PROVE ~t[i].sub /\ t[i].replay /\ ~t[i].dead
    <3>1. i + 1 \in k + 1 .. c /\ i \in 1 .. c - 1
      BY <1>2
    <3> QED BY <1>3, <1>6, <3>1
  <2>4. ASSUME NEW i \in 1 .. a PROVE (OfRound(r.done[i]) <=> i + 0 > k - 1) /\ (i + 0 <= k - 1 => r.done[i].n = t[i + 0].n)
    <3>1. i + 0 = i /\ (i + 1 > k <=> i > k - 1) /\ (i <= k - 1 <=> i + 1 <= k) /\ (i <= k - 1 => i \in 1 .. c - 1)
      BY <1>2
    <3> QED BY <1>3, <1>6, <3>1
  <2>5. ASSUME NEW i \in 1 .. b
        PROVE  (OfRound(r.jobs[i]) <=> a + i + 0 > k - 1) /\ (a + i + 0 <= k - 1 => r.jobs[i].n = t[a + i + 0].n)
    <3>1. /\ a + i + 0 = a + i /\ (a + i + 1 > k <=> a + i > k - 1) /\ (a + i <= k - 1 <=> a + i + 1 <= k)
          /\ (a + i <= k - 1 => a + i \in 1 .. c - 1)
      BY <1>2
    <3> QED BY <1>3, <1>6, <3>1
  <2>6. k - 1 + 1 = k
    BY <1>2
  <2>7. /\ k - 1 \in Nat /\ k - 1 <= Len(s.dels) /\ k - 1 <= Len(s.done) + Len(s.jobs) + 0
        /\ \A i \in 1 .. k - 1 : s.dels[i].sub
        /\ \A i \in k - 1 + 1 .. Len(s.dels) : ~s.dels[i].sub /\ s.dels[i].replay /\ ~s.dels[i].dead
    BY <1>6, <1>7, <2>1, <2>2, <2>3, <2>6 DEF a, b
  <2>8. /\ \A i \in 1 .. Len(s.done) : (OfRound(s.done[i]) <=> i + 0 > k - 1) /\ (i + 0 <= k - 1 => s.done[i].n = s.dels[i + 0].n)
        /\ \A i \in 1 .. Len(s.jobs) : /\ OfRound(s.jobs[i]) <=> Len(s.done) + i + 0 > k - 1
                                       /\ Len(s.done) + i + 0 <= k - 1 => s.jobs[i].n = s.dels[Len(s.done) + i + 0].n
    BY <1>7, <2>4, <2>5 DEF a, b
  <2> QED BY <2>7, <2>8 DEF Matched
<1> QED BY <1>4, <1>6, <1>7, <1>8

\* A mutation that was lost, or committed after it was cancelled, stops the node.
LEMMA BrokenFollows ==
    ASSUME NEW r, Good(r), NEW k, k >= 1, Matched(r, k, 1), NEW which
    PROVE  LET s == DropFirstSubmitted(Gap(AbortActive(Withdraw([r EXCEPT !.ready = FALSE], which))))
           IN  Steady(s) /\ Beside(s, r)
<1> DEFINE t == [r EXCEPT !.ready = FALSE]
           u == Withdraw(t, which)
           v == AbortActive(u)
           w == Gap(v)
           s == DropFirstSubmitted(w)
<1> SUFFICES Steady(s) /\ Beside(s, r)
  OBVIOUS
<1>0. 1 \in Nat
  OBVIOUS
<1>1. Good(t) /\ Matched(t, k, 1) /\ Beside(t, r) /\ ~t.ready
  <2>1. Good(t)
    BY Notes
  <2>2. t.dels = r.dels /\ t.jobs = r.jobs /\ t.done = r.done /\ ~t.ready /\ Beside(t, r)
    BY DEF Good, Nodes, Beside
  <2> HIDE DEF t
  <2>3. LesserTail(t.dels, r.dels, k) /\ LesserJobs(t.jobs, r.jobs) /\ LesserReceipts(t.done, r.done)
    BY <1>0, <2>2, SameTail, SameReceipts
  <2> QED BY <1>0, <2>1, <2>2, <2>3, MatchedLess
<1> HIDE DEF t
<1>2. Good(u) /\ Matched(u, k, 1) /\ Beside(u, t) /\ u.ready = t.ready
  BY <1>0, <1>1, WithdrawGood, WithdrawTail
<1> HIDE DEF u
<1>3. Good(v) /\ v.active = 0
  BY <1>2, AbortActiveGood
<1>4. Matched(v, k, 1) /\ Beside(v, u) /\ v.ready = u.ready
  BY <1>0, <1>2, AbortTail DEF AbortActive, Beside
<1> HIDE DEF v
<1>5. Good(w)
  BY <1>3, GapGood
<1>6. w.dels = v.dels /\ w.jobs = v.jobs /\ w.done = v.done /\ ~w.ready /\ w.active = 0 /\ Beside(w, v)
  BY <1>3 DEF Gap, Send, Good, Nodes, Beside
<1> HIDE DEF w
<1>7. Matched(w, k, 1)
  <2>1. LesserTail(w.dels, v.dels, k) /\ LesserJobs(w.jobs, v.jobs) /\ LesserReceipts(w.done, v.done)
    BY <1>0, <1>3, <1>4, <1>6, SameTail, SameReceipts
  <2> QED BY <1>0, <1>3, <1>4, <2>1, MatchedLess
<1>8. Good(s)
  BY <1>5, <1>7, DropTail, DropGood
<1>9. Matched(s, k - 1, 0) /\ s.ready = w.ready /\ s.active = w.active /\ Beside(s, w)
  BY <1>5, <1>7, DropTail
<1> HIDE DEF s
<1>10. Steady(s)
  BY <1>6, <1>8, <1>9, StoppedFollows
<1>11. Beside(s, r)
  BY <1>1, <1>2, <1>4, <1>6, <1>9 DEF Beside
<1> QED BY <1>10, <1>11

\* The receipt of a mutation moves on what is applied, in step with the deliveries.
LEMMA MutationReceiptFollows ==
    ASSUME NEW r, Good(r), Follows(r), NEW s, NEW j, Taken(s, r, j), ~OfRound(j)
    PROVE  Follows(MutationReceipt(s, j)) /\ MutationReceipt(s, j).accepted = r.accepted
<1>1. /\ j \in Receipts /\ Good(s) /\ s.jobs = r.jobs /\ s.dels = r.dels
      /\ s.ready = r.ready /\ s.applied = r.applied /\ s.accepted = r.accepted
      /\ s.active = r.active /\ s.wm = r.wm /\ s.promo = r.promo
      /\ Len(r.done) \in Nat /\ Len(s.done) \in Nat /\ Len(r.done) = Len(s.done) + 1
      /\ \A i \in 1 .. Len(s.done) : s.done[i] = r.done[i + 1]
  BY TakenGood DEF Taken, SameRound
<1>2. PICK k \in Nat : Matched(r, k, 0) /\ Streaming(r, k) /\ Importing(r, k)
  BY DEF Follows
<1>3. k >= 1 /\ j.n = r.dels[1].n /\ Matched(s, k, 1)
  BY <1>2, TakenTail
<1> DEFINE u == IF j.ok THEN [s EXCEPT !.applied = j.n] ELSE s
           d == s.dels[1]
           broken == Gap(AbortActive(Withdraw([u EXCEPT !.ready = FALSE], Range(u.dels))))
<1>4. FirstOf(Submitted(s)) = 1 /\ Submitted(s) # {}
  BY <1>1, <1>3, DropTail
<1>5. MutationReceipt(s, j) =
         DropFirstSubmitted(IF (j.ok /\ d.dead) \/ (~j.ok /\ ~d.dead) THEN broken ELSE u)
  BY <1>4 DEF MutationReceipt
<1>6. /\ u \in Nodes /\ SameRound(u, s) /\ u.jobs = s.jobs /\ u.done = s.done /\ u.dels = s.dels
      /\ u.ready = s.ready /\ u.accepted = s.accepted /\ u.applied = IF j.ok THEN j.n ELSE s.applied
  BY <1>1 DEF Good, Nodes, SameRound, Receipts
<1> HIDE DEF u
<1>7. Good(u)
  BY <1>1, <1>6, Aside
<1>8. Matched(u, k, 1)
  <2>0. 1 \in Nat
    OBVIOUS
  <2>1. LesserTail(u.dels, s.dels, k) /\ LesserJobs(u.jobs, s.jobs) /\ LesserReceipts(u.done, s.done)
    BY <1>1, <1>3, <1>6, <2>0, SameTail, SameReceipts
  <2> QED BY <1>1, <1>3, <2>0, <2>1, MatchedLess
<1>9. CASE (j.ok /\ d.dead) \/ (~j.ok /\ ~d.dead)
  <2>1. MutationReceipt(s, j) = DropFirstSubmitted(broken)
    BY <1>5, <1>9
  <2>2. Steady(DropFirstSubmitted(broken)) /\ Beside(DropFirstSubmitted(broken), u)
    BY <1>3, <1>7, <1>8, BrokenFollows
  <2> QED BY <1>1, <1>6, <2>1, <2>2 DEF Steady, Beside
<1>10. CASE ~ ((j.ok /\ d.dead) \/ (~j.ok /\ ~d.dead))
  <2> DEFINE t == DropFirstSubmitted(u)
             a == Len(s.done)
             b == Len(s.jobs)
             c == Len(s.dels)
  <2>1. MutationReceipt(s, j) = t
    BY <1>5, <1>10
  <2>2. /\ Matched(t, k - 1, 0) /\ Len(t.dels) = c - 1 /\ \A i \in 1 .. Len(t.dels) : t.dels[i] = s.dels[i + 1]
        /\ t.jobs = s.jobs /\ t.done = s.done /\ t.ready = s.ready /\ t.promo = s.promo
        /\ t.active = s.active /\ t.wm = s.wm /\ t.accepted = s.accepted /\ t.applied = u.applied
    BY <1>3, <1>6, <1>7, <1>8, DropTail DEF Beside, SameRound
  <2> HIDE DEF t, broken
  <2>3. a \in Nat /\ b \in Nat /\ c \in Nat /\ s.wm \in Nat /\ s.applied \in Nat /\ s.accepted \in Nat
    BY <1>1, Lists
  <2>4. k <= c /\ k - 1 \in Nat /\ k \in Nat
    <3>1. k <= c
      BY <1>3, MatchedBounds
    <3> QED BY <1>3, <3>1
  <2>5. Closing(t)
    <3>1. ASSUME NEW i \in 1 .. Len(t.done), Mine(t.done[i]), t.done[i].k = "PROMOTE"
          PROVE  i = Len(t.done) /\ Len(t.jobs) = 0
      <4>1. i + 1 \in 1 .. Len(r.done) /\ t.done[i] = r.done[i + 1]
        BY <1>1, <2>2
      <4>2. i + 1 = Len(r.done) /\ Len(r.jobs) = 0
        BY <3>1, <4>1 DEF Follows, Closing
      <4> QED BY <1>1, <2>2, <4>2
    <3>2. \A i \in 1 .. Len(t.jobs) : Mine(t.jobs[i]) /\ t.jobs[i].k = "PROMOTE" => i = Len(t.jobs)
      BY <1>1, <2>2 DEF Follows, Closing
    <3> QED BY <3>1, <3>2 DEF Closing
  <2>6. Streaming(t, k - 1)
    <3> SUFFICES ASSUME t.ready \/ t.promo = "done"
                 PROVE  /\ k - 1 = Len(t.dels) /\ k - 1 = Len(t.done) + Len(t.jobs) /\ t.accepted <= t.applied + (k - 1)
                        /\ \A i \in 1 .. k - 1 : /\ ~t.dels[i].dead /\ t.dels[i].n = t.applied + i
                                                 /\ t.dels[i].replay <=> t.promo = "done"
      BY DEF Streaming
    <3>1. /\ k = c /\ k = Len(r.done) + b /\ s.accepted <= s.applied + k
          /\ \A i \in 1 .. k : /\ ~s.dels[i].dead /\ s.dels[i].n = s.applied + i
                               /\ s.dels[i].replay <=> s.promo = "done"
      BY <1>1, <1>2, <2>2 DEF Streaming
    <3>2. 1 \in 1 .. k
      BY <1>3
    <3>3. j.ok /\ t.applied = s.applied + 1
      BY <1>1, <1>3, <1>6, <1>10, <2>2, <3>1, <3>2
    <3>4. k = a + 1 + b
      BY <1>1, <3>1
    <3> HIDE DEF a, b, c, d
    <3>5. k - 1 = c - 1 /\ k - 1 = a + b
      BY <2>3, <2>4, <3>1, <3>4
    <3>6. s.accepted <= s.applied + 1 + (k - 1)
      <4>1. \A x, y, z \in Nat : z >= 1 /\ x <= y + z => x <= y + 1 + (z - 1)
        OBVIOUS
      <4>2. s.accepted <= s.applied + k
        BY <3>1
      <4> QED BY <1>3, <2>3, <2>4, <4>1, <4>2
    <3>7. ASSUME NEW i \in 1 .. k - 1
          PROVE  /\ ~t.dels[i].dead /\ t.dels[i].n = t.applied + i
                 /\ t.dels[i].replay <=> t.promo = "done"
      <4>1. i + 1 \in 1 .. k /\ i \in Nat
        BY <2>4
      <4>2. i \in 1 .. c - 1
        BY <3>5
      <4>3. i \in 1 .. Len(t.dels)
        BY <2>2, <4>2 DEF c
      <4>4. \A x, y \in Nat : x + (y + 1) = x + 1 + y
        OBVIOUS
      <4>5. s.applied + (i + 1) = s.applied + 1 + i
        BY <2>3, <4>1, <4>4
      <4>6. t.dels[i] = s.dels[i + 1]
        BY <2>2, <4>3
      <4>7. /\ ~s.dels[i + 1].dead /\ s.dels[i + 1].n = s.applied + (i + 1)
            /\ s.dels[i + 1].replay <=> s.promo = "done"
        BY <3>1, <4>1
      <4>8. t.promo = s.promo /\ t.applied = s.applied + 1
        BY <2>2, <3>3
      <4> QED BY <4>5, <4>6, <4>7, <4>8
    <3> QED BY <2>2, <3>3, <3>5, <3>6, <3>7 DEF a, b
  <2>7. Importing(t, k - 1)
    <3> SUFFICES ASSUME t.active # 0, t.promo # "done"
                 PROVE  /\ t.accepted <= t.wm + (Len(t.dels) - (k - 1))
                        /\ \A i \in 1 .. k - 1 : t.dels[i].dead
                        /\ \A i \in k - 1 + 1 .. Len(t.dels) : t.dels[i].n = t.wm + (i - (k - 1))
      BY DEF Importing
    <3>1. /\ s.accepted <= s.wm + (c - k)
          /\ \A i \in 1 .. k : s.dels[i].dead
          /\ \A i \in k + 1 .. c : s.dels[i].n = s.wm + (i - k)
      BY <1>1, <1>2, <2>2 DEF Importing
    <3> HIDE DEF a, b, c, d
    <3>2. c - 1 - (k - 1) = c - k /\ k - 1 + 1 = k
      BY <2>3, <2>4
    <3>3. ASSUME NEW i \in 1 .. k - 1 PROVE t.dels[i].dead
      <4>1. i + 1 \in 1 .. k /\ i \in 1 .. c - 1
        BY <2>3, <2>4
      <4> QED BY <2>2, <3>1, <4>1
    <3>4. ASSUME NEW i \in k .. c - 1 PROVE t.dels[i].n = t.wm + (i - (k - 1))
      <4>1. i + 1 \in k + 1 .. c /\ i \in 1 .. c - 1 /\ i + 1 - k = i - (k - 1)
        BY <1>3, <2>3, <2>4
      <4> QED BY <2>2, <3>1, <4>1
    <3> QED BY <2>2, <3>1, <3>2, <3>3, <3>4
  <2>8. Follows(t)
    <3>1. t.ready => t.active = 0
      BY <1>1, <2>2 DEF Follows
    <3> QED BY <2>2, <2>4, <2>5, <2>6, <2>7, <3>1 DEF Follows
  <2> QED BY <1>1, <2>1, <2>2, <2>8
<1> QED BY <1>9, <1>10

\* When the receipt of a round is handled nothing of a mutation is at the writer, and the
\* node is not READY.
LEMMA RoundTaken ==
    ASSUME NEW r, Good(r), Follows(r), NEW s, NEW j, Taken(s, r, j), OfRound(j)
    PROVE  /\ j \in Receipts /\ Good(s) /\ Due(s, j) /\ s.accepted = r.accepted /\ ~s.ready /\ s.promo # "done"
           /\ Matched(s, 0, 0) /\ Importing(s, 0) /\ Follows(s)
           /\ Mine(j) /\ j.k = "PROMOTE" => Len(s.done) = 0 /\ Len(s.jobs) = 0
<1>1. /\ j \in Receipts /\ Good(s) /\ Due(s, j) /\ j = r.done[1] /\ s.jobs = r.jobs /\ s.dels = r.dels
      /\ s.ready = r.ready /\ s.applied = r.applied /\ s.accepted = r.accepted
      /\ s.active = r.active /\ s.wm = r.wm /\ s.promo = r.promo
      /\ Len(r.done) \in Nat /\ Len(s.done) \in Nat /\ Len(r.done) = Len(s.done) + 1
      /\ \A i \in 1 .. Len(s.done) : s.done[i] = r.done[i + 1]
  BY TakenGood DEF Taken, SameRound
<1>2. PICK k \in Nat : Matched(r, k, 0) /\ Streaming(r, k) /\ Importing(r, k)
  BY DEF Follows
<1>3. k = 0 /\ Matched(s, 0, 0)
  BY <1>2, TakenTail
<1>4. ~r.ready /\ r.promo # "done"
  <2>1. Len(r.jobs) \in Nat
    BY Lists
  <2>2. 0 # Len(r.done) + Len(r.jobs)
    <3>1. \A x, y \in Nat : 0 # x + 1 + y
      OBVIOUS
    <3> QED BY <1>1, <2>1, <3>1
  <2> QED BY <1>2, <1>3, <2>2 DEF Streaming
<1>5. Importing(s, 0)
  BY <1>1, <1>2, <1>3 DEF Importing
<1>6. Closing(s)
  <2>1. ASSUME NEW i \in 1 .. Len(s.done), Mine(s.done[i]), s.done[i].k = "PROMOTE"
        PROVE  i = Len(s.done) /\ Len(s.jobs) = 0
    <3>1. i + 1 \in 1 .. Len(r.done) /\ s.done[i] = r.done[i + 1]
      BY <1>1
    <3>2. i + 1 = Len(r.done) /\ Len(r.jobs) = 0
      BY <2>1, <3>1 DEF Follows, Closing
    <3> QED BY <1>1, <3>2
  <2>2. \A i \in 1 .. Len(s.jobs) : Mine(s.jobs[i]) /\ s.jobs[i].k = "PROMOTE" => i = Len(s.jobs)
    BY <1>1 DEF Follows, Closing
  <2> QED BY <2>1, <2>2 DEF Closing
<1>7. Follows(s)
  <2>1. Streaming(s, 0) /\ ~s.ready
    BY <1>1, <1>4 DEF Streaming
  <2> QED BY <1>3, <1>5, <1>6, <2>1 DEF Follows
<1>8. ASSUME Mine(j), j.k = "PROMOTE" PROVE Len(s.done) = 0 /\ Len(s.jobs) = 0
  <2>1. 1 \in 1 .. Len(r.done)
    BY <1>1
  <2>2. 1 = Len(r.done) /\ Len(r.jobs) = 0
    BY <1>1, <1>8, <2>1 DEF Follows, Closing
  <2> QED BY <1>1, <2>2
<1> QED BY <1>1, <1>3, <1>4, <1>5, <1>7, <1>8

\* A promotion makes the snapshot what is applied, and the tail follows it.
LEMMA PromotionFollows ==
    ASSUME NEW s, Good(s), NEW j \in Receipts, j.k = "PROMOTE", Due(s, j), ~s.ready, s.promo # "done",
           Matched(s, 0, 0), Importing(s, 0), Follows(s), Mine(j) => Len(s.done) = 0 /\ Len(s.jobs) = 0
    PROVE  Follows(PromotionReceipt(s, j)) /\ PromotionReceipt(s, j).accepted = s.accepted
<1> DEFINE v == [s EXCEPT !.applied = j.n]
           u == [v EXCEPT !.promo = "done"]
           t == [v EXCEPT !.ready = FALSE]
<1>1. /\ v \in Nodes /\ SameRound(v, s) /\ v.jobs = s.jobs /\ v.done = s.done /\ v.dels = s.dels
      /\ v.applied = j.n /\ v.accepted = s.accepted /\ v.ready = s.ready
  BY DEF Good, Nodes, SameRound, Receipts
<1>0. PromotionReceipt(s, j) = IF j.mine THEN Pump(u) ELSE IF t.active # 0 /\ t.active = j.id THEN Abort(t, TRUE) ELSE t
  BY DEF PromotionReceipt
<1> HIDE DEF v
<1>2. Good(v) /\ (Free(s) => Free(v))
  BY <1>1, Aside
<1>3. CASE j.mine
  <2>1. Free(v) /\ s.promo = "asked" /\ s.active # 0 /\ j.n = s.wm /\ Mine(j)
    BY <1>1, <1>2, <1>3 DEF Due, Mine, OfRound, Asked
  <2>2. /\ u \in Nodes /\ u.promo = "done" /\ u.jobs = v.jobs /\ u.done = v.done /\ u.root = v.root
        /\ u.stage = v.stage /\ u.wm = v.wm /\ u.spec = v.spec /\ u.inv = v.inv /\ u.pend = v.pend
        /\ u.durable = v.durable /\ u.active = v.active /\ u.dels = v.dels /\ u.ready = v.ready
        /\ u.applied = v.applied /\ u.accepted = v.accepted
    BY <1>1 DEF Nodes
  <2> HIDE DEF u
  <2>3. v.promo = "asked" /\ v.active # 0
    BY <1>1, <2>1 DEF SameRound
  <2>4. Masks(u)
    BY <1>2, <2>2, <2>3 DEF Good, Masks
  <2>5. Good(u)
    BY <1>2, <2>1, <2>2, <2>3, <2>4, Settles
  <2>6. Matched(u, 0, 0)
    <3>1. LesserTail(u.dels, s.dels, 0) /\ LesserJobs(u.jobs, s.jobs) /\ LesserReceipts(u.done, s.done)
      BY <1>1, <2>2, SameTail, SameReceipts
    <3> QED BY <3>1, MatchedLess
  <2>7. Ripe(u, 0)
    <3>1. u.dels = s.dels /\ u.applied = s.wm /\ u.accepted = s.accepted /\ Len(u.done) = 0 /\ Len(u.jobs) = 0
      BY <1>1, <2>1, <2>2
    <3>2. s.active # 0 /\ s.promo # "done"
      BY <2>1
    <3>3. /\ s.accepted <= s.wm + (Len(s.dels) - 0)
          /\ \A i \in 0 + 1 .. Len(s.dels) : s.dels[i].n = s.wm + (i - 0)
      BY <3>2 DEF Importing
    <3>4. Len(s.dels) \in Nat
      BY Lists
    <3>5. 0 + 1 = 1 /\ Len(s.dels) - 0 = Len(s.dels) /\ \A i \in 1 .. Len(s.dels) : i - 0 = i
      BY <3>4
    <3>6. \A i \in 0 + 1 .. Len(s.dels) : ~s.dels[i].sub /\ s.dels[i].replay /\ ~s.dels[i].dead
      BY DEF Matched
    <3>7. \A i \in 1 .. Len(s.dels) : ~s.dels[i].dead /\ s.dels[i].replay /\ s.dels[i].n = s.wm + i
      BY <3>3, <3>5, <3>6
    <3>8. 0 = 0 + 0
      OBVIOUS
    <3> QED BY <2>6, <3>1, <3>3, <3>5, <3>7, <3>8 DEF Ripe
  <2>8. Steady(Pump(u)) /\ Beside(Pump(u), u)
    BY <1>1, <2>2, <2>3, <2>5, <2>7, PumpRipe
  <2>9. PromotionReceipt(s, j) = Pump(u)
    BY <1>0, <1>3
  <2> QED BY <1>1, <2>2, <2>8, <2>9 DEF Steady, Beside
<1>4. CASE ~j.mine
  <2>1. /\ t \in Nodes /\ SameRound(t, v) /\ t.jobs = v.jobs /\ t.done = v.done /\ t.dels = v.dels
        /\ ~t.ready /\ t.accepted = v.accepted
    BY <1>1 DEF Nodes, SameRound
  <2>2. PromotionReceipt(s, j) \in {Abort(t, TRUE), t}
    BY <1>0, <1>4
  <2> HIDE DEF t
  <2>3. Good(t)
    BY <1>2, <2>1, Aside
  <2>4. /\ t.dels = s.dels /\ t.jobs = s.jobs /\ t.done = s.done /\ t.accepted = s.accepted
        /\ t.active = s.active /\ t.wm = s.wm /\ t.promo = s.promo
    BY <1>1, <2>1 DEF SameRound
  <2>5. LesserTail(t.dels, s.dels, 0) /\ LesserJobs(t.jobs, s.jobs) /\ LesserReceipts(t.done, s.done)
    BY <2>4, SameTail, SameReceipts
  <2>6. Matched(t, 0, 0)
    BY <2>5, MatchedLess
  <2>7. CASE PromotionReceipt(s, j) = Abort(t, TRUE)
    <3> DEFINE x == Abort(t, TRUE)
    <3>1. Steady(x) /\ Beside(x, t)
      BY <2>1, <2>3, <2>6, AbortStops
    <3> HIDE DEF x
    <3> QED BY <2>4, <2>7, <3>1 DEF Steady, Beside, x
  <2>8. CASE PromotionReceipt(s, j) = t
    <3>1. Closing(t)
      BY <2>5, ClosingLess DEF Follows
    <3>2. Streaming(t, 0) /\ Importing(t, 0)
      BY <2>1, <2>4, <2>8 DEF Streaming, Importing
    <3> QED BY <2>1, <2>4, <2>6, <2>8, <3>1, <3>2 DEF Follows
  <2> QED BY <2>2, <2>7, <2>8
<1> QED BY <1>3, <1>4

\* What a receipt of the round makes of the node leaves it in step.
LEMMA RoundReceiptFollows ==
    ASSUME NEW r, Good(r), Follows(r), NEW s, NEW j, Taken(s, r, j), OfRound(j)
    PROVE  Follows(RoundReceipt(s, j)) /\ RoundReceipt(s, j).accepted = r.accepted
<1>1. /\ j \in Receipts /\ Good(s) /\ Due(s, j) /\ s.accepted = r.accepted /\ ~s.ready /\ s.promo # "done"
      /\ Matched(s, 0, 0) /\ Importing(s, 0) /\ Follows(s)
      /\ Mine(j) /\ j.k = "PROMOTE" => Len(s.done) = 0 /\ Len(s.jobs) = 0
  BY RoundTaken
<1>2. CASE j.k = "PROMOTE" /\ j.ok
  <2> DEFINE x == PromotionReceipt(s, j)
  <2>1. RoundReceipt(s, j) = x
    BY <1>2 DEF RoundReceipt
  <2>2. Follows(x) /\ x.accepted = s.accepted
    BY <1>1, <1>2, PromotionFollows
  <2> HIDE DEF x
  <2> QED BY <1>1, <2>1, <2>2
<1>3. CASE ~ (j.k = "PROMOTE" /\ j.ok) /\ (~j.mine \/ ~j.ok)
  <2> DEFINE x == Abort(s, TRUE)
  <2>1. RoundReceipt(s, j) \in {s, x}
    BY <1>3 DEF RoundReceipt
  <2>2. Steady(x) /\ Beside(x, s)
    BY <1>1, AbortFollows
  <2> HIDE DEF x
  <2> QED BY <1>1, <2>1, <2>2 DEF Steady, Beside
<1>4. CASE j.k # "PROMOTE" /\ j.mine /\ j.ok
  <2> DEFINE v == [s EXCEPT !.durable = @ \cup {j.b}, !.pend = @ \ {j.b}]
             f == [m |-> "ACK", id |-> j.id, b |-> j.b, w |-> j.n, d |-> j.d]
             x == IF j.k = "REUSE" THEN v ELSE Send(v, f)
  <2>1. RoundReceipt(s, j) = Check(x)
    BY <1>4 DEF RoundReceipt
  <2>2. Asked(s, j) /\ s.stage[j.b] = Content(j.b, s.wm) /\ j.b \in s.inv
    BY <1>1, <1>4 DEF Due, Mine, Asked
  <2>3. s \in Nodes /\ j.b \in Blocks /\ f \in Replies
    BY <1>1 DEF Good, Receipts, Replies
  <2> HIDE DEF f
  <2>4. /\ v \in Nodes /\ v.durable = s.durable \cup {j.b} /\ v.pend = s.pend \ {j.b}
        /\ v.jobs = s.jobs /\ v.done = s.done /\ v.root = s.root /\ v.dels = s.dels
        /\ v.stage = s.stage /\ v.wm = s.wm /\ v.spec = s.spec /\ v.inv = s.inv /\ v.promo = s.promo
        /\ v.active = s.active /\ v.ready = s.ready /\ Beside(v, s)
    BY <2>3 DEF Nodes, Beside
  <2> HIDE DEF v
  <2>5. Masks(v)
    BY <1>1, <2>2, <2>3, <2>4 DEF Good, Masks, Asked
  <2>6. \A y : Asked(s, y) => Asked(v, y)
    BY <2>4 DEF Asked
  <2>7. Good(v)
    BY <1>1, <2>4, <2>5, <2>6, Grows
  <2>8. Follows(v)
    BY <1>1, <2>4, AsideFollows
  <2>9. Good(x)
    BY <2>3, <2>7, SendGood
  <2>10. Follows(x) /\ Beside(x, v)
    BY <2>7, <2>8, SendFollows DEF Beside
  <2> HIDE DEF x
  <2>11. Follows(Check(x)) /\ Beside(Check(x), x)
    BY <2>9, <2>10, CheckFollows
  <2> QED BY <1>1, <2>1, <2>4, <2>10, <2>11 DEF Beside
<1> QED BY <1>2, <1>3, <1>4

LEMMA ReceiptFollows ==
    ASSUME NEW r, Good(r), Follows(r)
    PROVE  Follows(Receipt(r)) /\ Receipt(r).accepted = r.accepted
<1> DEFINE j == Head(r.done)
           s == [r EXCEPT !.done = Tail(@)]
<1> SUFFICES ASSUME r.done # <<>> PROVE Follows(Receipt(r)) /\ Receipt(r).accepted = r.accepted
  BY DEF Receipt
<1>1. Taken(s, r, j)
  BY DEF Taken
<1>2. Receipt(r) = IF OfRound(j) THEN RoundReceipt(s, j) ELSE MutationReceipt(s, j)
  BY DEF Receipt
<1> HIDE DEF s, j
<1> QED BY <1>1, <1>2, RoundReceiptFollows, MutationReceiptFollows

\* A turn of the completion event leaves the node in step, with its tail under way.
LEMMA CompletionsFollows ==
    ASSUME NEW r, Good(r), Follows(r)
    PROVE  Steady(Completions(r)) /\ Completions(r).accepted = r.accepted
<1> DEFINE a == AfterBy(r)
           Fine == {n \in Nat : n <= Len(r.done) => Good(a[n]) /\ Follows(a[n]) /\ a[n].accepted = r.accepted}
<1>1. /\ Len(r.done) \in Nat /\ Completions(r) = Pump(a[Len(r.done)]) /\ a[0] = r
      /\ \A n \in Nat : n + 1 <= Len(r.done) => a[n + 1] = Receipt(a[n])
  BY AfterUnfolds
<1> HIDE DEF a
<1>2. 0 \in Fine
  BY <1>1
<1>3. ASSUME NEW n \in Nat, n \in Fine PROVE n + 1 \in Fine
  <2> SUFFICES ASSUME n + 1 <= Len(r.done)
               PROVE  Good(a[n + 1]) /\ Follows(a[n + 1]) /\ a[n + 1].accepted = r.accepted
    OBVIOUS
  <2>1. Good(a[n]) /\ Follows(a[n]) /\ a[n].accepted = r.accepted
    BY <1>1, <1>3
  <2>2. a[n + 1] = Receipt(a[n])
    BY <1>1
  <2> QED BY <2>1, <2>2, ReceiptGood, ReceiptFollows
<1>4. Good(a[Len(r.done)]) /\ Follows(a[Len(r.done)]) /\ a[Len(r.done)].accepted = r.accepted
  <2> HIDE DEF Fine
  <2>1. Nat \subseteq Fine
    BY <1>2, <1>3, Induction
  <2>2. Len(r.done) \in Fine
    BY <1>1, <2>1
  <2> QED BY <1>1, <2>2 DEF Fine
<1> QED BY <1>1, <1>4, PumpFollows DEF Beside

\* s is r after the writer's next job, whose receipt is x.
Moved(s, r, x) ==
    /\ r.jobs # <<>> /\ x \in Receipts
    /\ x.k = Head(r.jobs).k /\ x.n = Head(r.jobs).n /\ x.mine = Head(r.jobs).mine
    /\ s.jobs = Tail(r.jobs) /\ s.done = Append(r.done, x) /\ s.dels = r.dels
    /\ s.ready = r.ready /\ s.promo = r.promo /\ s.active = r.active /\ s.wm = r.wm /\ Beside(s, r)

\* What the writer has keeps its place when a job becomes a receipt.
LEMMA MovedFollows ==
    ASSUME NEW r, Good(r), Steady(r), NEW s, NEW x, Moved(s, r, x)
    PROVE  Steady(s)
<1>1. r.jobs \in Seq(Jobs) /\ r.done \in Seq(Receipts)
  BY DEF Good, Nodes
<1> DEFINE a == Len(r.done)
           b == Len(s.jobs)
           h == r.jobs[1]
<1>2. /\ Len(r.jobs) = b + 1 /\ b \in Nat /\ 1 \in 1 .. Len(r.jobs) /\ h = Head(r.jobs)
      /\ \A i \in 1 .. b : s.jobs[i] = r.jobs[i + 1]
  <2>1. s.jobs = Tail(r.jobs) /\ r.jobs # <<>>
    BY DEF Moved
  <2>2. Head(r.jobs) = r.jobs[1] /\ Len(s.jobs) = Len(r.jobs) - 1
    BY <1>1, <2>1, HeadTailProperties
  <2>3. Len(r.jobs) \in Nat /\ Len(r.jobs) # 0
    BY <1>1, <2>1, LenProperties, EmptySeq
  <2>4. \A i \in 1 .. Len(s.jobs) : s.jobs[i] = r.jobs[i + 1]
    BY <1>1, <2>1, <2>2, HeadTailProperties
  <2> QED BY <2>2, <2>3, <2>4
<1>3. /\ a \in Nat /\ Len(s.done) = a + 1 /\ s.done[a + 1] = x
      /\ \A i \in 1 .. a : s.done[i] = r.done[i]
  BY <1>1, AppendProperties, LenProperties DEF Moved
<1>4. /\ x.k = h.k /\ x.n = h.n /\ (OfRound(x) <=> OfRound(h)) /\ (Mine(x) <=> Mine(h))
      /\ s.dels = r.dels /\ s.ready = r.ready /\ s.promo = r.promo /\ s.active = r.active /\ s.wm = r.wm
      /\ s.applied = r.applied /\ s.accepted = r.accepted
  BY <1>2 DEF Moved, Mine, OfRound, Beside
<1>5. PICK k \in Nat : Matched(r, k, 0) /\ Streaming(r, k) /\ Importing(r, k)
  BY DEF Steady, Follows
<1>6. /\ k <= Len(r.dels) /\ k <= a + (b + 1) + 0
      /\ \A i \in 1 .. k : s.dels[i].sub
      /\ \A i \in k + 1 .. Len(s.dels) : ~s.dels[i].sub /\ s.dels[i].replay /\ ~s.dels[i].dead
      /\ \A i \in 1 .. a : (OfRound(r.done[i]) <=> i + 0 > k) /\ (i + 0 <= k => r.done[i].n = s.dels[i + 0].n)
      /\ \A i \in 1 .. b + 1 : /\ OfRound(r.jobs[i]) <=> a + i + 0 > k
                               /\ a + i + 0 <= k => r.jobs[i].n = s.dels[a + i + 0].n
  BY <1>2, <1>4, <1>5 DEF Matched
<1>7. Closing(s)
  <2>1. ASSUME NEW i \in 1 .. Len(s.done), Mine(s.done[i]), s.done[i].k = "PROMOTE"
        PROVE  i = Len(s.done) /\ Len(s.jobs) = 0
    <3>1. CASE i = a + 1
      <4>1. Mine(r.jobs[1]) /\ r.jobs[1].k = "PROMOTE"
        BY <1>3, <1>4, <2>1, <3>1
      <4>2. 1 = Len(r.jobs)
        BY <1>2, <4>1 DEF Steady, Follows, Closing
      <4> QED BY <1>2, <1>3, <3>1, <4>2
    <3>2. CASE i # a + 1
      <4>1. i \in 1 .. a /\ s.done[i] = r.done[i]
        BY <1>3, <3>2
      <4>2. Len(r.jobs) = 0
        BY <2>1, <4>1 DEF Steady, Follows, Closing
      <4> QED BY <1>2, <4>2
    <3> QED BY <3>1, <3>2
  <2>2. ASSUME NEW i \in 1 .. Len(s.jobs), Mine(s.jobs[i]), s.jobs[i].k = "PROMOTE" PROVE i = Len(s.jobs)
    <3>1. i + 1 \in 1 .. Len(r.jobs) /\ s.jobs[i] = r.jobs[i + 1]
      BY <1>2
    <3>2. i + 1 = Len(r.jobs)
      BY <2>2, <3>1 DEF Steady, Follows, Closing
    <3> QED BY <1>2, <3>2
  <2> QED BY <2>1, <2>2 DEF Closing
<1>8. Len(s.done) + Len(s.jobs) = Len(r.done) + Len(r.jobs)
  <2>1. \A y, z \in Nat : y + 1 + z = y + (z + 1)
    OBVIOUS
  <2> QED BY <1>2, <1>3, <2>1
<1>9. Streaming(s, k) /\ Importing(s, k)
  BY <1>4, <1>5, <1>8 DEF Streaming, Importing
<1>10. ASSUME NEW i \in 1 .. Len(s.done)
       PROVE  /\ OfRound(s.done[i]) <=> i + 0 > k
              /\ i + 0 <= k => s.done[i].n = s.dels[i + 0].n
  <2>1. CASE i = a + 1
    <3>1. 1 \in 1 .. b + 1
      BY <1>2
    <3>2. a + 1 + 0 = i + 0
      BY <2>1
    <3>3. (OfRound(h) <=> a + 1 + 0 > k) /\ (a + 1 + 0 <= k => h.n = s.dels[a + 1 + 0].n)
      BY <1>6, <3>1
    <3>4. s.done[i] = x
      BY <1>3, <2>1
    <3> HIDE DEF a, b, h
    <3> QED BY <1>4, <3>2, <3>3, <3>4
  <2>2. CASE i # a + 1
    <3>1. i \in 1 .. a /\ s.done[i] = r.done[i]
      BY <1>3, <2>2
    <3> QED BY <1>6, <3>1
  <2> QED BY <2>1, <2>2
<1>11. ASSUME NEW i \in 1 .. Len(s.jobs)
       PROVE  /\ OfRound(s.jobs[i]) <=> Len(s.done) + i + 0 > k
              /\ Len(s.done) + i + 0 <= k => s.jobs[i].n = s.dels[Len(s.done) + i + 0].n
  <2>1. i + 1 \in 1 .. b + 1 /\ s.jobs[i] = r.jobs[i + 1]
    BY <1>2
  <2>2. Len(s.done) + i + 0 = a + (i + 1) + 0
    <3>1. \A y, z \in Nat : y + 1 + z + 0 = y + (z + 1) + 0
      OBVIOUS
    <3> QED BY <1>3, <3>1
  <2>3. /\ OfRound(r.jobs[i + 1]) <=> a + (i + 1) + 0 > k
        /\ a + (i + 1) + 0 <= k => r.jobs[i + 1].n = s.dels[a + (i + 1) + 0].n
    BY <1>6, <2>1
  <2> HIDE DEF a, b, h
  <2> QED BY <2>1, <2>2, <2>3
<1>12. k <= Len(s.dels) /\ k <= Len(s.done) + Len(s.jobs) + 0
  BY <1>2, <1>4, <1>6, <1>8
<1>13. Matched(s, k, 0)
  BY <1>6, <1>10, <1>11, <1>12 DEF Matched
<1>14. (s.ready => s.active = 0) /\ Settled(s)
  BY <1>4 DEF Steady, Follows, Settled
<1> QED BY <1>7, <1>9, <1>13, <1>14 DEF Steady, Follows

LEMMA FailedFollows ==
    ASSUME NEW r, Good(r), Steady(r), r.jobs # <<>>
    PROVE  LET s == [r EXCEPT !.jobs = Tail(@), !.done = Append(@, Receipted(Head(r.jobs), FALSE))]
           IN  Steady(s) /\ Beside(s, r)
<1> DEFINE x == Receipted(Head(r.jobs), FALSE)
           s == [r EXCEPT !.jobs = Tail(@), !.done = Append(@, x)]
<1>1. x \in Receipts /\ x.k = Head(r.jobs).k /\ x.n = Head(r.jobs).n /\ x.mine = Head(r.jobs).mine
  BY Receipting
<1> HIDE DEF x
<1>2. Moved(s, r, x)
  BY <1>1 DEF Moved, Good, Nodes, Beside
<1> HIDE DEF s
<1>3. Steady(s) /\ Beside(s, r)
  BY <1>2, MovedFollows DEF Moved
<1> QED BY <1>3 DEF s, x

LEMMA WrittenFollows ==
    ASSUME NEW r, Good(r), Steady(r), r.jobs # <<>>
    PROVE  LET s == [Executed(r, Head(r.jobs)) EXCEPT !.jobs = Tail(@),
                                                      !.done = Append(@, Receipted(Head(r.jobs), TRUE))]
           IN  Steady(s) /\ Beside(s, r)
<1> DEFINE j == Head(r.jobs)
           x == Receipted(j, TRUE)
           e == Executed(r, j)
           s == [e EXCEPT !.jobs = Tail(@), !.done = Append(@, x)]
<1>1. x \in Receipts /\ x.k = j.k /\ x.n = j.n /\ x.mine = j.mine
  BY Receipting
<1>2. \E root, stage : e = [r EXCEPT !.root = root, !.stage = stage]
  <2>1. r = [r EXCEPT !.root = r.root] /\ r = [r EXCEPT !.stage = r.stage]
    BY DEF Good, Nodes
  <2> DEFINE root == [seq |-> j.n, blocks |-> [r.root.blocks EXCEPT ![j.b] = j.n]]
             next == [seq |-> j.n, blocks |-> r.stage]
             stage == [r.stage EXCEPT ![j.b] = j.d]
  <2>2. \/ e = [r EXCEPT !.root = root]
        \/ e = [r EXCEPT !.root = next]
        \/ e = [r EXCEPT !.stage = stage]
    BY DEF Executed
  <2> HIDE DEF root, next, stage, e
  <2>3. \/ e = [r EXCEPT !.root = root, !.stage = r.stage]
        \/ e = [r EXCEPT !.root = next, !.stage = r.stage]
        \/ e = [r EXCEPT !.root = r.root, !.stage = stage]
    BY <2>2 DEF Good, Nodes
  <2> QED BY <2>3
<1>3. PICK root, stage : e = [r EXCEPT !.root = root, !.stage = stage]
  BY <1>2
<1> HIDE DEF x, e
<1>4. /\ s.jobs = Tail(r.jobs) /\ s.done = Append(r.done, x) /\ s.dels = r.dels
      /\ s.ready = r.ready /\ s.promo = r.promo /\ s.active = r.active /\ s.wm = r.wm /\ Beside(s, r)
  BY <1>3 DEF Good, Nodes, Beside
<1>5. Moved(s, r, x)
  BY <1>1, <1>4 DEF Moved
<1> HIDE DEF s
<1>6. Steady(s) /\ Beside(s, r)
  BY <1>4, <1>5, MovedFollows
<1> QED BY <1>6 DEF s, x, e, j

-----------------------------------------------------------------------------
(* What is under way, and the node's own progress.                            *)

\* Of the frames d, given how far the replica has accepted and the authority has relayed:
\* an inventory covers all that was relayed before it.
Ordered(accepted, relayed, d) ==
    /\ accepted <= relayed
    /\ \A i \in 1 .. Len(d) : d[i].m = "INF" => accepted <= d[i].w
    /\ \A i \in 1 .. Len(d) : d[i].m = "INS" => d[i].n <= relayed
    /\ \A i, j \in 1 .. Len(d) : i < j /\ d[i].m = "INS" /\ d[j].m = "INF" => d[i].n <= d[j].w

\* A frame that may be sent when n is relayed.
Current(f, n) == (f.m = "INF" => n <= f.w) /\ (f.m = "INS" => f.n <= n)

LEMMA FrameNumbers ==
    ASSUME NEW f \in Frames
    PROVE  (f.m = "INF" => f.w \in Nat) /\ (f.m = "INS" => f.n \in Nat)
<1>1. Sound(f) /\ MaxSeq \in Nat
  BY FramesSound, Stream
<1>2. f.m = "INF" => f.w \in 0 .. MaxSeq
  BY <1>1 DEF Sound, Told
<1>3. f.m = "INS" => f.n \in 1 .. MaxSeq
  BY <1>1 DEF Sound
<1> QED BY <1>1, <1>2, <1>3

LEMMA OrderedSends ==
    ASSUME NEW d \in Seq(Frames), NEW frames \in Seq(Frames), NEW x \in Nat, NEW y \in Nat, NEW z \in Nat,
           Ordered(x, y, d), y <= z, \A i \in 1 .. Len(frames) : Current(frames[i], z)
    PROVE  Ordered(x, z, d \o frames)
<1> DEFINE e == d \o frames
           a == Len(d)
           b == Len(frames)
<1>1. /\ a \in Nat /\ b \in Nat /\ e \in Seq(Frames) /\ Len(e) = a + b
      /\ \A i \in 1 .. a + b : e[i] = IF i <= a THEN d[i] ELSE frames[i - a]
  BY ConcatProperties, LenProperties
<1>2. \A i \in 1 .. a : d[i] \in Frames
  BY ElementOfSeq
<1>3. \A i \in 1 .. b : frames[i] \in Frames
  BY ElementOfSeq
<1>4. /\ x <= y
      /\ \A i \in 1 .. a : d[i].m = "INF" => x <= d[i].w
      /\ \A i \in 1 .. a : d[i].m = "INS" => d[i].n <= y
      /\ \A i, j \in 1 .. a : i < j /\ d[i].m = "INS" /\ d[j].m = "INF" => d[i].n <= d[j].w
  BY DEF Ordered
<1> HIDE DEF e, a, b
<1>5. ASSUME NEW i \in 1 .. a + b
      PROVE  \/ i \in 1 .. a /\ e[i] = d[i]
             \/ i > a /\ i - a \in 1 .. b /\ e[i] = frames[i - a]
  <2>1. i <= a => i \in 1 .. a
    BY <1>1
  <2>2. ~ (i <= a) => i > a /\ i - a \in 1 .. b
    BY <1>1
  <2> QED BY <1>1, <2>1, <2>2
<1>6. \A i \in 1 .. b : Current(frames[i], z)
  BY DEF b
<1>7. ASSUME NEW i \in 1 .. a + b
      PROVE  /\ e[i].m = "INF" => x <= e[i].w /\ (i > a => z <= e[i].w) /\ e[i].w \in Nat
             /\ e[i].m = "INS" => e[i].n <= z /\ (i <= a => e[i].n <= y) /\ e[i].n \in Nat
  <2>1. CASE i \in 1 .. a /\ e[i] = d[i]
    <3>1. ~ (i > a) /\ d[i] \in Frames
      BY <1>1, <1>2, <2>1
    <3> QED BY <1>4, <2>1, <3>1, FrameNumbers
  <2>2. CASE i > a /\ i - a \in 1 .. b /\ e[i] = frames[i - a]
    <3>1. ~ (i <= a) /\ Current(e[i], z) /\ e[i] \in Frames
      BY <1>1, <1>3, <1>6, <2>2
    <3>2. (e[i].m = "INF" => e[i].w \in Nat) /\ (e[i].m = "INS" => e[i].n \in Nat)
      BY <3>1, FrameNumbers
    <3>3. e[i].m = "INF" => z <= e[i].w /\ x <= e[i].w
      BY <1>4, <3>1, <3>2 DEF Current
    <3>4. e[i].m = "INS" => e[i].n <= z
      BY <3>1 DEF Current
    <3> QED BY <3>1, <3>2, <3>3, <3>4
  <2> QED BY <1>5, <2>1, <2>2
<1>8. ASSUME NEW i \in 1 .. a + b, NEW j \in 1 .. a + b, i < j, e[i].m = "INS", e[j].m = "INF"
      PROVE  e[i].n <= e[j].w
  <2>1. CASE j > a
    <3>1. e[i].n <= z /\ z <= e[j].w /\ e[i].n \in Nat /\ e[j].w \in Nat
      BY <1>7, <1>8, <2>1
    <3> QED BY <3>1
  <2>2. CASE ~ (j > a)
    <3>1. i \in 1 .. a /\ j \in 1 .. a /\ ~ (i > a)
      BY <1>1, <1>8, <2>2
    <3>2. e[i] = d[i] /\ e[j] = d[j]
      BY <1>5, <2>2, <3>1
    <3> QED BY <1>4, <1>8, <3>1, <3>2
  <2> QED BY <2>1, <2>2
<1>9. x <= z
  BY <1>4
<1>10. Len(e) = a + b
  BY <1>1
<1> QED BY <1>7, <1>8, <1>9, <1>10 DEF Ordered, e

\* What the replica has heard leaves the frames.
LEMMA OrderedTail ==
    ASSUME NEW d \in Seq(Frames), d # <<>>, NEW x, NEW y, Ordered(x, y, d), NEW z,
           z = x \/ (Head(d).m = "INS" /\ z = Head(d).n)
    PROVE  Ordered(z, y, Tail(d)) /\ (Head(d).m = "INF" => x <= Head(d).w)
<1> DEFINE e == Tail(d)
<1>1. /\ Len(d) \in Nat /\ Len(e) = Len(d) - 1 /\ 1 \in 1 .. Len(d) /\ Head(d) = d[1]
      /\ \A i \in 1 .. Len(e) : e[i] = d[i + 1]
  <2>1. Head(d) = d[1] /\ Len(e) = Len(d) - 1
    BY HeadTailProperties
  <2>2. Len(d) \in Nat /\ Len(d) # 0
    BY LenProperties, EmptySeq
  <2>3. \A i \in 1 .. Len(e) : e[i] = d[i + 1]
    BY <2>1, HeadTailProperties
  <2> QED BY <2>1, <2>2, <2>3
<1>2. /\ x <= y
      /\ \A i \in 1 .. Len(d) : d[i].m = "INF" => x <= d[i].w
      /\ \A i \in 1 .. Len(d) : d[i].m = "INS" => d[i].n <= y
      /\ \A i, j \in 1 .. Len(d) : i < j /\ d[i].m = "INS" /\ d[j].m = "INF" => d[i].n <= d[j].w
  BY DEF Ordered
<1> HIDE DEF e
<1>3. \A i \in 1 .. Len(e) : i + 1 \in 1 .. Len(d) /\ 1 < i + 1 /\ e[i] = d[i + 1]
  BY <1>1
<1>4. z <= y
  BY <1>1, <1>2
<1>5. \A i \in 1 .. Len(e) : e[i].m = "INF" => z <= e[i].w
  BY <1>1, <1>2, <1>3
<1>6. \A i \in 1 .. Len(e) : e[i].m = "INS" => e[i].n <= y
  BY <1>2, <1>3
<1>7. ASSUME NEW i \in 1 .. Len(e), NEW j \in 1 .. Len(e), i < j, e[i].m = "INS", e[j].m = "INF"
      PROVE  e[i].n <= e[j].w
  <2>1. i + 1 < j + 1
    BY <1>7
  <2> QED BY <1>2, <1>3, <1>7, <2>1
<1> QED BY <1>1, <1>2, <1>4, <1>5, <1>6, <1>7 DEF Ordered, e

\* An inventory is of all the authority has, and so of all it relayed.
LEMMA InventoryCurrent ==
    ASSUME NEW id \in Nat \ {0}, NEW n \in 0 .. MaxSeq, NEW m, m <= n
    PROVE  /\ \A i \in 1 .. Len(Inventory(id, n)) : Current(Inventory(id, n)[i], m)
           /\ \A i \in 1 .. Len(Manifest(id, n)) : Current(Manifest(id, n)[i], m)
<1> DEFINE c == Cardinality(Blocks)
           order == CHOOSE s \in Ascending(Blocks) : TRUE
           infs == [i \in 1 .. c |-> Inf(id, n, order[i])]
           all == [i \in 1 .. 2 * Len(infs) |->
                     IF i % 2 = 1 THEN ManifestAck(infs[(i + 1) \div 2]) ELSE infs[i \div 2]]
<1>1. Inventory(id, n) = infs /\ Manifest(id, n) = all
  BY DEF Inventory, Manifest
<1>2. c \in Nat
  BY SyncAssumption, FS_CardinalityType
<1> HIDE DEF c, order
<1>3. \A b : Current(Inf(id, n, b), m) /\ Current(ManifestAck(Inf(id, n, b)), m)
  BY DEF Current, Inf, ManifestAck
<1>4. \A i \in 1 .. c : Current(infs[i], m) /\ Current(ManifestAck(infs[i]), m)
  BY <1>3
<1>5. Len(infs) = c /\ Len(infs) \in Nat
  <2>1. infs \in Seq(Frames) /\ Len(infs) \in Nat
    BY <1>1, InventoryFrames
  <2>2. DOMAIN infs = 1 .. Len(infs) /\ DOMAIN infs = 1 .. c
    BY <2>1, LenProperties
  <2>3. \A y, z \in Nat : 1 .. y = 1 .. z => y = z
    OBVIOUS
  <2> HIDE DEF infs
  <2> QED BY <1>2, <2>1, <2>2, <2>3
<1> HIDE DEF infs
<1>6. ASSUME NEW i \in 1 .. 2 * Len(infs) PROVE Current(all[i], m)
  <2> DEFINE z == Len(infs)
  <2>0. z \in Nat /\ i \in 1 .. 2 * z
    BY <1>5
  <2> HIDE DEF z
  <2>1. i % 2 = 1 => (i + 1) \div 2 \in 1 .. z
    BY <2>0
  <2>2. i % 2 # 1 => i \div 2 \in 1 .. z
    BY <2>0
  <2>3. z = c
    BY <1>5 DEF z
  <2>4. all[i] = IF i % 2 = 1 THEN ManifestAck(infs[(i + 1) \div 2]) ELSE infs[i \div 2]
    BY <2>0 DEF z
  <2> QED BY <1>4, <2>1, <2>2, <2>3, <2>4
<1>7. Len(all) = 2 * Len(infs)
  <2>1. all \in Seq(Frames)
    BY <1>1, ManifestFrames
  <2>2. DOMAIN all = 1 .. Len(all) /\ Len(all) \in Nat /\ DOMAIN all = 1 .. 2 * Len(infs) /\ 2 * Len(infs) \in Nat
    BY <1>5, <2>1, LenProperties
  <2>3. \A y, z \in Nat : 1 .. y = 1 .. z => y = z
    OBVIOUS
  <2> HIDE DEF all
  <2> QED BY <2>2, <2>3
<1> HIDE DEF all
<1> QED BY <1>1, <1>4, <1>5, <1>6, <1>7

\* What a step of the authority sends: nothing, or what it may send then.
Tells ==
    /\ node' = node /\ auth'.relayed \in Nat /\ auth.relayed <= auth'.relayed
    /\ \/ down' = down
       \/ \E frames \in Seq(Frames) :
             down' = down \o frames /\ \A i \in 1 .. Len(frames) : Current(frames[i], auth'.relayed)

\* One frame that is neither a mutation nor part of an inventory.
LEMMA OtherFrame ==
    ASSUME NEW f \in Frames, NEW n, Current(f, n)
    PROVE  <<f>> \in Seq(Frames) /\ \A i \in 1 .. Len(<<f>>) : Current(<<f>>[i], n)
OBVIOUS

LEMMA AnswersTell ==
    ASSUME NEW a, NEW frames \in Seq(Frames), Answers(a, frames), a.relayed = auth.relayed, auth.relayed \in Nat,
           \A i \in 1 .. Len(frames) : Current(frames[i], auth.relayed)
    PROVE  Tells
<1>1. auth' = a /\ down' = down \o frames /\ node' = node
  BY DEF Answers
<1>2. auth'.relayed = auth.relayed /\ auth.relayed <= auth.relayed
  BY <1>1
<1>3. \A i \in 1 .. Len(frames) : Current(frames[i], auth'.relayed)
  BY <1>2
<1> QED BY <1>1, <1>2, <1>3 DEF Tells

LEMMA AuthorityTells ==
    ASSUME SyncInvariant,
           \/ HearHello \/ HearManifest \/ HearRes \/ HearAck
           \/ SendBlock \/ SendFails \/ DropRound
           \/ Mutate \/ Relay \/ RelayFails \/ RelaySkips \/ Unready \/ BecomeReady
    PROVE  Tells
<1>0. /\ auth \in Authorities /\ auth.round \in Rounds /\ auth.round.id \in Nat /\ auth.round.gen \in 0 .. MaxSeq
      /\ down \in Seq(Frames) /\ up \in Seq(Replies) /\ MaxSeq \in Nat
      /\ auth.next \in Nat /\ auth.seq \in 0 .. MaxSeq /\ auth.relayed \in Nat /\ auth.seq \in Nat
      /\ auth.relayed <= auth.seq /\ <<>> \in Seq(Frames) /\ auth.relayed <= auth.relayed
  <2>1. /\ auth \in Authorities /\ auth.relayed <= auth.seq /\ MaxSeq \in Nat
        /\ down \in Seq(Frames) /\ up \in Seq(Replies)
    BY Stream DEF SyncInvariant, Orderly
  <2>2. /\ auth.round \in Rounds /\ auth.next \in Nat /\ auth.seq \in 0 .. MaxSeq /\ auth.relayed \in 0 .. MaxSeq
    BY <2>1 DEF Authorities
  <2>3. auth.round.id \in Nat /\ auth.round.gen \in 0 .. MaxSeq
    BY <2>2 DEF Rounds
  <2>4. auth.relayed \in Nat /\ auth.seq \in Nat /\ auth.relayed <= auth.relayed
    BY <2>1, <2>2
  <2> QED BY <2>1, <2>2, <2>3, <2>4
<1>1. \A i \in 1 .. Len(<<>>) : Current(<<>>[i], auth.relayed)
  OBVIOUS
<1>2. CASE HearHello
  <2> DEFINE a == [Offer(auth, auth.next + 1, auth.seq) EXCEPT !.next = @ + 1]
             infs == Inventory(auth.next + 1, auth.seq)
  <2>1. auth.next + 1 \in Nat \ {0}
    BY <1>0
  <2>2. infs \in Seq(Frames) /\ \A i \in 1 .. Len(infs) : Current(infs[i], auth.relayed)
    BY <1>0, <2>1, InventoryFrames, InventoryCurrent
  <2>3. a.relayed = auth.relayed
    BY <1>0 DEF Offer, Authorities
  <2>4. Answers(a, infs) \/ Answers(auth, <<>>)
    BY <1>2 DEF HearHello
  <2> HIDE DEF a, infs
  <2> QED BY <1>0, <1>1, <2>2, <2>3, <2>4, AnswersTell
<1>3. CASE HearManifest
  <2> DEFINE a == Offer(auth, RequestId, auth.seq)
             frames == Manifest(RequestId, auth.seq)
             err == <<ManifestErr>>
  <2>1. RequestId \in Nat \ {0}
    BY SyncAssumption
  <2>2. frames \in Seq(Frames) /\ \A i \in 1 .. Len(frames) : Current(frames[i], auth.relayed)
    BY <1>0, <2>1, ManifestFrames, InventoryCurrent
  <2>3. a.relayed = auth.relayed
    BY <1>0 DEF Offer, Authorities
  <2>4. err \in Seq(Frames) /\ \A i \in 1 .. Len(err) : Current(err[i], auth.relayed)
    <3>1. ManifestErr \in Frames /\ Current(ManifestErr, auth.relayed)
      BY DEF ManifestErr, Frames, Current
    <3> QED BY <3>1, OtherFrame
  <2>5. Answers(a, frames) \/ Answers(auth, err)
    BY <1>3 DEF HearManifest
  <2> HIDE DEF a, frames, err
  <2> QED BY <1>0, <2>2, <2>3, <2>4, <2>5, AnswersTell
<1>4. CASE HearRes
  <2> DEFINE f == Head(up)
             a == [auth EXCEPT !.round.requested = @ \cup {f.b}]
             err == <<Err(f.id)>>
  <2>1. f \in Replies /\ f.m = "RES"
    BY <1>0, <1>4, Heads DEF HearRes
  <2>2. f.id \in Nat
    BY <2>1 DEF Replies
  <2>3. Answers(a, <<>>) \/ Answers(auth, err)
    BY <1>4 DEF HearRes
  <2>4. a.relayed = auth.relayed
    BY <1>0 DEF Authorities
  <2> HIDE DEF f
  <2>5. err \in Seq(Frames) /\ \A i \in 1 .. Len(err) : Current(err[i], auth.relayed)
    <3>1. Err(f.id) \in Frames /\ Current(Err(f.id), auth.relayed)
      BY <2>2 DEF Err, Frames, Current
    <3> QED BY <3>1, OtherFrame
  <2> HIDE DEF a, err
  <2> QED BY <1>0, <1>1, <2>3, <2>4, <2>5, AnswersTell
<1>5. CASE HearAck
  <2> DEFINE f == Head(up)
             a == [auth EXCEPT !.round.acked = @ \cup {f.b}]
  <2>1. Answers(a, <<>>) \/ Answers(auth, <<>>)
    BY <1>5 DEF HearAck
  <2>2. a.relayed = auth.relayed
    BY <1>0 DEF Authorities
  <2> HIDE DEF a
  <2> QED BY <1>0, <1>1, <2>1, <2>2, AnswersTell
<1>6. CASE SendBlock
  <2> DEFINE S == auth.round.requested \ auth.round.sent
             b == FirstOf(S)
             f == Snap(auth.round.id, auth.round.gen, b)
             a == [auth EXCEPT !.round.sent = @ \cup {b}]
  <2>1. /\ auth.round.id # 0 /\ S # {} /\ down' = Append(down, f) /\ auth' = a /\ node' = node
    BY <1>6 DEF SendBlock, Sendable
  <2>2. b \in Blocks /\ auth.round.id \in Nat \ {0} /\ auth.round.gen \in 0 .. MaxSeq
    <3>1. S \subseteq Blocks /\ S \subseteq Nat
      BY <1>0, SyncAssumption DEF Rounds
    <3>2. b \in S
      BY <2>1, <3>1, First
    <3> QED BY <1>0, <2>1, <3>1, <3>2
  <2>3. f \in Frames
    BY <2>2, RoundFrames
  <2>4. Current(f, auth.relayed)
    BY DEF Snap, Current
  <2>5. a.relayed = auth.relayed
    BY <1>0 DEF Authorities
  <2> HIDE DEF a, b, f
  <2>6. <<f>> \in Seq(Frames) /\ down' = down \o <<f>>
    BY <1>0, <2>1, <2>3, OneFrame
  <2>7. \A i \in 1 .. Len(<<f>>) : Current(<<f>>[i], auth.relayed)
    BY <2>3, <2>4, OtherFrame
  <2> QED BY <1>0, <2>1, <2>5, <2>6, <2>7 DEF Tells
<1>7. CASE SendFails \/ DropRound
  <2> DEFINE a == [auth EXCEPT !.round = NoRound]
             f == Err(auth.round.id)
  <2>1. auth' = a /\ (down' = down \/ down' = Append(down, f)) /\ node' = node
    BY <1>7 DEF SendFails, DropRound
  <2>2. f \in Frames /\ Current(f, auth.relayed)
    BY <1>0 DEF Err, Frames, Current
  <2>3. a.relayed = auth.relayed
    BY <1>0 DEF Authorities
  <2> HIDE DEF a, f
  <2>4. <<f>> \in Seq(Frames) /\ Append(down, f) = down \o <<f>>
    BY <1>0, <2>2, OneFrame
  <2>5. \A i \in 1 .. Len(<<f>>) : Current(<<f>>[i], auth.relayed)
    BY <2>2, OtherFrame
  <2> QED BY <1>0, <2>1, <2>3, <2>4, <2>5 DEF Tells
<1>8. CASE Mutate \/ Unready
  <2>1. auth' = [auth EXCEPT !.seq = @ + 1] \/ auth' = [auth EXCEPT !.ready = FALSE]
    BY <1>8 DEF Mutate, Unready
  <2>2. auth'.relayed = auth.relayed
    BY <1>0, <2>1 DEF Authorities
  <2>3. down' = down /\ node' = node
    BY <1>8 DEF Mutate, Unready
  <2> QED BY <1>0, <2>2, <2>3 DEF Tells
<1>9. CASE Relay \/ RelayFails \/ RelaySkips
  <2> DEFINE n == auth.relayed + 1
             f == [m |-> "INS", n |-> n]
  <2>1. /\ auth.relayed < auth.seq /\ (down' = down \/ down' = Append(down, f)) /\ node' = node
        /\ \/ auth' = [auth EXCEPT !.relayed = @ + 1]
           \/ auth' = [auth EXCEPT !.relayed = @ + 1, !.ready = FALSE]
    BY <1>9 DEF Relay, RelayFails, RelaySkips
  <2>2. n \in 1 .. MaxSeq /\ n \in Nat /\ auth.relayed <= n /\ n <= n
    BY <1>0, <2>1
  <2>3. auth'.relayed = n
    BY <1>0, <2>1 DEF Authorities
  <2> HIDE DEF n
  <2>4. f \in Frames /\ Current(f, n)
    BY <2>2 DEF Frames, Current
  <2> HIDE DEF f
  <2>5. <<f>> \in Seq(Frames) /\ Append(down, f) = down \o <<f>>
    BY <1>0, <2>4, OneFrame
  <2>6. \A i \in 1 .. Len(<<f>>) : Current(<<f>>[i], n)
    BY <2>4, OtherFrame
  <2> QED BY <2>1, <2>2, <2>3, <2>5, <2>6 DEF Tells
<1>10. CASE BecomeReady
  <2>1. PICK n \in auth.seq .. MaxSeq :
          LET a == [auth EXCEPT !.ready = TRUE, !.seq = n, !.relayed = n]
          IN  IF linked
              THEN /\ auth.next < MaxOffer
                   /\ auth' = [Offer(a, a.next + 1, n) EXCEPT !.next = @ + 1]
                   /\ down' = down \o Inventory(a.next + 1, n)
              ELSE auth' = a /\ UNCHANGED down
    BY <1>10 DEF BecomeReady
  <2> DEFINE a == [auth EXCEPT !.ready = TRUE, !.seq = n, !.relayed = n]
             infs == Inventory(a.next + 1, n)
  <2>2. n \in 0 .. MaxSeq /\ n \in Nat /\ n <= n /\ auth.relayed <= n /\ auth.next + 1 \in Nat \ {0}
    BY <1>0
  <2>3. a.next = auth.next /\ a.relayed = n /\ a \in Authorities
    BY <1>0, <2>2 DEF Authorities
  <2>4. infs \in Seq(Frames) /\ \A i \in 1 .. Len(infs) : Current(infs[i], n)
    BY <2>2, <2>3, InventoryFrames, InventoryCurrent
  <2>5. \/ auth' = [Offer(a, a.next + 1, n) EXCEPT !.next = @ + 1] /\ down' = down \o infs
        \/ auth' = a /\ down' = down
    BY <2>1
  <2>6. [Offer(a, a.next + 1, n) EXCEPT !.next = @ + 1].relayed = n
    <3> HIDE DEF a
    <3> QED BY <2>3 DEF Offer, Authorities
  <2> HIDE DEF a, infs
  <2>7. auth'.relayed = n
    BY <2>3, <2>5, <2>6
  <2>8. node' = node
    BY <1>10 DEF BecomeReady
  <2> QED BY <2>2, <2>4, <2>5, <2>7, <2>8 DEF Tells
<1> QED BY <1>2, <1>3, <1>4, <1>5, <1>6, <1>7, <1>8, <1>9, <1>10

\* The whole invariant.
TailInvariant == SyncInvariant /\ Steady(node) /\ Ordered(node.accepted, auth.relayed, down)

LEMMA AuthorityOrders ==
    ASSUME TailInvariant,
           \/ HearHello \/ HearManifest \/ HearRes \/ HearAck
           \/ SendBlock \/ SendFails \/ DropRound
           \/ Mutate \/ Relay \/ RelayFails \/ RelaySkips \/ Unready \/ BecomeReady
    PROVE  Steady(node') /\ Ordered(node'.accepted, auth'.relayed, down')
<1>1. Tells
  BY AuthorityTells DEF TailInvariant
<1>2. /\ node' = node /\ Steady(node) /\ Ordered(node.accepted, auth.relayed, down) /\ auth.relayed <= auth'.relayed
      /\ down \in Seq(Frames) /\ auth'.relayed \in Nat
  BY <1>1 DEF Tells, TailInvariant, SyncInvariant
<1>3. node.accepted \in Nat /\ auth.relayed \in Nat
  <2>1. auth.relayed \in 0 .. MaxSeq /\ MaxSeq \in Nat
    BY Stream DEF TailInvariant, SyncInvariant, Orderly, Authorities
  <2>2. node.accepted \in Nat
    BY Lists DEF TailInvariant, SyncInvariant
  <2> QED BY <2>1, <2>2
<1>4. PICK frames \in Seq(Frames) :
         down' = down \o frames /\ \A i \in 1 .. Len(frames) : Current(frames[i], auth'.relayed)
  <2>1. CASE down' = down
    <3>1. <<>> \in Seq(Frames) /\ down = down \o <<>> /\ \A i \in 1 .. Len(<<>>) : Current(<<>>[i], auth'.relayed)
      BY <1>2
    <3> QED BY <2>1, <3>1
  <2> QED BY <1>1, <2>1 DEF Tells
<1>5. Ordered(node.accepted, auth'.relayed, down \o frames)
  BY <1>2, <1>3, <1>4, OrderedSends
<1> QED BY <1>2, <1>4, <1>5

\* What a step of the replica makes of the node: in step, and told of no more.
Stays(r) == Steady(r) /\ r.accepted = node.accepted

LEMMA BecomesFollows ==
    ASSUME NEW r, Good(r), Steady(r), Becomes(r)
    PROVE  Steady(node') /\ node'.accepted = r.accepted
<1> DEFINE s == [r EXCEPT !.out = <<>>]
<1>1. node' = s
  BY DEF Becomes
<1>2. /\ s.dels = r.dels /\ s.jobs = r.jobs /\ s.done = r.done /\ s.ready = r.ready /\ s.promo = r.promo
      /\ s.active = r.active /\ s.wm = r.wm /\ Beside(s, r)
  BY DEF Good, Nodes, Beside
<1> HIDE DEF s
<1>3. Steady(s)
  BY <1>2, AsideFollows DEF Steady
<1> QED BY <1>1, <1>2, <1>3 DEF Beside

\* Facts that no delivery depends on.
LEMMA NotesFollow ==
    ASSUME NEW r, Good(r), Steady(r)
    PROVE  /\ Steady([r EXCEPT !.armed = FALSE]) /\ Beside([r EXCEPT !.armed = FALSE], r)
           /\ Steady([r EXCEPT !.retry = @ + 1]) /\ Beside([r EXCEPT !.retry = @ + 1], r)
           /\ \A c : Steady([r EXCEPT !.ae = c]) /\ Beside([r EXCEPT !.ae = c], r)
<1>1. ASSUME NEW s, s.dels = r.dels, s.jobs = r.jobs, s.done = r.done, s.ready = r.ready, s.promo = r.promo,
             s.active = r.active, s.wm = r.wm, Beside(s, r)
      PROVE  Steady(s) /\ Beside(s, r)
  BY <1>1, AsideFollows DEF Steady
<1>2. Steady([r EXCEPT !.armed = FALSE]) /\ Beside([r EXCEPT !.armed = FALSE], r)
  <2> DEFINE s == [r EXCEPT !.armed = FALSE]
  <2>1. /\ s.dels = r.dels /\ s.jobs = r.jobs /\ s.done = r.done /\ s.ready = r.ready /\ s.promo = r.promo
        /\ s.active = r.active /\ s.wm = r.wm /\ Beside(s, r)
    BY DEF Good, Nodes, Beside
  <2> HIDE DEF s
  <2>2. Steady(s) /\ Beside(s, r)
    BY <1>1, <2>1
  <2> QED BY <2>2 DEF s
<1>3. Steady([r EXCEPT !.retry = @ + 1]) /\ Beside([r EXCEPT !.retry = @ + 1], r)
  <2> DEFINE s == [r EXCEPT !.retry = @ + 1]
  <2>1. /\ s.dels = r.dels /\ s.jobs = r.jobs /\ s.done = r.done /\ s.ready = r.ready /\ s.promo = r.promo
        /\ s.active = r.active /\ s.wm = r.wm /\ Beside(s, r)
    BY DEF Good, Nodes, Beside
  <2> HIDE DEF s
  <2>2. Steady(s) /\ Beside(s, r)
    BY <1>1, <2>1
  <2> QED BY <2>2 DEF s
<1>4. ASSUME NEW c PROVE Steady([r EXCEPT !.ae = c]) /\ Beside([r EXCEPT !.ae = c], r)
  <2> DEFINE s == [r EXCEPT !.ae = c]
  <2>1. /\ s.dels = r.dels /\ s.jobs = r.jobs /\ s.done = r.done /\ s.ready = r.ready /\ s.promo = r.promo
        /\ s.active = r.active /\ s.wm = r.wm /\ Beside(s, r)
    BY DEF Good, Nodes, Beside
  <2> HIDE DEF s
  <2>2. Steady(s) /\ Beside(s, r)
    BY <1>1, <2>1
  <2> QED BY <2>2 DEF s
<1> QED BY <1>2, <1>3, <1>4

\* What the node sends changes nothing of that.
LEMMA SendStays ==
    ASSUME NEW r, Good(r), Stays(r), NEW f
    PROVE  Stays(Send(r, f))
<1> DEFINE s == Send(r, f)
<1>1. Follows(s) /\ Beside(s, r) /\ (Settled(r) => Settled(s))
  BY SendFollows DEF Stays, Steady
<1> HIDE DEF s
<1>2. Stays(s)
  BY <1>1 DEF Stays, Steady, Beside
<1> QED BY <1>2 DEF s

\* A step that makes of the node what stays in step, and leaves the frames.
LEMMA BecomesOrders ==
    ASSUME TailInvariant, NEW r, Good(r), Stays(r), Becomes(r), auth' = auth, down' = down
    PROVE  Steady(node') /\ Ordered(node'.accepted, auth'.relayed, down')
<1>1. Steady(node') /\ node'.accepted = node.accepted
  BY BecomesFollows DEF Stays
<1> QED BY <1>1 DEF TailInvariant

LEMMA ReplicaOrders ==
    ASSUME TailInvariant,
           \/ Receive \/ Refuse \/ Tick \/ Write \/ WriteFails
           \/ Timeout \/ RetryDue \/ Verify \/ VerifyExpires
           \/ LinkBreaks \/ LinkReturns
    PROVE  Steady(node') /\ Ordered(node'.accepted, auth'.relayed, down')
<1>0. /\ Good(node) /\ node \in Nodes /\ auth \in Authorities /\ down \in Seq(Frames)
      /\ Steady(node) /\ Follows(node) /\ Ordered(node.accepted, auth.relayed, down)
  BY DEF TailInvariant, SyncInvariant, Good, Orderly, Steady
<1>1. CASE Receive
  <2> DEFINE f == Head(down)
             s == Hear(node, f)
  <2>1. down # <<>> /\ down' = Tail(down) /\ Becomes(s) /\ auth' = auth
    BY <1>1 DEF Receive
  <2>2. Sound(f)
    BY <1>0, <2>1, Heads, FramesSound
  <2>3. Good(s)
    BY <1>0, <2>2, HearGood
  <2>4. f.m = "INF" => node.accepted <= f.w
    <3>1. node.accepted = node.accepted
      OBVIOUS
    <3> QED BY <1>0, <2>1, <3>1, OrderedTail
  <2>5. Steady(s) /\ (s.accepted = node.accepted \/ (f.m = "INS" /\ s.accepted = f.n))
    BY <1>0, <2>2, <2>4, HearFollows
  <2> HIDE DEF s
  <2>6. Steady(node') /\ node'.accepted = s.accepted
    BY <2>1, <2>3, <2>5, BecomesFollows
  <2>7. Ordered(s.accepted, auth.relayed, Tail(down))
    BY <1>0, <2>1, <2>5, OrderedTail
  <2> QED BY <2>1, <2>6, <2>7
<1>2. CASE Tick
  <2> DEFINE s == Completions(node)
  <2>1. Becomes(s) /\ auth' = auth /\ down' = down
    BY <1>2 DEF Tick
  <2>2. Good(s) /\ Stays(s)
    BY <1>0, CompletionsGood, CompletionsFollows DEF Stays
  <2> HIDE DEF s
  <2> QED BY <2>1, <2>2, BecomesOrders
<1>3. CASE Write
  <2> DEFINE j == Head(node.jobs)
             x == [node EXCEPT !.jobs = Tail(@), !.done = Append(@, Receipted(j, FALSE))]
             y == [Executed(node, j) EXCEPT !.jobs = Tail(@), !.done = Append(@, Receipted(j, TRUE))]
  <2>1. node.jobs # <<>> /\ auth' = auth /\ down' = down /\ node' \in {x, y}
    BY <1>3 DEF Write
  <2>2. Steady(x) /\ Beside(x, node)
    BY <1>0, <2>1, FailedFollows
  <2>3. Steady(y) /\ Beside(y, node)
    BY <1>0, <2>1, WrittenFollows
  <2> HIDE DEF x, y
  <2> QED BY <1>0, <2>1, <2>2, <2>3 DEF Beside
<1>4. CASE WriteFails
  <2> DEFINE x == [node EXCEPT !.jobs = Tail(@), !.done = Append(@, Receipted(Head(node.jobs), FALSE))]
  <2>1. node.jobs # <<>> /\ node' = x /\ auth' = auth /\ down' = down
    BY <1>4 DEF WriteFails
  <2>2. Steady(x) /\ Beside(x, node)
    BY <1>0, <2>1, FailedFollows
  <2> HIDE DEF x
  <2> QED BY <1>0, <2>1, <2>2 DEF Beside
<1>5. CASE Timeout
  <2> DEFINE s == Abort(node, TRUE)
  <2>1. Becomes(s) /\ auth' = auth /\ down' = down
    BY <1>5 DEF Timeout
  <2>2. Good(s) /\ Steady(s) /\ Beside(s, node)
    BY <1>0, AbortGood, AbortFollows
  <2> HIDE DEF s
  <2> QED BY <2>1, <2>2, BecomesOrders DEF Stays, Beside
<1>6. CASE RetryDue
  <2> DEFINE x == [node EXCEPT !.armed = FALSE]
             y == [node EXCEPT !.retry = @ + 1]
             r == IF ~linked THEN x ELSE IF RetriesLeft(node) THEN Send(y, Hello) ELSE Send(x, Hello)
  <2>1. Becomes(r) /\ auth' = auth /\ down' = down
    BY <1>6 DEF RetryDue
  <2>2. Hello \in Replies
    BY DEF Hello, Replies
  <2>3. Good(x) /\ (RetriesLeft(node) => Good(y))
    BY <1>0, Notes DEF RetriesLeft
  <2>4. Steady(x) /\ Beside(x, node) /\ Steady(y) /\ Beside(y, node)
    BY <1>0, NotesFollow
  <2> HIDE DEF x, y
  <2>5. Stays(x) /\ Stays(y)
    BY <2>4 DEF Stays, Beside
  <2>6. Good(r) /\ Stays(r)
    BY <2>2, <2>3, <2>5, SendGood, SendStays
  <2> HIDE DEF r
  <2> QED BY <2>1, <2>6, BecomesOrders
<1>7. CASE Verify
  <2> DEFINE s == [node EXCEPT !.ae.pending = TRUE]
             c == [node.ae EXCEPT !.pending = TRUE]
             f == [m |-> "MANIFEST"]
  <2>1. Becomes(Send(s, f)) /\ auth' = auth /\ down' = down
    BY <1>7 DEF Verify
  <2>2. f \in Replies
    BY DEF Replies
  <2>3. c \in Contacts
    BY <1>0 DEF Nodes, Contacts
  <2>4. s = [node EXCEPT !.ae = c]
    OBVIOUS
  <2> HIDE DEF c, f, s
  <2>5. Good(s) /\ Stays(s)
    BY <1>0, <2>3, <2>4, Notes, NotesFollow DEF Stays, Beside
  <2> QED BY <2>1, <2>2, <2>5, SendGood, SendStays, BecomesOrders
<1>8. CASE VerifyExpires
  <2> DEFINE s == [node EXCEPT !.ae = Calm]
  <2>1. Becomes(s) /\ auth' = auth /\ down' = down
    BY <1>8 DEF VerifyExpires
  <2>2. Calm \in Contacts
    BY Stream DEF Calm, Contacts
  <2>3. Good(s) /\ Steady(s) /\ Beside(s, node)
    BY <1>0, <2>2, Notes, NotesFollow
  <2> HIDE DEF s
  <2> QED BY <2>1, <2>3, BecomesOrders DEF Stays, Beside
<1>9. CASE LinkBreaks
  <2> DEFINE r == Reselect(node)
             s == [r EXCEPT !.ae = Calm]
  <2>1. down' = <<>> /\ node' = s /\ auth' = [auth EXCEPT !.round = NoRound]
    BY <1>9 DEF LinkBreaks
  <2>2. Good(r) /\ Steady(r) /\ Beside(r, node)
    BY <1>0, ReselectGood, ReselectFollows
  <2> HIDE DEF r
  <2>3. Steady(s) /\ Beside(s, r)
    BY <2>2, NotesFollow
  <2> HIDE DEF s
  <2>4. auth'.relayed = auth.relayed /\ node'.accepted = node.accepted
    BY <1>0, <2>1, <2>2, <2>3 DEF Authorities, Beside
  <2>5. Ordered(node.accepted, auth.relayed, <<>>)
    BY <1>0 DEF Ordered
  <2> QED BY <2>1, <2>3, <2>4, <2>5
<1>10. CASE LinkReturns
  <2>1. PICK next \in {0, auth.next} : auth' = [auth EXCEPT !.next = next]
    BY <1>10 DEF LinkReturns
  <2>2. down' = down /\ node' = Reselect(node)
    BY <1>10 DEF LinkReturns
  <2>3. Steady(Reselect(node)) /\ Beside(Reselect(node), node)
    BY <1>0, ReselectFollows
  <2>4. auth'.relayed = auth.relayed /\ node'.accepted = node.accepted
    BY <1>0, <2>1, <2>2, <2>3 DEF Authorities, Beside
  <2> QED BY <1>0, <2>2, <2>3, <2>4
<1>11. CASE Refuse
  <2>1. down # <<>> /\ down' = Tail(down) /\ node' = node /\ auth' = auth
    BY <1>11 DEF Refuse
  <2>2. node.accepted = node.accepted
    OBVIOUS
  <2>3. Ordered(node.accepted, auth.relayed, Tail(down))
    BY <1>0, <2>1, <2>2, OrderedTail
  <2> QED BY <1>0, <2>1, <2>3
<1> QED BY <1>1, <1>2, <1>3, <1>4, <1>5, <1>6, <1>7, <1>8, <1>9, <1>10, <1>11

LEMMA TailStarts == Init => TailInvariant
<1> SUFFICES ASSUME Init PROVE TailInvariant
  OBVIOUS
<1>1. SyncInvariant /\ node = Fresh /\ down = <<>> /\ auth.relayed = 1
  BY InvariantStarts DEF Init
<1>2. /\ node.dels = <<>> /\ node.jobs = <<>> /\ node.done = <<>> /\ ~node.ready /\ node.active = 0
      /\ node.accepted = 0
  BY <1>1 DEF Fresh
<1>3. Matched(node, 0, 0)
  BY <1>2 DEF Matched
<1>4. Steady(node)
  BY <1>1, <1>2, <1>3, StoppedFollows DEF SyncInvariant
<1>5. Ordered(node.accepted, auth.relayed, down)
  BY <1>1, <1>2 DEF Ordered
<1> QED BY <1>1, <1>4, <1>5 DEF TailInvariant

\* The receipts and the jobs of mutations are those of the deliveries, one for one and in
\* their order, so that the delivery udb_native_mutation_complete finds by its owner and job
\* is the first that is submitted, and every inventory under way
\* covers all that was relayed before it: the invariant that ReadyHoldsAll is read from.
THEOREM TailInvariantHolds == Spec => []TailInvariant
<1>1. Init => TailInvariant
  BY TailStarts
<1>2. TailInvariant /\ [Next]_vars => TailInvariant'
  <2> SUFFICES ASSUME TailInvariant, [Next]_vars PROVE TailInvariant'
    OBVIOUS
  <2>1. SyncInvariant'
    BY InvariantKept DEF TailInvariant
  <2>2. Steady(node') /\ Ordered(node'.accepted, auth'.relayed, down')
    <3>1. CASE UNCHANGED vars
      BY <3>1 DEF vars, TailInvariant
    <3>2. CASE Next
      BY <3>2, AuthorityOrders, ReplicaOrders DEF Next
    <3> QED BY <3>1, <3>2
  <2> QED BY <2>1, <2>2 DEF TailInvariant
<1> QED BY <1>1, <1>2, PTL DEF Spec

\* A replica that calls itself READY has applied every mutation it accepted, or has it at the
\* writer in its place, and nothing waits for a round any more: whatever was cancelled,
\* aborted, repeated or lost meanwhile (udb_native_receive_replay_pump and
\* udb_native_mutation_ingress).
THEOREM ReadyHoldsEverything == Spec => []ReadyHoldsAll
<1>1. TailInvariant => ReadyHoldsAll
  <2> SUFFICES ASSUME TailInvariant, node.ready
               PROVE  Waiting(node, TRUE) = <<>> /\ node.accepted <= node.applied + Len(Waiting(node, FALSE))
    BY DEF ReadyHoldsAll
  <2>1. Good(node) /\ Follows(node)
    BY DEF TailInvariant, SyncInvariant, Steady
  <2>2. node.promo # "done"
    BY <2>1, IdleFree DEF Follows
  <2>3. PICK k \in Nat : Streaming(node, k)
    BY <2>1 DEF Follows
  <2>4. /\ k = Len(node.dels) /\ node.accepted <= node.applied + k
        /\ \A i \in 1 .. k : ~node.dels[i].dead /\ ~node.dels[i].replay
    BY <2>2, <2>3 DEF Streaming
  <2>5. \A i \in 1 .. Len(node.dels) : ~node.dels[i].dead /\ node.dels[i].replay = FALSE
    BY <2>1, <2>4, Lists DEF Deliveries
  <2>6. Waiting(node, TRUE) = <<>>
    <3>1. \A i \in 1 .. Len(node.dels) : node.dels[i].dead \/ node.dels[i].replay # TRUE
      BY <2>5
    <3> QED BY <2>1, <3>1, WaitingNone
  <2>7. Len(Waiting(node, FALSE)) = k
    BY <2>1, <2>4, <2>5, WaitingAll
  <2> QED BY <2>4, <2>6, <2>7
<1> QED BY <1>1, TailInvariantHolds, PTL
=============================================================================
