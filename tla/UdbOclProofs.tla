---------------------------- MODULE UdbOclProofs ----------------------------
(* Proofs about UdbOcl, for every tree of servers, any inventories and any number of *)
(* rehashes, reloads, broken links and expired stages: what a server shows is what it *)
(* holds, and it holds nothing that was not published by the instance that is there. *)
EXTENDS UdbOcl, SequenceTheorems, FiniteSetTheorems, TLAPS

-----------------------------------------------------------------------------
(* What there is.                                                             *)

Classes == UNION Contents

Publications == [o : Servers, e : Nat \ {0}, g : Nat, x : Contents]

\* K may be what was published so far: a revision of an instance has one content.
Unambiguous(K) ==
    /\ K \subseteq Publications
    /\ \A a, b \in K : a.o = b.o /\ a.e = b.e /\ a.g = b.g => a.x = b.x

Inventories == [e : Nat, g : Nat, x : SUBSET Classes]

\* Nothing, or an inventory of o.
Holds(K, o, inv) == inv = None \/ \E a \in K : a.o = o /\ inv = Inventory(a.e, a.g, a.x)

Greetings == [m : {"HEL", "ACK"}, e : Nat]

\* n tells q of q itself and of servers q reaches through n.
Behind(n, q) == {q} \cup {o \in Servers : Route[q][o] = n}

Topologies(n, q) == [m : {"SID"}, s : SUBSET Behind(n, q)] \cup [m : {"SQUIT"}, s : SUBSET Servers]

NewsOf(a) == {Frame("BEGIN", a.o, a, a.x), Frame("END", a.o, a, {})}
                 \cup {Frame("ITEM", a.o, a, c) : c \in a.x}

News(K) == UNION {NewsOf(a) : a \in K}

Frames(K, n, q) == Greetings \cup Topologies(n, q) \cup News(K)

Bursts(K, n, q) == Seq(Frames(K, n, q)) \ {<<>>}

Traffic(K, n, q) == Seq(Bursts(K, n, q))

-----------------------------------------------------------------------------
(* A server.                                                                  *)

OriginRecords == [dir : Servers, current : Inventories, staging : Inventories, got : SUBSET Classes,
                  accepted : Inventories, retired : Seq(Nat)]

OriginOK(K, U, n, o, rec) ==
    /\ rec \in OriginRecords
    /\ rec.dir = Route[n][o] /\ {n, rec.dir} \in U
    /\ Holds(K, o, rec.current) /\ Holds(K, o, rec.staging) /\ Holds(K, o, rec.accepted)
    /\ rec.got \subseteq rec.staging.x
    /\ rec.staging # None => rec.staging = rec.accepted /\ rec.current = None
    /\ Len(rec.retired) <= RetiredMax

PeerRecords == [state : {"none", "waiting", "confirmed"}, epoch : Nat, replayed : BOOLEAN]

NodeRecords(n) ==
    [me : {n}, epoch : Nat \ {0}, gen : Nat, local : Inventories,
     view : [ready : BOOLEAN, classes : SUBSET Classes], peers : [Neighbours(n) -> PeerRecords],
     org : UNION {[S -> OriginRecords] : S \in SUBSET (Servers \ {n})},
     out : [Neighbours(n) -> Seq(Seq(UNION {Frames(Publications, n, q) : q \in Neighbours(n)}))]]

\* What a neighbour's own inventory says of its instance.
OfInstance(rec, peer) == rec.current.e \in {0, peer.epoch} /\ rec.staging.e \in {0, peer.epoch}

\* The local inventory is the last one published.
Local(K, n, r) ==
    /\ [o |-> n, e |-> r.epoch, g |-> r.gen, x |-> r.local.x] \in K
    /\ r.local = Inventory(r.epoch, r.gen, r.local.x)
    /\ \A a \in K : a.o = n => a.e < r.epoch \/ (a.e = r.epoch /\ a.g <= r.gen)

\* All but the view: K is what was published, U are the links that are up.
Sound(K, U, n, r) ==
    /\ r \in NodeRecords(n)
    /\ Local(K, n, r)
    /\ \A o \in DOMAIN r.org : OriginOK(K, U, n, o, r.org[o])
    /\ \A p \in Neighbours(n) \cap DOMAIN r.org : OfInstance(r.org[p], r.peers[p])
    /\ \A q \in Neighbours(n) : r.out[q] \in Traffic(K, n, q)

Exact(r) == r.view = Projection(r)

NodeOK(K, U, n, r) == Sound(K, U, n, r) /\ Exact(r)

-----------------------------------------------------------------------------
(* The registry.                                                              *)

Registry(K) ==
    /\ Unambiguous(K)
    /\ up \subseteq Links
    /\ nodes = [n \in Servers |-> nodes[n]]
    /\ \A n \in Servers : NodeOK(K, up, n, nodes[n]) /\ nodes[n].out = Silent(n)
    /\ wire = [d \in Directed |-> wire[d]]
    /\ \A d \in Directed : /\ wire[d] \in Traffic(K, d[1], d[2])
                           /\ {d[1], d[2]} \notin up => wire[d] = <<>>

OclInvariant == \E K \in SUBSET Publications : Registry(K)

-----------------------------------------------------------------------------
(* Frames and what they are made of.                                          *)

LEMMA Pairs ==
    /\ \A n \in Servers : \A p \in Neighbours(n) : p \in Servers /\ p # n /\ n \in Neighbours(p) /\ {n, p} = {p, n}
    /\ \A d \in Directed : d[1] \in Servers /\ d[2] \in Neighbours(d[1]) /\ d[1] \in Neighbours(d[2])
    /\ \A n \in Servers : \A p \in Neighbours(n) : <<n, p>> \in Directed /\ <<p, n>> \in Directed
<1>1. \A n, p : {n, p} = {p, n}
  OBVIOUS
<1>2. \A n \in Servers : \A p \in Neighbours(n) : p \in Servers /\ p # n /\ n \in Neighbours(p)
  BY <1>1, OclAssumption DEF Tree, Neighbours
<1>3. \A d \in Directed : d[1] \in Servers /\ d[2] \in Neighbours(d[1])
  BY DEF Directed, Neighbours
<1>4. \A n \in Servers : \A p \in Neighbours(n) : <<n, p>> \in Directed /\ <<p, n>> \in Directed
  <2>1. ASSUME NEW n \in Servers, NEW p \in Neighbours(n) PROVE <<n, p>> \in Directed /\ <<p, n>> \in Directed
    BY <1>1, <1>2 DEF Directed, Neighbours
  <2> QED BY <2>1
<1> QED BY <1>1, <1>2, <1>3, <1>4

LEMMA Listed ==
    ASSUME NEW S, IsFiniteSet(S)
    PROVE  SetToSeq(S) \in Seq(S)
<1>1. Cardinality(S) \in Nat /\ ExistsBijection(1 .. Cardinality(S), S)
  BY FS_CardinalityType
<1>2. PICK f : f \in Bijection(1 .. Cardinality(S), S)
  BY <1>1 DEF ExistsBijection
<1>3. f \in [1 .. Cardinality(S) -> S] /\ IsInjective(f)
  BY <1>2 DEF Bijection, Injection
<1>4. SetToSeq(S) \in [1 .. Cardinality(S) -> S]
  BY <1>3 DEF SetToSeq
<1> QED BY <1>1, <1>4, SeqDef

LEMMA Wider ==
    ASSUME NEW K, NEW L, K \subseteq L, NEW n, NEW q
    PROVE  /\ Frames(K, n, q) \subseteq Frames(L, n, q)
           /\ Bursts(K, n, q) \subseteq Bursts(L, n, q)
           /\ Traffic(K, n, q) \subseteq Traffic(L, n, q)
<1>1. News(K) \subseteq News(L)
  BY DEF News
<1>2. Frames(K, n, q) \subseteq Frames(L, n, q)
  BY <1>1 DEF Frames
<1>3. Bursts(K, n, q) \subseteq Bursts(L, n, q)
  BY <1>2, SeqMonotonic DEF Bursts
<1>4. Traffic(K, n, q) \subseteq Traffic(L, n, q)
  BY <1>3, SeqMonotonic DEF Traffic
<1> QED BY <1>2, <1>3, <1>4

\* An inventory is announced in frames.
LEMMA Announced ==
    ASSUME NEW K, Unambiguous(K), NEW o, NEW inv, Holds(K, o, inv), inv # None, NEW n, NEW q
    PROVE  Announce(o, inv) \in Bursts(K, n, q)
<1> DEFINE items == SetToSeq(inv.x)
           each == [i \in DOMAIN items |-> Frame("ITEM", o, inv, items[i])]
<1>1. PICK a \in K : a.o = o /\ inv = Inventory(a.e, a.g, a.x)
  BY DEF Holds
<1>2. inv.e = a.e /\ inv.g = a.g /\ inv.x = a.x
  BY <1>1 DEF Inventory
<1>3. a.x \in Contents
  BY DEF Unambiguous, Publications
<1>4. items \in Seq(a.x)
  BY <1>2, <1>3, Listed, OclAssumption
<1>0. NewsOf(a) \subseteq News(K)
  BY DEF News
<1>5. Frame("BEGIN", o, inv, inv.x) \in News(K) /\ Frame("END", o, inv, {}) \in News(K)
  <2>1. Frame("BEGIN", o, inv, inv.x) = Frame("BEGIN", a.o, a, a.x)
        /\ Frame("END", o, inv, {}) = Frame("END", a.o, a, {})
    BY <1>1, <1>2 DEF Frame
  <2> QED BY <1>0, <2>1 DEF NewsOf
<1>6. \A c \in a.x : Frame("ITEM", o, inv, c) \in News(K)
  <2>1. ASSUME NEW c \in a.x PROVE Frame("ITEM", o, inv, c) = Frame("ITEM", a.o, a, c)
    BY <1>1, <1>2 DEF Frame
  <2> QED BY <1>0, <2>1 DEF NewsOf
<1>7. each \in Seq(News(K))
  <2>1. PICK k \in Nat : items \in [1 .. k -> a.x]
    BY <1>4, SeqDef
  <2>2. each \in [1 .. k -> News(K)]
    BY <1>6, <2>1
  <2> QED BY <2>2, SeqDef
<1>8. News(K) \subseteq Frames(K, n, q)
  BY DEF Frames
<1>9. each \in Seq(Frames(K, n, q))
  BY <1>7, <1>8, SeqMonotonic
<1>10. <<Frame("BEGIN", o, inv, inv.x)>> \in Seq(Frames(K, n, q))
       /\ <<Frame("END", o, inv, {})>> \in Seq(Frames(K, n, q))
  BY <1>5, <1>8
<1>11. Announce(o, inv) = <<Frame("BEGIN", o, inv, inv.x)>> \o each \o <<Frame("END", o, inv, {})>>
  BY DEF Announce
<1> HIDE DEF each, items
<1>12. /\ Announce(o, inv) \in Seq(Frames(K, n, q))
       /\ Len(Announce(o, inv)) = 1 + Len(each) + 1
  BY <1>9, <1>10, <1>11
<1>13. Len(each) \in Nat
  BY <1>9, LenProperties
<1>14. Announce(o, inv) # <<>>
  BY <1>12, <1>13, EmptySeq
<1> QED BY <1>12, <1>14 DEF Bursts

LEMMA EmptyLine == \A K, n, q : <<>> \in Traffic(K, n, q)
BY EmptySeq DEF Traffic

\* One more burst on a line.
LEMMA Sent ==
    ASSUME NEW K, NEW n, NEW q, NEW line \in Traffic(K, n, q), NEW burst \in Bursts(K, n, q)
    PROVE  Append(line, burst) \in Traffic(K, n, q)
BY AppendProperties DEF Traffic

LEMMA SingleBurst ==
    ASSUME NEW K, NEW n, NEW q, NEW f \in Frames(K, n, q)
    PROVE  <<f>> \in Bursts(K, n, q)
<1>1. <<f>> \in Seq(Frames(K, n, q)) /\ <<f>> # <<>>
  OBVIOUS
<1> QED BY <1>1 DEF Bursts

-----------------------------------------------------------------------------
(* A server after a change of one of its parts.                               *)

LEMMA LinesAreLines ==
    ASSUME NEW K, K \subseteq Publications, NEW n, NEW q \in Neighbours(n)
    PROVE  Traffic(K, n, q) \subseteq Seq(Seq(UNION {Frames(Publications, n, p) : p \in Neighbours(n)}))
<1> DEFINE All == UNION {Frames(Publications, n, p) : p \in Neighbours(n)}
<1>1. Frames(Publications, n, q) \subseteq All
  OBVIOUS
<1> HIDE DEF All
<1>2. Bursts(Publications, n, q) \subseteq Seq(All)
  BY <1>1, SeqMonotonic DEF Bursts
<1>3. Traffic(Publications, n, q) \subseteq Seq(Seq(All))
  BY <1>2, SeqMonotonic DEF Traffic
<1>4. Traffic(K, n, q) \subseteq Traffic(Publications, n, q)
  BY Wider
<1>5. Traffic(K, n, q) \subseteq Seq(Seq(All))
  BY <1>3, <1>4
<1> QED BY <1>5 DEF All

LEMMA SoundSent ==
    ASSUME NEW K, Unambiguous(K), NEW U, NEW n, NEW r, Sound(K, U, n, r), NEW w,
           w = [q \in Neighbours(n) |-> w[q]], \A q \in Neighbours(n) : w[q] \in Traffic(K, n, q)
    PROVE  Sound(K, U, n, [r EXCEPT !.out = w])
<1> DEFINE Lines == Seq(Seq(UNION {Frames(Publications, n, p) : p \in Neighbours(n)}))
           s == [r EXCEPT !.out = w]
<1>1. K \subseteq Publications
  BY DEF Unambiguous
<1>2. \A q \in Neighbours(n) : w[q] \in Lines
  BY <1>1, LinesAreLines
<1>3. r \in NodeRecords(n)
  BY DEF Sound
<1> HIDE DEF Lines
<1>4. w \in [Neighbours(n) -> Lines]
  BY <1>2
<1>5. s \in NodeRecords(n)
  BY <1>3, <1>4 DEF NodeRecords, Lines
<1>6. /\ s.epoch = r.epoch /\ s.gen = r.gen /\ s.local = r.local /\ s.org = r.org
      /\ s.peers = r.peers /\ s.out = w
  BY <1>3 DEF NodeRecords
<1> QED BY <1>5, <1>6 DEF Sound, Local

\* What is shown depends on the inventories alone.
LEMMA SameView ==
    ASSUME NEW r, NEW s, s.view = r.view, s.local = r.local, s.org = r.org, Exact(r)
    PROVE  Exact(s)
BY DEF Exact, Projection, Complete, Common

LEMMA NodeSent ==
    ASSUME NEW K, Unambiguous(K), NEW U, NEW n, NEW r, NodeOK(K, U, n, r), NEW w,
           w = [q \in Neighbours(n) |-> w[q]], \A q \in Neighbours(n) : w[q] \in Traffic(K, n, q)
    PROVE  NodeOK(K, U, n, [r EXCEPT !.out = w])
<1> DEFINE s == [r EXCEPT !.out = w]
<1>1. Sound(K, U, n, s)
  BY SoundSent DEF NodeOK
<1>2. r \in NodeRecords(n)
  BY DEF NodeOK, Sound
<1>3. s.view = r.view /\ s.local = r.local /\ s.org = r.org
  BY <1>2 DEF NodeRecords
<1>4. Exact(s)
  BY <1>3, SameView DEF NodeOK
<1> QED BY <1>1, <1>4 DEF NodeOK

LEMMA Recomputed ==
    ASSUME NEW K, NEW U, NEW n, NEW r, Sound(K, U, n, r)
    PROVE  NodeOK(K, U, n, Recompute(r))
<1> DEFINE s == [r EXCEPT !.view = Projection(r)]
<1>1. r \in NodeRecords(n)
  BY DEF Sound
<1>2. Projection(r) \in [ready : BOOLEAN, classes : SUBSET Classes]
  <2>1. r.local.x \in SUBSET Classes
    BY <1>1 DEF NodeRecords, Inventories
  <2>2. Common(r) \subseteq Classes
    BY <2>1 DEF Common
  <2> QED BY <2>2 DEF Projection, Blind
<1>3. s \in NodeRecords(n)
  BY <1>1, <1>2 DEF NodeRecords
<1>4. /\ s.epoch = r.epoch /\ s.gen = r.gen /\ s.local = r.local /\ s.org = r.org
      /\ s.peers = r.peers /\ s.out = r.out /\ s.view = Projection(r)
  BY <1>1 DEF NodeRecords
<1>5. Sound(K, U, n, s)
  BY <1>3, <1>4 DEF Sound, Local
<1>6. Exact(s)
  BY <1>4 DEF Exact, Projection, Complete, Common
<1> QED BY <1>5, <1>6 DEF NodeOK, Recompute

LEMMA SoundOrigin ==
    ASSUME NEW K, NEW U, NEW n, NEW r, Sound(K, U, n, r), NEW o \in DOMAIN r.org, NEW rec,
           OriginOK(K, U, n, o, rec), o \in Neighbours(n) => OfInstance(rec, r.peers[o])
    PROVE  Sound(K, U, n, [r EXCEPT !.org[o] = rec])
<1> DEFINE s == [r EXCEPT !.org[o] = rec]
           org == [r.org EXCEPT ![o] = rec]
<1>1. r \in NodeRecords(n)
  BY DEF Sound
<1>2. PICK S \in SUBSET (Servers \ {n}) : r.org \in [S -> OriginRecords]
  BY <1>1 DEF NodeRecords
<1>3. org \in [S -> OriginRecords]
  BY <1>2 DEF OriginOK
<1>4. org \in UNION {[T -> OriginRecords] : T \in SUBSET (Servers \ {n})}
  BY <1>2, <1>3
<1>5. s = [r EXCEPT !.org = org]
  OBVIOUS
<1> HIDE DEF s
<1>6. s \in NodeRecords(n)
  BY <1>1, <1>4, <1>5 DEF NodeRecords
<1>7. /\ s.epoch = r.epoch /\ s.gen = r.gen /\ s.local = r.local /\ s.org = org
      /\ s.peers = r.peers /\ s.out = r.out
  BY <1>1, <1>5 DEF NodeRecords
<1>8. DOMAIN org = DOMAIN r.org /\ org[o] = rec /\ \A q \in DOMAIN org \ {o} : org[q] = r.org[q]
  BY <1>2
<1> HIDE DEF org
<1> QED BY <1>6, <1>7, <1>8 DEF Sound, Local, s

LEMMA NoInventory ==
    /\ None.e = 0 /\ None.g = 0 /\ None.x = {} /\ None \in Inventories
    /\ \A K, o : Holds(K, o, None)
BY DEF None, Inventory, Inventories, Holds

LEMMA SomeInventory ==
    ASSUME NEW K, Unambiguous(K), NEW o, NEW inv, Holds(K, o, inv), inv # None
    PROVE  /\ inv.e \in Nat \ {0} /\ inv.g \in Nat /\ inv.x \in Contents /\ inv \in Inventories
           /\ [o |-> o, e |-> inv.e, g |-> inv.g, x |-> inv.x] \in K
           /\ inv = Inventory(inv.e, inv.g, inv.x)
<1>1. PICK a \in K : a.o = o /\ inv = Inventory(a.e, a.g, a.x)
  BY DEF Holds
<1>2. a \in Publications
  BY DEF Unambiguous
<1>3. inv.e = a.e /\ inv.g = a.g /\ inv.x = a.x
  BY <1>1 DEF Inventory
<1>4. a = [o |-> o, e |-> inv.e, g |-> inv.g, x |-> inv.x]
  BY <1>1, <1>2, <1>3 DEF Publications
<1>5. a.x \in SUBSET Classes
  BY <1>2 DEF Publications, Classes
<1> QED BY <1>1, <1>2, <1>3, <1>4, <1>5 DEF Publications, Inventories, Inventory

LEMMA Retired ==
    ASSUME NEW K, NEW U, NEW n, NEW o, NEW rec, OriginOK(K, U, n, o, rec), NEW e \in Nat
    PROVE  /\ OriginOK(K, U, n, o, Retire(rec, e))
           /\ Retire(rec, e).current = rec.current /\ Retire(rec, e).staging = rec.staging
           /\ Retire(rec, e).accepted = rec.accepted
<1>1. CASE e = 0 \/ e \in Range(rec.retired)
  BY <1>1 DEF Retire
<1>2. CASE ~(e = 0 \/ e \in Range(rec.retired))
  <2> DEFINE more == Append(rec.retired, e)
  <2>1. rec \in OriginRecords /\ rec.retired \in Seq(Nat) /\ Len(rec.retired) <= RetiredMax
    BY DEF OriginOK, OriginRecords
  <2>2. more \in Seq(Nat) /\ Len(more) = Len(rec.retired) + 1 /\ Len(rec.retired) \in Nat
    BY <2>1, AppendProperties, LenProperties
  <2>3. RetiredMax \in Nat
    BY OclAssumption
  <2> HIDE DEF more
  <2>4. Remembered(more) \in Seq(Nat) /\ Len(Remembered(more)) <= RetiredMax
    <3>1. CASE Len(more) > RetiredMax
      <4>1. more # <<>>
        BY <2>2, EmptySeq
      <4>2. Tail(more) \in Seq(Nat) /\ Len(Tail(more)) = Len(more) - 1
        BY <2>2, <4>1, HeadTailProperties
      <4> QED BY <2>1, <2>2, <2>3, <3>1, <4>2 DEF Remembered
    <3>2. CASE ~(Len(more) > RetiredMax)
      BY <2>2, <2>3, <3>2 DEF Remembered
    <3> QED BY <3>1, <3>2
  <2>5. Retire(rec, e) = [rec EXCEPT !.retired = Remembered(more)]
    BY <1>2 DEF Retire, more
  <2>6. /\ Retire(rec, e) \in OriginRecords
        /\ Retire(rec, e).dir = rec.dir /\ Retire(rec, e).current = rec.current
        /\ Retire(rec, e).staging = rec.staging /\ Retire(rec, e).got = rec.got
        /\ Retire(rec, e).accepted = rec.accepted /\ Retire(rec, e).retired = Remembered(more)
    BY <2>1, <2>4, <2>5 DEF OriginRecords
  <2> QED BY <2>4, <2>6 DEF OriginOK
<1> QED BY <1>1, <1>2

LEMMA UnstagedOK ==
    ASSUME NEW K, NEW U, NEW n, NEW o, NEW rec, OriginOK(K, U, n, o, rec)
    PROVE  /\ OriginOK(K, U, n, o, Unstaged(rec))
           /\ Unstaged(rec).current = rec.current /\ Unstaged(rec).staging = None
<1>1. rec \in OriginRecords
  BY DEF OriginOK
<1>2. /\ Unstaged(rec) \in OriginRecords
      /\ Unstaged(rec).dir = rec.dir /\ Unstaged(rec).current = rec.current
      /\ Unstaged(rec).staging = None /\ Unstaged(rec).got = {}
      /\ Unstaged(rec).accepted = rec.accepted /\ Unstaged(rec).retired = rec.retired
  BY <1>1, NoInventory DEF Unstaged, OriginRecords
<1> QED BY <1>2, NoInventory DEF OriginOK

LEMMA AbortedOK ==
    ASSUME NEW K, NEW U, NEW n, NEW r, Sound(K, U, n, r), NEW o \in DOMAIN r.org
    PROVE  NodeOK(K, U, n, Aborted(r, o))
<1>1. OriginOK(K, U, n, o, r.org[o])
  BY DEF Sound
<1>2. OriginOK(K, U, n, o, Unstaged(r.org[o])) /\ Unstaged(r.org[o]).current = r.org[o].current
      /\ Unstaged(r.org[o]).staging = None
  BY <1>1, UnstagedOK
<1>3. o \in Neighbours(n) => OfInstance(Unstaged(r.org[o]), r.peers[o])
  BY <1>2, NoInventory DEF Sound, OfInstance
<1>4. Sound(K, U, n, [r EXCEPT !.org[o] = Unstaged(r.org[o])])
  BY <1>2, <1>3, SoundOrigin
<1> QED BY <1>4, Recomputed DEF Aborted

\* An inventory goes to all who have greeted.
LEMMA Broadcasted ==
    ASSUME NEW K, Unambiguous(K), NEW U, NEW n, NEW r, NodeOK(K, U, n, r), NEW except,
           NEW o, NEW inv, Holds(K, o, inv), inv # None
    PROVE  NodeOK(K, U, n, Broadcast(r, except, o, inv))
<1> DEFINE w == [p \in Neighbours(n) |-> IF p # except /\ Confirmed(r, p)
                                         THEN Append(r.out[p], Announce(o, inv)) ELSE r.out[p]]
<1>1. DOMAIN r.out = Neighbours(n)
  BY DEF NodeOK, Sound, NodeRecords
<1>2. Broadcast(r, except, o, inv) = [r EXCEPT !.out = w]
  BY <1>1 DEF Broadcast
<1>3. ASSUME NEW q \in Neighbours(n) PROVE w[q] \in Traffic(K, n, q)
  <2>1. r.out[q] \in Traffic(K, n, q)
    BY DEF NodeOK, Sound
  <2>2. Append(r.out[q], Announce(o, inv)) \in Traffic(K, n, q)
    BY <2>1, Announced, Sent
  <2> QED BY <2>1, <2>2
<1>4. w = [q \in Neighbours(n) |-> w[q]]
  OBVIOUS
<1> HIDE DEF w
<1> QED BY <1>2, <1>3, <1>4, NodeSent

-----------------------------------------------------------------------------
(* Greeting.                                                                  *)

LEMMA SoundPeer ==
    ASSUME NEW K, NEW U, NEW n, NEW r, Sound(K, U, n, r), NEW p \in Neighbours(n),
           NEW peer \in PeerRecords, p \in DOMAIN r.org => OfInstance(r.org[p], peer)
    PROVE  Sound(K, U, n, [r EXCEPT !.peers[p] = peer])
<1> DEFINE peers == [r.peers EXCEPT ![p] = peer]
           s == [r EXCEPT !.peers = peers]
<1>1. r \in NodeRecords(n) /\ r.peers \in [Neighbours(n) -> PeerRecords]
  BY DEF Sound, NodeRecords
<1>2. peers \in [Neighbours(n) -> PeerRecords] /\ peers[p] = peer
      /\ \A q \in Neighbours(n) \ {p} : peers[q] = r.peers[q]
  BY <1>1
<1> HIDE DEF peers
<1>3. s \in NodeRecords(n)
  BY <1>1, <1>2 DEF NodeRecords
<1>4. /\ s.epoch = r.epoch /\ s.gen = r.gen /\ s.local = r.local /\ s.org = r.org
      /\ s.peers = peers /\ s.out = r.out
  BY <1>1 DEF NodeRecords
<1>5. Sound(K, U, n, s)
  BY <1>2, <1>3, <1>4 DEF Sound, Local
<1> QED BY <1>5 DEF peers

LEMMA NodePeer ==
    ASSUME NEW K, NEW U, NEW n, NEW r, NodeOK(K, U, n, r), NEW p \in Neighbours(n),
           NEW peer \in PeerRecords, p \in DOMAIN r.org => OfInstance(r.org[p], peer)
    PROVE  NodeOK(K, U, n, [r EXCEPT !.peers[p] = peer])
<1> DEFINE s == [r EXCEPT !.peers[p] = peer]
<1>1. Sound(K, U, n, s)
  BY SoundPeer DEF NodeOK
<1>2. r \in NodeRecords(n)
  BY DEF NodeOK, Sound
<1>3. s.view = r.view /\ s.local = r.local /\ s.org = r.org
  BY <1>2 DEF NodeRecords
<1>4. Exact(s)
  BY <1>3, SameView DEF NodeOK
<1> QED BY <1>1, <1>4 DEF NodeOK

LEMMA InstanceChangedOK ==
    ASSUME NEW K, Unambiguous(K), NEW U, NEW n, NEW r, NodeOK(K, U, n, r), NEW p \in Neighbours(n)
    PROVE  /\ NodeOK(K, U, n, InstanceChanged(r, p))
           /\ InstanceChanged(r, p).peers = r.peers
           /\ p \in DOMAIN InstanceChanged(r, p).org =>
                 /\ InstanceChanged(r, p).org[p].current = None
                 /\ InstanceChanged(r, p).org[p].staging = None
<1>1. CASE p \notin DOMAIN r.org
  BY <1>1 DEF InstanceChanged
<1>2. CASE p \in DOMAIN r.org
  <2> DEFINE o == r.org[p]
             first == Retire(o, o.accepted.e)
             second == Retire(first, o.current.e)
             third == Retire(second, o.staging.e)
             bare == [third EXCEPT !.current = None]
             rec == Unstaged(bare)
  <2>1. OriginOK(K, U, n, p, o) /\ r \in NodeRecords(n)
    BY <1>2 DEF NodeOK, Sound
  <2>2. o.accepted.e \in Nat /\ o.current.e \in Nat /\ o.staging.e \in Nat
    BY <2>1 DEF OriginOK, OriginRecords, Inventories
  <2> HIDE DEF o
  <2>3. OriginOK(K, U, n, p, first)
    BY <2>1, <2>2, Retired
  <2> HIDE DEF first
  <2>4. OriginOK(K, U, n, p, second)
    BY <2>2, <2>3, Retired
  <2> HIDE DEF second
  <2>5. OriginOK(K, U, n, p, third)
    BY <2>2, <2>4, Retired
  <2> HIDE DEF third
  <2>6. OriginOK(K, U, n, p, bare) /\ bare.current = None
    <3>1. third \in OriginRecords
      BY <2>5 DEF OriginOK
    <3>2. /\ bare \in OriginRecords /\ bare.current = None
          /\ bare.dir = third.dir /\ bare.staging = third.staging /\ bare.got = third.got
          /\ bare.accepted = third.accepted /\ bare.retired = third.retired
      BY <3>1, NoInventory DEF OriginRecords
    <3> QED BY <2>5, <3>2, NoInventory DEF OriginOK
  <2> HIDE DEF bare
  <2>7. OriginOK(K, U, n, p, rec) /\ rec.current = None /\ rec.staging = None
    BY <2>6, UnstagedOK
  <2> HIDE DEF rec
  <2>8. OfInstance(rec, r.peers[p])
    BY <2>7, NoInventory DEF OfInstance
  <2> DEFINE s == [r EXCEPT !.org[p] = rec]
  <2>9. Sound(K, U, n, s)
    BY <1>2, <2>7, <2>8, SoundOrigin DEF NodeOK
  <2>10. InstanceChanged(r, p) = Recompute(s)
    BY <1>2 DEF InstanceChanged, rec, bare, third, second, first, o
  <2>11. s.peers = r.peers /\ s.org[p] = rec
    BY <1>2, <2>1 DEF NodeRecords
  <2>12. Recompute(s).peers = s.peers /\ Recompute(s).org = s.org
    BY <2>9 DEF Recompute, Sound, NodeRecords
  <2> HIDE DEF s
  <2> QED BY <2>7, <2>9, <2>10, <2>11, <2>12, Recomputed
<1> QED BY <1>1, <1>2

LEMMA AdvertisedOK ==
    ASSUME NEW K, Unambiguous(K), NEW U, NEW n, NEW r, NodeOK(K, U, n, r), NEW p \in Neighbours(n),
           NEW e \in Nat
    PROVE  NodeOK(K, U, n, Advertised(r, p, e))
<1> DEFINE old == r.peers[p].epoch
           fresh == [r EXCEPT !.peers[p].replayed = FALSE]
           s == IF old \notin {0, e} THEN InstanceChanged(fresh, p) ELSE r
           peer == [s.peers[p] EXCEPT !.epoch = e]
<1>1. r \in NodeRecords(n) /\ r.peers[p] \in PeerRecords
  BY DEF NodeOK, Sound, NodeRecords
<1>2. NodeOK(K, U, n, s) /\ (p \in DOMAIN s.org => OfInstance(s.org[p], [epoch |-> e]))
  <2>1. CASE old \in {0, e}
    <3>1. s = r
      BY <2>1
    <3>2. p \in DOMAIN r.org => OfInstance(r.org[p], r.peers[p])
      BY DEF NodeOK, Sound
    <3> QED BY <2>1, <3>1, <3>2 DEF OfInstance
  <2>2. CASE old \notin {0, e}
    <3> DEFINE young == [r.peers[p] EXCEPT !.replayed = FALSE]
    <3>1. young \in PeerRecords /\ young.epoch = r.peers[p].epoch
      BY <1>1 DEF PeerRecords
    <3>2. p \in DOMAIN r.org => OfInstance(r.org[p], young)
      BY <3>1 DEF NodeOK, Sound, OfInstance
    <3>3. fresh = [r EXCEPT !.peers[p] = young]
      OBVIOUS
    <3> HIDE DEF young, fresh
    <3>4. NodeOK(K, U, n, fresh)
      BY <3>1, <3>2, <3>3, NodePeer
    <3>5. s = InstanceChanged(fresh, p)
      BY <2>2
    <3> HIDE DEF s
    <3>6. NodeOK(K, U, n, s) /\ (p \in DOMAIN s.org => s.org[p].current = None /\ s.org[p].staging = None)
      BY <3>4, <3>5, InstanceChangedOK
    <3> QED BY <3>6, NoInventory DEF OfInstance
  <2> QED BY <2>1, <2>2
<1>3. Advertised(r, p, e) = [s EXCEPT !.peers[p].epoch = e]
  BY DEF Advertised
<1> HIDE DEF s
<1>4. s.peers[p] \in PeerRecords
  BY <1>2 DEF NodeOK, Sound, NodeRecords
<1>5. peer \in PeerRecords /\ peer.epoch = e
  BY <1>4 DEF PeerRecords
<1>6. Advertised(r, p, e) = [s EXCEPT !.peers[p] = peer]
  BY <1>3
<1> HIDE DEF peer
<1>7. p \in DOMAIN s.org => OfInstance(s.org[p], peer)
  BY <1>2, <1>5 DEF OfInstance
<1> QED BY <1>2, <1>5, <1>6, <1>7, NodePeer

LEMMA Greeted ==
    ASSUME NEW K, Unambiguous(K), NEW U, NEW n, NEW r, NodeOK(K, U, n, r), NEW some,
           some \subseteq Neighbours(n)
    PROVE  NodeOK(K, U, n, Greet(r, some))
<1> DEFINE new == {p \in some : r.peers[p].state = "none"}
           peers == [p \in Neighbours(n) |-> IF p \in new THEN [r.peers[p] EXCEPT !.state = "waiting"]
                                             ELSE r.peers[p]]
           w == [p \in Neighbours(n) |-> IF p \in new THEN Append(r.out[p], <<Hel(r)>>) ELSE r.out[p]]
           s == [r EXCEPT !.peers = peers]
<1>1. r \in NodeRecords(n) /\ r.peers \in [Neighbours(n) -> PeerRecords] /\ DOMAIN r.out = Neighbours(n)
  BY DEF NodeOK, Sound, NodeRecords
<1>2. Greet(r, some) = [r EXCEPT !.peers = peers, !.out = w]
  BY <1>1 DEF Greet
<1>3. peers \in [Neighbours(n) -> PeerRecords] /\ \A p \in Neighbours(n) : peers[p].epoch = r.peers[p].epoch
  BY <1>1 DEF PeerRecords
<1> HIDE DEF peers
<1>4. /\ s \in NodeRecords(n) /\ s.epoch = r.epoch /\ s.gen = r.gen /\ s.local = r.local /\ s.org = r.org
      /\ s.peers = peers /\ s.out = r.out /\ s.view = r.view
  BY <1>1, <1>3 DEF NodeRecords
<1>5. Sound(K, U, n, s)
  BY <1>3, <1>4 DEF NodeOK, Sound, Local, OfInstance
<1>6. Exact(s)
  BY <1>4, SameView DEF NodeOK
<1>7. ASSUME NEW q \in Neighbours(n) PROVE w[q] \in Traffic(K, n, q)
  <2>1. r.out[q] \in Traffic(K, n, q)
    BY DEF NodeOK, Sound
  <2>2. Hel(r) \in Frames(K, n, q)
    BY <1>1 DEF Hel, Frames, Greetings, NodeRecords
  <2>3. Append(r.out[q], <<Hel(r)>>) \in Traffic(K, n, q)
    BY <2>1, <2>2, SingleBurst, Sent
  <2> QED BY <2>1, <2>3
<1>8. w = [q \in Neighbours(n) |-> w[q]]
  OBVIOUS
<1> HIDE DEF w
<1>9. [r EXCEPT !.peers = peers, !.out = w] = [s EXCEPT !.out = w]
  OBVIOUS
<1> HIDE DEF s
<1>10. NodeOK(K, U, n, s)
  BY <1>5, <1>6 DEF NodeOK
<1> QED BY <1>2, <1>7, <1>8, <1>9, <1>10, NodeSent

LEMMA SentOK ==
    ASSUME NEW K, Unambiguous(K), NEW U, NEW n, NEW r, NodeOK(K, U, n, r), NEW p \in Neighbours(n),
           NEW burst \in Bursts(K, n, p)
    PROVE  NodeOK(K, U, n, Send(r, p, burst))
<1> DEFINE w == [r.out EXCEPT ![p] = Append(r.out[p], burst)]
<1>1. DOMAIN r.out = Neighbours(n)
  BY DEF NodeOK, Sound, NodeRecords
<1>2. \A q \in Neighbours(n) : r.out[q] \in Traffic(K, n, q)
  BY DEF NodeOK, Sound
<1>3. Append(r.out[p], burst) \in Traffic(K, n, p)
  BY <1>2, Sent
<1>4. \A q \in Neighbours(n) : w[q] \in Traffic(K, n, q)
  BY <1>1, <1>2, <1>3
<1>5. w = [q \in Neighbours(n) |-> w[q]]
  BY <1>1
<1>6. Send(r, p, burst) = [r EXCEPT !.out = w]
  BY DEF Send
<1> HIDE DEF w
<1> QED BY <1>4, <1>5, <1>6, NodeSent

LEMMA Replayed ==
    ASSUME NEW K, Unambiguous(K), NEW U, NEW n \in Servers, NEW r, NodeOK(K, U, n, r),
           NEW p \in Neighbours(n)
    PROVE  NodeOK(K, U, n, Replay(r, p))
<1>1. CASE ~Confirmed(r, p) \/ r.peers[p].replayed
  BY <1>1 DEF Replay
<1>2. CASE ~(~Confirmed(r, p) \/ r.peers[p].replayed)
  <2> DEFINE known == {o \in DOMAIN r.org : r.org[o].current # None}
             held == SetToSeq(known)
             peer == [r.peers[p] EXCEPT !.replayed = TRUE]
             s == [r EXCEPT !.peers[p] = peer]
             others == [i \in DOMAIN held |-> Announce(held[i], r.org[held[i]].current)]
             line == Append(r.out[p], Announce(r.me, r.local)) \o others
             w == [r.out EXCEPT ![p] = line]
  <2>1. r \in NodeRecords(n) /\ r.peers[p] \in PeerRecords /\ DOMAIN r.out = Neighbours(n)
    BY DEF NodeOK, Sound, NodeRecords
  <2>2. peer \in PeerRecords /\ peer.epoch = r.peers[p].epoch
    BY <2>1 DEF PeerRecords
  <2>3. p \in DOMAIN r.org => OfInstance(r.org[p], peer)
    BY <2>2 DEF NodeOK, Sound, OfInstance
  <2>4. Replay(r, p) = [s EXCEPT !.out = w]
    BY <1>2 DEF Replay
  <2> HIDE DEF peer
  <2>5. NodeOK(K, U, n, s) /\ s.out = r.out
    BY <2>1, <2>2, <2>3, NodePeer DEF NodeRecords
  <2>6. r.out[p] \in Traffic(K, n, p) /\ \A q \in Neighbours(n) : r.out[q] \in Traffic(K, n, q)
    BY DEF NodeOK, Sound
  <2>7. Announce(r.me, r.local) \in Bursts(K, n, p)
    <3>1. r.me = n /\ Local(K, n, r) /\ r.epoch # 0
      BY <2>1 DEF NodeOK, Sound, NodeRecords
    <3>2. Holds(K, n, r.local) /\ r.local # None
      BY <3>1 DEF Local, Holds, None, Inventory
    <3> QED BY <3>1, <3>2, Announced
  <2>8. others \in Traffic(K, n, p)
    <3>1. IsFiniteSet(known)
      <4>1. DOMAIN r.org \subseteq Servers
        BY <2>1 DEF NodeRecords
      <4> QED BY <4>1, FS_Subset, OclAssumption
    <3> HIDE DEF known
    <3>2. held \in Seq(known)
      BY <3>1, Listed
    <3> HIDE DEF held
    <3>3. PICK k \in Nat : held \in [1 .. k -> known]
      BY <3>2, SeqDef
    <3>4. ASSUME NEW i \in 1 .. k PROVE Announce(held[i], r.org[held[i]].current) \in Bursts(K, n, p)
      <4>1. held[i] \in DOMAIN r.org /\ r.org[held[i]].current # None
        BY <3>3 DEF known
      <4>2. Holds(K, held[i], r.org[held[i]].current)
        BY <4>1 DEF NodeOK, Sound, OriginOK
      <4> QED BY <4>1, <4>2, Announced
    <3>5. others \in [1 .. k -> Bursts(K, n, p)]
      BY <3>3, <3>4
    <3> QED BY <3>5, SeqDef DEF Traffic
  <2> HIDE DEF others, s
  <2>9. line \in Traffic(K, n, p)
    <3>1. Append(r.out[p], Announce(r.me, r.local)) \in Traffic(K, n, p)
      BY <2>6, <2>7, Sent
    <3> QED BY <2>8, <3>1, ConcatProperties DEF Traffic
  <2> HIDE DEF line
  <2>10. \A q \in Neighbours(n) : w[q] \in Traffic(K, n, q)
    BY <2>1, <2>6, <2>9
  <2>11. w = [q \in Neighbours(n) |-> w[q]]
    BY <2>1
  <2> HIDE DEF w
  <2> QED BY <2>4, <2>5, <2>10, <2>11, NodeSent
<1> QED BY <1>1, <1>2

LEMMA HearHelOK ==
    ASSUME NEW K, Unambiguous(K), NEW U, NEW n \in Servers, NEW r, NodeOK(K, U, n, r),
           NEW p \in Neighbours(n), NEW f, f.e \in Nat
    PROVE  NodeOK(K, U, n, HearHel(r, p, f))
<1> DEFINE a == Advertised(r, p, f.e)
           s == Greet(a, {p})
<1>1. NodeOK(K, U, n, a)
  BY AdvertisedOK
<1> HIDE DEF a
<1>2. NodeOK(K, U, n, s)
  BY <1>1, Greeted
<1>3. HearHel(r, p, f) = Replay(Send(s, p, <<HelAck(s)>>), p)
  BY DEF HearHel, a
<1> HIDE DEF s
<1>4. HelAck(s) \in Frames(K, n, p)
  BY <1>2 DEF NodeOK, Sound, NodeRecords, HelAck, Frames, Greetings
<1>5. NodeOK(K, U, n, Send(s, p, <<HelAck(s)>>))
  BY <1>2, <1>4, SingleBurst, SentOK
<1> QED BY <1>3, <1>5, Replayed

LEMMA HearAckOK ==
    ASSUME NEW K, Unambiguous(K), NEW U, NEW n \in Servers, NEW r, NodeOK(K, U, n, r),
           NEW p \in Neighbours(n), NEW f, f.e \in Nat
    PROVE  NodeOK(K, U, n, HearAck(r, p, f))
<1> DEFINE s == Advertised(r, p, f.e)
           t == IF s.peers[p].state = "waiting" THEN [s EXCEPT !.peers[p].state = "confirmed"] ELSE s
           peer == [s.peers[p] EXCEPT !.state = "confirmed"]
<1>1. NodeOK(K, U, n, s)
  BY AdvertisedOK
<1>2. HearAck(r, p, f) = Replay(t, p)
  BY DEF HearAck
<1> HIDE DEF s
<1>3. s.peers[p] \in PeerRecords /\ (p \in DOMAIN s.org => OfInstance(s.org[p], s.peers[p]))
  BY <1>1 DEF NodeOK, Sound, NodeRecords
<1>4. peer \in PeerRecords /\ peer.epoch = s.peers[p].epoch
  BY <1>3 DEF PeerRecords
<1>5. [s EXCEPT !.peers[p].state = "confirmed"] = [s EXCEPT !.peers[p] = peer]
  OBVIOUS
<1> HIDE DEF peer
<1>6. NodeOK(K, U, n, [s EXCEPT !.peers[p] = peer])
  BY <1>1, <1>3, <1>4, NodePeer DEF OfInstance
<1>7. NodeOK(K, U, n, t)
  BY <1>1, <1>5, <1>6
<1> HIDE DEF t
<1> QED BY <1>2, <1>7, Replayed

-----------------------------------------------------------------------------
(* Inventories of others.                                                     *)

\* A valid frame about a neighbour comes from the neighbour.
LEMMA FirstHand ==
    ASSUME NEW K, NEW U, NEW n \in Servers, NEW r, NodeOK(K, U, n, r), NEW p \in Neighbours(n),
           NEW o, Valid(r, p, o)
    PROVE  /\ o \in DOMAIN r.org /\ OriginOK(K, U, n, o, r.org[o])
           /\ o \in Neighbours(n) => o = p
<1>1. o \in DOMAIN r.org /\ OriginOK(K, U, n, o, r.org[o]) /\ r.org[o].dir = p
  BY DEF Valid, NodeOK, Sound
<1>2. o \in Neighbours(n) => Route[n][o] = o
  BY OclAssumption DEF Tree
<1> QED BY <1>1, <1>2 DEF OriginOK

LEMMA HearBeginOK ==
    ASSUME NEW K, Unambiguous(K), NEW U, NEW n \in Servers, NEW r, NodeOK(K, U, n, r),
           NEW p \in Neighbours(n), NEW a \in K, NEW f, f = Frame("BEGIN", a.o, a, a.x)
    PROVE  NodeOK(K, U, n, HearBegin(r, p, f))
<1>1. f.m = "BEGIN" /\ f.o = a.o /\ f.e = a.e /\ f.g = a.g /\ f.x = a.x
  BY DEF Frame
<1>2. CASE ~Valid(r, p, f.o) \/ Stale(r, p, f)
  BY <1>2 DEF HearBegin
<1>3. CASE Valid(r, p, f.o) /\ ~Stale(r, p, f)
  <2> DEFINE o == r.org[f.o]
             s == IF o.accepted.e # f.e THEN Retire(o, o.accepted.e) ELSE o
             t == IF o.current.e # f.e THEN Retire(s, o.current.e) ELSE s
             new == Inventory(f.e, f.g, f.x)
             rec == [t EXCEPT !.current = None, !.accepted = new, !.staging = new, !.got = {}]
  <2>1. f.o \in DOMAIN r.org /\ OriginOK(K, U, n, f.o, o) /\ (f.o \in Neighbours(n) => f.o = p)
    BY <1>3, FirstHand
  <2>2. o.accepted.e \in Nat /\ o.current.e \in Nat
    BY <2>1 DEF OriginOK, OriginRecords, Inventories
  <2>3. HearBegin(r, p, f) = Recompute([r EXCEPT !.org[f.o] = rec])
    BY <1>3 DEF HearBegin
  <2> HIDE DEF o
  <2>4. OriginOK(K, U, n, f.o, s)
    BY <2>1, <2>2, Retired
  <2> HIDE DEF s
  <2>5. OriginOK(K, U, n, f.o, t)
    BY <2>2, <2>4, Retired
  <2> HIDE DEF t
  <2>6. new = Inventory(a.e, a.g, a.x)
    BY <1>1
  <2>7. Holds(K, f.o, new) /\ new \in Inventories /\ new.e = f.e
    <3>1. a \in Publications /\ a.x \in SUBSET Classes
      BY DEF Unambiguous, Publications, Classes
    <3> QED BY <1>1, <2>6, <3>1 DEF Holds, Inventory, Inventories, Publications
  <2> HIDE DEF new
  <2>8. OriginOK(K, U, n, f.o, rec) /\ rec.current = None /\ rec.staging = new
    <3>1. t \in OriginRecords
      BY <2>5 DEF OriginOK
    <3>2. /\ rec \in OriginRecords /\ rec.dir = t.dir /\ rec.current = None /\ rec.staging = new
          /\ rec.got = {} /\ rec.accepted = new /\ rec.retired = t.retired
      BY <2>7, <3>1, NoInventory DEF OriginRecords
    <3> QED BY <2>5, <2>7, <3>2, NoInventory DEF OriginOK
  <2> HIDE DEF rec
  <2>9. f.o \in Neighbours(n) => OfInstance(rec, r.peers[f.o])
    <3>1. f.o = p => r.peers[p].epoch = f.e
      BY <1>3 DEF Stale
    <3> QED BY <2>1, <2>7, <2>8, <3>1, NoInventory DEF OfInstance
  <2>10. Sound(K, U, n, [r EXCEPT !.org[f.o] = rec])
    BY <2>1, <2>8, <2>9, SoundOrigin DEF NodeOK
  <2> QED BY <2>3, <2>10, Recomputed
<1> QED BY <1>2, <1>3

\* What is being staged is what the frame is about.
LEMMA StageOf ==
    ASSUME NEW K, Unambiguous(K), NEW a \in K, NEW inv, Holds(K, a.o, inv), inv.e = a.e, inv.g = a.g
    PROVE  inv = Inventory(a.e, a.g, a.x) /\ inv # None
<1>1. a.e # 0
  BY DEF Unambiguous, Publications
<1>2. inv # None
  BY <1>1, NoInventory
<1>3. PICK b \in K : b.o = a.o /\ inv = Inventory(b.e, b.g, b.x)
  BY <1>2 DEF Holds
<1>4. b.e = a.e /\ b.g = a.g
  BY <1>3 DEF Inventory
<1>5. b.x = a.x
  BY <1>3, <1>4 DEF Unambiguous
<1> QED BY <1>2, <1>3, <1>4, <1>5

LEMMA HearItemOK ==
    ASSUME NEW K, Unambiguous(K), NEW U, NEW n \in Servers, NEW r, NodeOK(K, U, n, r),
           NEW p \in Neighbours(n), NEW a \in K, NEW c \in a.x, NEW f, f = Frame("ITEM", a.o, a, c)
    PROVE  NodeOK(K, U, n, HearItem(r, p, f))
<1>1. f.o = a.o /\ f.e = a.e /\ f.g = a.g /\ f.x = c
  BY DEF Frame
<1>2. CASE ~Valid(r, p, f.o) \/ ~Same(r.org[f.o].staging, f)
  BY <1>2 DEF HearItem
<1>3. CASE Valid(r, p, f.o) /\ Same(r.org[f.o].staging, f)
  <2> DEFINE o == r.org[f.o]
             got == o.got \cup {f.x}
             rec == [o EXCEPT !.got = got]
             s == [r EXCEPT !.org[f.o].got = got]
  <2>1. f.o \in DOMAIN r.org /\ OriginOK(K, U, n, f.o, o)
    BY <1>3, FirstHand
  <2>2. CASE f.x \in o.got \/ Cardinality(o.got) >= Cardinality(o.staging.x)
    <3>1. HearItem(r, p, f) = Aborted(r, f.o)
      BY <1>3, <2>2 DEF HearItem
    <3> QED BY <2>1, <3>1, AbortedOK DEF NodeOK
  <2>3. CASE ~(f.x \in o.got \/ Cardinality(o.got) >= Cardinality(o.staging.x))
    <3>1. HearItem(r, p, f) = s
      BY <1>3, <2>3 DEF HearItem
    <3>2. s = [r EXCEPT !.org[f.o] = rec]
      OBVIOUS
    <3>3. o.staging = Inventory(a.e, a.g, a.x)
      <4>1. Holds(K, a.o, o.staging)
        BY <1>1, <2>1 DEF OriginOK
      <4>2. o.staging.e = a.e /\ o.staging.g = a.g
        BY <1>1, <1>3 DEF Same
      <4> HIDE DEF o
      <4> QED BY <4>1, <4>2, StageOf
    <3>4. c \in o.staging.x
      BY <3>3 DEF Inventory
    <3> HIDE DEF o
    <3>5. got \subseteq o.staging.x
      BY <1>1, <2>1, <3>4 DEF OriginOK
    <3>6. o \in OriginRecords /\ o.staging.x \subseteq Classes
      BY <2>1 DEF OriginOK, OriginRecords, Inventories
    <3> HIDE DEF got
    <3>7. /\ rec \in OriginRecords /\ rec.dir = o.dir /\ rec.current = o.current
          /\ rec.staging = o.staging /\ rec.got = got /\ rec.accepted = o.accepted
          /\ rec.retired = o.retired
      BY <3>5, <3>6 DEF OriginRecords
    <3>8. OriginOK(K, U, n, f.o, rec)
      BY <2>1, <3>5, <3>7 DEF OriginOK
    <3>9. f.o \in Neighbours(n) => OfInstance(rec, r.peers[f.o])
      BY <2>1, <3>7 DEF NodeOK, Sound, OfInstance, o
    <3> HIDE DEF rec
    <3>10. Sound(K, U, n, s)
      BY <2>1, <3>2, <3>8, <3>9, SoundOrigin DEF NodeOK
    <3>11. Exact(s)
      <4>1. r \in NodeRecords(n)
        BY DEF NodeOK, Sound
      <4>2. /\ s.view = r.view /\ s.local = r.local /\ DOMAIN s.org = DOMAIN r.org
            /\ \A q \in DOMAIN r.org : s.org[q].current = r.org[q].current
        BY <2>1, <3>2, <3>7, <4>1 DEF NodeRecords, o
      <4>3. Complete(s) = Complete(r) /\ Common(s) = Common(r)
        BY <4>2 DEF Complete, Common
      <4> HIDE DEF s
      <4> QED BY <4>2, <4>3 DEF NodeOK, Exact, Projection
    <3> QED BY <3>1, <3>10, <3>11 DEF NodeOK
  <2> QED BY <2>2, <2>3
<1> QED BY <1>2, <1>3

LEMMA HearEndOK ==
    ASSUME NEW K, Unambiguous(K), NEW U, NEW n \in Servers, NEW r, NodeOK(K, U, n, r),
           NEW p \in Neighbours(n), NEW a \in K, NEW f, f = Frame("END", a.o, a, {})
    PROVE  NodeOK(K, U, n, HearEnd(r, p, f))
<1>1. f.o = a.o /\ f.e = a.e /\ f.g = a.g
  BY DEF Frame
<1>2. CASE ~Valid(r, p, f.o) \/ ~Same(r.org[f.o].staging, f)
  BY <1>2 DEF HearEnd
<1>3. CASE Valid(r, p, f.o) /\ Same(r.org[f.o].staging, f)
  <2> DEFINE o == r.org[f.o]
             full == [o EXCEPT !.current = o.staging]
             rec == Unstaged(full)
             s == [r EXCEPT !.org[f.o] = rec]
  <2>1. f.o \in DOMAIN r.org /\ OriginOK(K, U, n, f.o, o)
    BY <1>3, FirstHand
  <2>2. CASE o.accepted # o.staging \/ o.got # o.staging.x
    <3>1. HearEnd(r, p, f) = Aborted(r, f.o)
      BY <1>3, <2>2 DEF HearEnd
    <3> QED BY <2>1, <3>1, AbortedOK DEF NodeOK
  <2>3. CASE ~(o.accepted # o.staging \/ o.got # o.staging.x)
    <3>1. HearEnd(r, p, f) = Broadcast(Recompute(s), p, f.o, o.staging)
      BY <1>3, <2>3 DEF HearEnd
    <3>2. Holds(K, f.o, o.staging) /\ o.staging # None
      BY <1>1, <1>3, <2>1, StageOf DEF OriginOK, Same
    <3>3. OfInstance(rec, r.peers[f.o]) \/ f.o \notin Neighbours(n)
      BY <2>1, NoInventory DEF NodeOK, Sound, OfInstance, Unstaged, OriginOK, OriginRecords
    <3> HIDE DEF o
    <3>4. o \in OriginRecords
      BY <2>1 DEF OriginOK
    <3>5. /\ rec \in OriginRecords /\ rec.dir = o.dir /\ rec.current = o.staging
          /\ rec.staging = None /\ rec.got = {} /\ rec.accepted = o.accepted
          /\ rec.retired = o.retired
      BY <3>4, NoInventory DEF OriginRecords, Unstaged
    <3> HIDE DEF rec
    <3>6. OriginOK(K, U, n, f.o, rec)
      BY <2>1, <3>5, NoInventory DEF OriginOK
    <3>7. Sound(K, U, n, s)
      BY <2>1, <3>3, <3>6, SoundOrigin DEF NodeOK
    <3> HIDE DEF s
    <3>8. NodeOK(K, U, n, Recompute(s))
      BY <3>7, Recomputed
    <3> QED BY <3>1, <3>2, <3>8, Broadcasted
  <2> QED BY <2>2, <2>3
<1> QED BY <1>2, <1>3

-----------------------------------------------------------------------------
(* The visible topology.                                                      *)

\* Anything said to all but one neighbour.
LEMMA ToldOthers ==
    ASSUME NEW K, Unambiguous(K), NEW U, NEW n, NEW r, NodeOK(K, U, n, r), NEW p, NEW f,
           \A q \in Neighbours(n) \ {p} : f \in Frames(K, n, q)
    PROVE  NodeOK(K, U, n, Others(r, p, f))
<1> DEFINE w == [q \in Neighbours(n) |-> IF q # p THEN Append(r.out[q], <<f>>) ELSE r.out[q]]
<1>1. DOMAIN r.out = Neighbours(n)
  BY DEF NodeOK, Sound, NodeRecords
<1>2. Others(r, p, f) = [r EXCEPT !.out = w]
  BY <1>1 DEF Others
<1>3. ASSUME NEW q \in Neighbours(n) PROVE w[q] \in Traffic(K, n, q)
  <2>1. r.out[q] \in Traffic(K, n, q)
    BY DEF NodeOK, Sound
  <2>2. q # p => Append(r.out[q], <<f>>) \in Traffic(K, n, q)
    BY <2>1, SingleBurst, Sent
  <2> QED BY <2>1, <2>2
<1>4. w = [q \in Neighbours(n) |-> w[q]]
  OBVIOUS
<1> HIDE DEF w
<1> QED BY <1>2, <1>3, <1>4, NodeSent

LEMMA SoundOrigins ==
    ASSUME NEW K, NEW U, NEW n, NEW r, r \in NodeRecords(n), Local(K, n, r),
           \A q \in Neighbours(n) : r.out[q] \in Traffic(K, n, q),
           NEW S \in SUBSET (Servers \ {n}), NEW org, org = [o \in S |-> org[o]],
           \A o \in S : OriginOK(K, U, n, o, org[o]),
           \A p \in Neighbours(n) \cap S : OfInstance(org[p], r.peers[p])
    PROVE  Sound(K, U, n, [r EXCEPT !.org = org])
<1> DEFINE s == [r EXCEPT !.org = org]
<1>1. org \in [S -> OriginRecords] /\ DOMAIN org = S
  BY DEF OriginOK
<1>2. org \in UNION {[T -> OriginRecords] : T \in SUBSET (Servers \ {n})}
  BY <1>1
<1>3. s \in NodeRecords(n)
  BY <1>2 DEF NodeRecords
<1>4. /\ s.epoch = r.epoch /\ s.gen = r.gen /\ s.local = r.local /\ s.org = org
      /\ s.peers = r.peers /\ s.out = r.out
  BY DEF NodeRecords
<1> QED BY <1>1, <1>3, <1>4 DEF Sound, Local

\* What was heard of goes on to where it is behind this server.
LEMMA Onward ==
    ASSUME NEW n \in Servers, NEW p \in Neighbours(n), NEW q \in Neighbours(n), p # q
    PROVE  Behind(p, n) \subseteq Behind(n, q)
<1> SUFFICES ASSUME NEW o \in Behind(p, n) PROVE o \in Behind(n, q)
  OBVIOUS
<1>1. q \in Servers /\ n \in Neighbours(q) /\ q # n
  BY Pairs
<1>2. Route[q][n] = n /\ Route[n][q] = q
  BY <1>1, OclAssumption DEF Tree
<1>3. CASE o = n
  BY <1>2, <1>3 DEF Behind
<1>4. CASE o # n
  <2>1. o \in Servers /\ Route[n][o] = p
    BY <1>4 DEF Behind
  <2>2. Route[n][o] # q
    BY <2>1
  <2>3. o # q
    BY <1>2, <2>1
  <2>4. Route[q][o] = n
    BY <1>1, <1>4, <2>1, <2>2, <2>3, OclAssumption DEF Tree
  <2> QED BY <2>1, <2>4 DEF Behind
<1> QED BY <1>3, <1>4

LEMMA NewOrigin ==
    ASSUME NEW K, NEW U, NEW n \in Servers, NEW p \in Neighbours(n), {n, p} \in U,
           NEW o \in Servers, Route[n][o] = p
    PROVE  OriginOK(K, U, n, o, Origin(p)) /\ \A peer \in PeerRecords : OfInstance(Origin(p), peer)
<1>1. p \in Servers
  BY Pairs
<1>2. <<>> \in Seq(Nat) /\ Len(<<>>) = 0 /\ 0 <= RetiredMax
  BY EmptySeq, OclAssumption
<1>3. /\ Origin(p).dir = p /\ Origin(p).current = None /\ Origin(p).staging = None
      /\ Origin(p).got = {} /\ Origin(p).accepted = None /\ Origin(p).retired = <<>>
  BY DEF Origin
<1>4. Origin(p) \in OriginRecords
  BY <1>1, <1>2, NoInventory DEF Origin, OriginRecords
<1> QED BY <1>2, <1>3, <1>4, NoInventory DEF OriginOK, OfInstance

LEMMA HearSidOK ==
    ASSUME NEW K, Unambiguous(K), NEW U, NEW n \in Servers, NEW r, NodeOK(K, U, n, r),
           NEW p \in Neighbours(n), {n, p} \in U, NEW f, f.s \subseteq Behind(p, n),
           f = [m |-> "SID", s |-> f.s]
    PROVE  NodeOK(K, U, n, HearSid(r, p, f))
<1> DEFINE new == f.s \ (DOMAIN r.org \cup {r.me})
           S == DOMAIN r.org \cup new
           org == [o \in S |-> IF o \in DOMAIN r.org THEN r.org[o] ELSE Origin(p)]
           s == [r EXCEPT !.org = org]
<1>1. HearSid(r, p, f) = Others(Recompute(s), p, f)
  BY DEF HearSid
<1>2. r.me = n /\ DOMAIN r.org \subseteq Servers \ {n} /\ r.peers \in [Neighbours(n) -> PeerRecords]
  BY DEF NodeOK, Sound, NodeRecords
<1>3. n \in Servers /\ Behind(p, n) \subseteq Servers
  BY DEF Behind
<1>4. S \in SUBSET (Servers \ {n})
  BY <1>2, <1>3
<1>5. \A o \in new : Route[n][o] = p
  BY <1>2 DEF Behind
<1>6. \A o \in S : OriginOK(K, U, n, o, org[o])
  <2>1. ASSUME NEW o \in DOMAIN r.org PROVE OriginOK(K, U, n, o, org[o])
    BY DEF NodeOK, Sound
  <2>2. ASSUME NEW o \in new PROVE OriginOK(K, U, n, o, org[o])
    <3>1. OriginOK(K, U, n, o, Origin(p))
      BY <1>4, <1>5, NewOrigin
    <3> QED BY <3>1
  <2> QED BY <2>1, <2>2
<1>7. \A q \in Neighbours(n) \cap S : OfInstance(org[q], r.peers[q])
  <2>1. ASSUME NEW q \in Neighbours(n), q \in DOMAIN r.org PROVE OfInstance(org[q], r.peers[q])
    BY <2>1 DEF NodeOK, Sound
  <2>2. ASSUME NEW q \in Neighbours(n), q \in new PROVE OfInstance(org[q], r.peers[q])
    <3>1. OfInstance(Origin(p), r.peers[q])
      BY <1>2, <1>4, <1>5, <2>2, NewOrigin
    <3> QED BY <2>2, <3>1
  <2> QED BY <2>1, <2>2
<1>8. org = [o \in S |-> org[o]]
  OBVIOUS
<1>9. Sound(K, U, n, s)
  <2> HIDE DEF org, S
  <2> QED BY <1>4, <1>6, <1>7, <1>8, SoundOrigins DEF NodeOK, Sound
<1> HIDE DEF s
<1>10. NodeOK(K, U, n, Recompute(s))
  BY <1>9, Recomputed
<1>11. ASSUME NEW q \in Neighbours(n) \ {p} PROVE f \in Frames(K, n, q)
  <2>1. f.s \subseteq Behind(n, q)
    BY <1>11, Onward
  <2> QED BY <2>1 DEF Frames, Topologies
<1> QED BY <1>1, <1>10, <1>11, ToldOthers

\* The servers that are named are gone, whatever was known of them.
LEMMA Left ==
    ASSUME NEW K, Unambiguous(K), NEW U, NEW n \in Servers, NEW r, r \in NodeRecords(n), Local(K, n, r),
           NEW p, NEW f, f.s \subseteq Servers, f = [m |-> "SQUIT", s |-> f.s],
           \A o \in DOMAIN r.org \ f.s : OriginOK(K, U, n, o, r.org[o]),
           \A q \in Neighbours(n) \cap (DOMAIN r.org \ f.s) : OfInstance(r.org[q], r.peers[q]),
           \A q \in Neighbours(n) : r.out[q] \in Traffic(K, n, q)
    PROVE  NodeOK(K, U, n, HearSquit(r, p, f))
<1> DEFINE S == DOMAIN r.org \ f.s
           org == [o \in S |-> r.org[o]]
           s == [r EXCEPT !.org = org]
<1>1. HearSquit(r, p, f) = Others(Recompute(s), p, f)
  BY DEF HearSquit
<1>2. S \in SUBSET (Servers \ {n})
  BY DEF NodeRecords
<1>3. \A o \in S : OriginOK(K, U, n, o, org[o])
  OBVIOUS
<1>4. \A q \in Neighbours(n) \cap S : OfInstance(org[q], r.peers[q])
  OBVIOUS
<1>5. org = [o \in S |-> org[o]]
  OBVIOUS
<1>6. Sound(K, U, n, s)
  <2> HIDE DEF org, S
  <2> QED BY <1>2, <1>3, <1>4, <1>5, SoundOrigins
<1> HIDE DEF s
<1>7. NodeOK(K, U, n, Recompute(s))
  BY <1>6, Recomputed
<1>8. \A q \in Neighbours(n) \ {p} : f \in Frames(K, n, q)
  BY DEF Frames, Topologies
<1> QED BY <1>1, <1>7, <1>8, ToldOthers

LEMMA HearSquitOK ==
    ASSUME NEW K, Unambiguous(K), NEW U, NEW n \in Servers, NEW r, NodeOK(K, U, n, r),
           NEW p, NEW f, f.s \subseteq Servers, f = [m |-> "SQUIT", s |-> f.s]
    PROVE  NodeOK(K, U, n, HearSquit(r, p, f))
BY Left DEF NodeOK, Sound

LEMMA HearOK ==
    ASSUME NEW K, Unambiguous(K), NEW U, NEW n \in Servers, NEW r, NodeOK(K, U, n, r),
           NEW p \in Neighbours(n), {n, p} \in U, NEW f \in Frames(K, p, n)
    PROVE  NodeOK(K, U, n, Hear(r, p, f))
<1>1. CASE f \in Greetings
  <2>1. f.e \in Nat /\ f.m \in {"HEL", "ACK"}
    BY <1>1 DEF Greetings
  <2>2. CASE f.m = "HEL"
    <3>1. Hear(r, p, f) = HearHel(r, p, f)
      BY <2>2 DEF Hear
    <3> QED BY <2>1, <3>1, HearHelOK
  <2>3. CASE f.m = "ACK"
    <3>1. Hear(r, p, f) = HearAck(r, p, f)
      BY <2>3 DEF Hear
    <3> QED BY <2>1, <3>1, HearAckOK
  <2> QED BY <2>1, <2>2, <2>3
<1>2. CASE f \in [m : {"SID"}, s : SUBSET Behind(p, n)]
  <2>1. f.m = "SID" /\ f.s \subseteq Behind(p, n) /\ f = [m |-> "SID", s |-> f.s]
    BY <1>2
  <2>2. Hear(r, p, f) = HearSid(r, p, f)
    BY <2>1 DEF Hear
  <2> QED BY <2>1, <2>2, HearSidOK
<1>3. CASE f \in [m : {"SQUIT"}, s : SUBSET Servers]
  <2>1. f.m = "SQUIT" /\ f.s \subseteq Servers /\ f = [m |-> "SQUIT", s |-> f.s]
    BY <1>3
  <2>2. Hear(r, p, f) = HearSquit(r, p, f)
    BY <2>1 DEF Hear
  <2> QED BY <2>1, <2>2, HearSquitOK
<1>4. CASE f \in News(K)
  <2>1. PICK a \in K : f \in NewsOf(a)
    BY <1>4 DEF News
  <2>2. CASE f = Frame("BEGIN", a.o, a, a.x)
    <3>1. f.m = "BEGIN"
      BY <2>2 DEF Frame
    <3>2. Hear(r, p, f) = IF Confirmed(r, p) THEN HearBegin(r, p, f) ELSE r
      BY <3>1 DEF Hear
    <3> QED BY <2>2, <3>2, HearBeginOK
  <2>3. CASE f = Frame("END", a.o, a, {})
    <3>1. f.m = "END"
      BY <2>3 DEF Frame
    <3>2. Hear(r, p, f) = IF Confirmed(r, p) THEN HearEnd(r, p, f) ELSE r
      BY <3>1 DEF Hear
    <3> QED BY <2>3, <3>2, HearEndOK
  <2>4. ASSUME NEW c \in a.x, f = Frame("ITEM", a.o, a, c) PROVE NodeOK(K, U, n, Hear(r, p, f))
    <3>1. f.m = "ITEM"
      BY <2>4 DEF Frame
    <3>2. Hear(r, p, f) = IF Confirmed(r, p) THEN HearItem(r, p, f) ELSE r
      BY <3>1 DEF Hear
    <3> QED BY <2>4, <3>2, HearItemOK
  <2> QED BY <2>1, <2>2, <2>3, <2>4 DEF NewsOf
<1> QED BY <1>1, <1>2, <1>3, <1>4 DEF Frames, Topologies

-----------------------------------------------------------------------------
(* Steps of the registry.                                                     *)

LEMMA StepPosted ==
    ASSUME NEW K, Unambiguous(K), NEW lines, NEW news, Post(lines, news), up' \subseteq Links,
           DOMAIN news \subseteq Servers,
           \A n \in DOMAIN news : NodeOK(K, up', n, news[n]),
           \A n \in Servers \ DOMAIN news : NodeOK(K, up', n, nodes[n]) /\ nodes[n].out = Silent(n),
           \A d \in Directed : /\ lines[d] \in Traffic(K, d[1], d[2])
                               /\ {d[1], d[2]} \notin up' => lines[d] = <<>>
    PROVE  Registry(K)'
<1>1. nodes' = [n \in Servers |-> IF n \in DOMAIN news THEN [news[n] EXCEPT !.out = Silent(n)] ELSE nodes[n]]
  BY DEF Post
<1>2. wire' = [d \in Directed |-> IF d[1] \in DOMAIN news /\ {d[1], d[2]} \in up'
                                  THEN lines[d] \o news[d[1]].out[d[2]] ELSE lines[d]]
  BY DEF Post
<1>3. ASSUME NEW n \in Servers PROVE NodeOK(K, up', n, nodes'[n]) /\ nodes'[n].out = Silent(n)
  <2>1. CASE n \notin DOMAIN news
    BY <1>1, <2>1
  <2>2. CASE n \in DOMAIN news
    <3>1. nodes'[n] = [news[n] EXCEPT !.out = Silent(n)]
      BY <1>1, <2>2
    <3>2. Silent(n) = [q \in Neighbours(n) |-> Silent(n)[q]]
          /\ \A q \in Neighbours(n) : Silent(n)[q] \in Traffic(K, n, q)
      BY EmptyLine DEF Silent
    <3>3. NodeOK(K, up', n, nodes'[n])
      BY <2>2, <3>1, <3>2, NodeSent
    <3>4. news[n] \in NodeRecords(n)
      BY <2>2 DEF NodeOK, Sound
    <3>5. nodes'[n].out = Silent(n)
      BY <3>1, <3>4 DEF NodeRecords
    <3> QED BY <3>3, <3>5
  <2> QED BY <2>1, <2>2
<1>4. ASSUME NEW d \in Directed
      PROVE  wire'[d] \in Traffic(K, d[1], d[2]) /\ ({d[1], d[2]} \notin up' => wire'[d] = <<>>)
  <2>1. CASE ~(d[1] \in DOMAIN news /\ {d[1], d[2]} \in up')
    BY <1>2, <2>1
  <2>2. CASE d[1] \in DOMAIN news /\ {d[1], d[2]} \in up'
    <3>1. news[d[1]].out[d[2]] \in Traffic(K, d[1], d[2])
      BY <2>2, Pairs DEF NodeOK, Sound
    <3>2. lines[d] \o news[d[1]].out[d[2]] \in Traffic(K, d[1], d[2])
      BY <3>1, ConcatProperties DEF Traffic
    <3> QED BY <1>2, <2>2, <3>2
  <2> QED BY <2>1, <2>2
<1>5. nodes' = [n \in Servers |-> nodes'[n]] /\ wire' = [d \in Directed |-> wire'[d]]
  BY <1>1, <1>2
<1>6. \A n \in Servers : NodeOK(K, up', n, nodes'[n]) /\ nodes'[n].out = Silent(n)
  BY <1>3
<1>7. \A d \in Directed : /\ wire'[d] \in Traffic(K, d[1], d[2])
                          /\ {d[1], d[2]} \notin up' => wire'[d] = <<>>
  BY <1>4
<1> QED BY <1>5, <1>6, <1>7 DEF Registry

LEMMA OneOK ==
    ASSUME NEW n, NEW r
    PROVE  DOMAIN One(n, r) = {n} /\ One(n, r)[n] = r
BY DEF One

LEMMA Longer ==
    ASSUME NEW S, NEW s \in Seq(S), s # <<>>, Len(s) # 1
    PROVE  Tail(s) \in Seq(S) \ {<<>>}
<1>1. Len(s) \in Nat /\ Len(s) # 0
  BY EmptySeq, LenProperties
<1>2. Tail(s) \in Seq(S) /\ Len(Tail(s)) = Len(s) - 1
  BY HeadTailProperties
<1>3. PICK t \in Seq(S) : t = Tail(s)
  BY <1>2
<1>4. Len(t) # 0
  BY <1>1, <1>2, <1>3
<1>5. t # <<>>
  BY <1>4, EmptySeq
<1> QED BY <1>3, <1>5

\* The frames that are left when the first one is taken.
LEMMA RestOK ==
    ASSUME NEW K, NEW n, NEW q, NEW line \in Traffic(K, n, q), line # <<>>
    PROVE  Head(Head(line)) \in Frames(K, n, q) /\ Rest(line) \in Traffic(K, n, q)
<1>1. Head(line) \in Bursts(K, n, q) /\ Tail(line) \in Traffic(K, n, q)
  BY HeadTailProperties DEF Traffic
<1>2. Head(line) \in Seq(Frames(K, n, q)) /\ Head(line) # <<>>
  BY <1>1 DEF Bursts
<1>3. /\ Head(Head(line)) \in Frames(K, n, q) /\ Tail(Head(line)) \in Seq(Frames(K, n, q))
      /\ Len(Tail(Head(line))) = Len(Head(line)) - 1 /\ Len(Head(line)) \in Nat
  BY <1>2, HeadTailProperties, LenProperties
<1>4. CASE Len(Head(line)) = 1
  BY <1>1, <1>3, <1>4 DEF Rest
<1>5. CASE Len(Head(line)) # 1
  <2>1. Tail(Head(line)) \in Bursts(K, n, q)
    BY <1>2, <1>5, Longer DEF Bursts
  <2>2. <<Tail(Head(line))>> \in Traffic(K, n, q)
    BY <2>1 DEF Traffic
  <2>3. <<Tail(Head(line))>> \o Tail(line) \in Traffic(K, n, q)
    BY <1>1, <2>2, ConcatProperties DEF Traffic
  <2> QED BY <1>3, <1>5, <2>3 DEF Rest
<1> QED BY <1>4, <1>5

LEMMA DeliverKeeps ==
    ASSUME NEW K, Registry(K), NEW d \in Directed, Deliver(d)
    PROVE  Registry(K)'
<1> DEFINE n == d[2]
           f == Head(Head(wire[d]))
           lines == [wire EXCEPT ![d] = Rest(@)]
           news == One(n, Hear(nodes[n], d[1], f))
<1>1. up' = up /\ wire[d] # <<>> /\ Post(lines, news)
  BY DEF Deliver
<1>2. Unambiguous(K) /\ up \subseteq Links
  BY DEF Registry
<1>3. n \in Servers /\ d[1] \in Neighbours(n) /\ {n, d[1]} \in up
  <2>1. d[1] \in Servers /\ d[2] \in Neighbours(d[1]) /\ d[1] \in Neighbours(d[2])
    BY Pairs
  <2>2. d[2] \in Servers /\ {d[2], d[1]} = {d[1], d[2]}
    BY <2>1, Pairs
  <2>3. {d[1], d[2]} \in up
    BY <1>1 DEF Registry
  <2> QED BY <2>1, <2>2, <2>3
<1>4. f \in Frames(K, d[1], n) /\ Rest(wire[d]) \in Traffic(K, d[1], n)
  <2>1. wire[d] \in Traffic(K, d[1], n)
    BY DEF Registry
  <2> QED BY <1>1, <2>1, RestOK
<1>5. NodeOK(K, up', n, Hear(nodes[n], d[1], f))
  <2>1. NodeOK(K, up, n, nodes[n])
    BY <1>3 DEF Registry
  <2> HIDE DEF f, n
  <2> QED BY <1>1, <1>2, <1>3, <1>4, <2>1, HearOK
<1>6. DOMAIN news = {n} /\ news[n] = Hear(nodes[n], d[1], f)
  BY OneOK
<1>7. \A m \in Servers \ {n} : NodeOK(K, up', m, nodes[m]) /\ nodes[m].out = Silent(m)
  BY <1>1 DEF Registry
<1>8. ASSUME NEW c \in Directed
      PROVE  lines[c] \in Traffic(K, c[1], c[2]) /\ ({c[1], c[2]} \notin up' => lines[c] = <<>>)
  <2>1. wire = [e \in Directed |-> wire[e]]
    BY DEF Registry
  <2>2. CASE c = d
    <3>1. lines[c] = Rest(wire[d])
      BY <2>1, <2>2
    <3>2. {c[1], c[2]} \in up'
      <4>1. {d[1], d[2]} = {d[2], d[1]}
        OBVIOUS
      <4> QED BY <1>1, <1>3, <2>2, <4>1
    <3> QED BY <1>4, <2>2, <3>1, <3>2
  <2>3. CASE c # d
    <3>1. lines[c] = wire[c]
      BY <2>1, <2>3
    <3> QED BY <1>1, <3>1 DEF Registry
  <2> QED BY <2>2, <2>3
<1> HIDE DEF news, lines, f, n
<1> QED BY <1>1, <1>2, <1>3, <1>5, <1>6, <1>7, <1>8, StepPosted

LEMMA ExpireKeeps ==
    ASSUME NEW K, Registry(K), NEW n \in Servers, NEW o, StageExpires(n, o)
    PROVE  Registry(K)'
<1> DEFINE news == One(n, Aborted(nodes[n], o))
<1>1. up' = up /\ o \in DOMAIN nodes[n].org /\ Post(wire, news)
  BY DEF StageExpires
<1>2. Unambiguous(K) /\ up \subseteq Links
  BY DEF Registry
<1>3. NodeOK(K, up', n, Aborted(nodes[n], o))
  <2>1. Sound(K, up, n, nodes[n])
    BY DEF Registry, NodeOK
  <2> QED BY <1>1, <2>1, AbortedOK
<1>4. DOMAIN news = {n} /\ news[n] = Aborted(nodes[n], o)
  BY OneOK
<1>5. \A m \in Servers \ {n} : NodeOK(K, up', m, nodes[m]) /\ nodes[m].out = Silent(m)
  BY <1>1 DEF Registry
<1>6. \A c \in Directed : /\ wire[c] \in Traffic(K, c[1], c[2])
                          /\ {c[1], c[2]} \notin up' => wire[c] = <<>>
  BY <1>1 DEF Registry
<1> HIDE DEF news
<1> QED BY <1>1, <1>2, <1>3, <1>4, <1>5, <1>6, StepPosted

-----------------------------------------------------------------------------
(* Publications.                                                              *)

LEMMA OriginGrown ==
    ASSUME NEW K, NEW L, K \subseteq L, NEW U, NEW n, NEW o, NEW rec, OriginOK(K, U, n, o, rec)
    PROVE  OriginOK(L, U, n, o, rec)
<1>1. \A inv : Holds(K, o, inv) => Holds(L, o, inv)
  BY DEF Holds
<1> QED BY <1>1 DEF OriginOK

\* Others do not mind what somebody publishes.
LEMMA Grown ==
    ASSUME NEW K, NEW L, K \subseteq L, NEW U, NEW n, NEW r, NodeOK(K, U, n, r),
           \A a \in L \ K : a.o # n
    PROVE  NodeOK(L, U, n, r)
<1>1. \A o, rec : OriginOK(K, U, n, o, rec) => OriginOK(L, U, n, o, rec)
  BY OriginGrown
<1>2. Local(L, n, r)
  BY DEF Local, NodeOK, Sound
<1>3. \A q : Traffic(K, n, q) \subseteq Traffic(L, n, q)
  BY Wider
<1> QED BY <1>1, <1>2, <1>3 DEF NodeOK, Sound

Successor(n, r, x) == [o |-> n, e |-> r.epoch, g |-> r.gen + 1, x |-> x]

\* A server that is sound but for its local inventory publishes one.
LEMMA Published ==
    ASSUME NEW L, Unambiguous(L), NEW U, NEW n, NEW r, r \in NodeRecords(n), NEW x \in Contents,
           r.local = None \/ r.local.x # x, Successor(n, r, x) \in L,
           \A a \in L : a.o = n => a.e < r.epoch \/ (a.e = r.epoch /\ a.g <= r.gen + 1),
           \A o \in DOMAIN r.org : OriginOK(L, U, n, o, r.org[o]),
           \A p \in Neighbours(n) \cap DOMAIN r.org : OfInstance(r.org[p], r.peers[p]),
           \A q \in Neighbours(n) : r.out[q] \in Traffic(L, n, q)
    PROVE  NodeOK(L, U, n, Publish(r, x))
<1> DEFINE inv == Inventory(r.epoch, r.gen + 1, x)
           s == [r EXCEPT !.gen = @ + 1, !.local = inv]
<1>1. Publish(r, x) = Broadcast(Recompute(s), r.me, r.me, inv)
  BY DEF Publish
<1>2. r.me = n /\ r.epoch \in Nat \ {0} /\ r.gen \in Nat
  BY DEF NodeRecords
<1>3. inv \in Inventories /\ inv.x = x
  BY <1>2 DEF Inventory, Inventories, Classes
<1>7. Holds(L, n, inv) /\ inv # None
  BY <1>2 DEF Holds, Successor, None, Inventory
<1>9. inv = Inventory(r.epoch, r.gen + 1, inv.x)
  BY <1>3
<1> HIDE DEF inv
<1>10. r.gen + 1 \in Nat
  BY <1>2
<1>4. /\ s \in NodeRecords(n) /\ s.epoch = r.epoch /\ s.gen = r.gen + 1 /\ s.local = inv
      /\ s.org = r.org /\ s.peers = r.peers /\ s.out = r.out
  BY <1>3, <1>10 DEF NodeRecords
<1>5. Local(L, n, s)
  BY <1>3, <1>4, <1>9 DEF Local, Successor
<1>6. Sound(L, U, n, s)
  BY <1>4, <1>5 DEF Sound
<1>8. NodeOK(L, U, n, Recompute(s))
  BY <1>6, Recomputed
<1> HIDE DEF s
<1> QED BY <1>1, <1>2, <1>7, <1>8, Broadcasted

\* What is published is new.
LEMMA Fresh ==
    ASSUME NEW K, Unambiguous(K), NEW n \in Servers, NEW e \in Nat \ {0}, NEW g \in Nat, NEW x \in Contents,
           \A a \in K : a.o = n => a.e < e \/ (a.e = e /\ a.g < g)
    PROVE  Unambiguous(K \cup {[o |-> n, e |-> e, g |-> g, x |-> x]})
<1> DEFINE new == [o |-> n, e |-> e, g |-> g, x |-> x]
<1>1. new \in Publications /\ new.o = n /\ new.e = e /\ new.g = g /\ new.x = x
  BY DEF Publications
<1> HIDE DEF new
<1>2. \A a \in K : a.e \in Nat /\ a.g \in Nat
  BY DEF Unambiguous, Publications
<1>3. \A a \in K : ~(a.o = new.o /\ a.e = new.e /\ a.g = new.g)
  BY <1>1, <1>2
<1>4. Unambiguous(K \cup {new})
  BY <1>1, <1>3 DEF Unambiguous
<1> QED BY <1>4 DEF new

LEMMA PublishPosted ==
    ASSUME NEW K, Registry(K), NEW n \in Servers, NEW a \in Publications, a.o = n,
           Unambiguous(K \cup {a}), NEW s, NodeOK(K \cup {a}, up, n, s),
           up' = up, Post(wire, One(n, s))
    PROVE  Registry(K \cup {a})'
<1> DEFINE L == K \cup {a}
           news == One(n, s)
<1>1. DOMAIN news = {n} /\ news[n] = s
  BY OneOK
<1>2. up \subseteq Links
  BY DEF Registry
<1>3. K \subseteq L /\ Unambiguous(L) /\ NodeOK(L, up, n, s)
  OBVIOUS
<1>4. ASSUME NEW m \in Servers \ {n} PROVE NodeOK(L, up', m, nodes[m]) /\ nodes[m].out = Silent(m)
  <2>1. NodeOK(K, up, m, nodes[m]) /\ nodes[m].out = Silent(m)
    BY DEF Registry
  <2>2. \A b \in L \ K : b.o # m
    OBVIOUS
  <2> HIDE DEF L
  <2>3. NodeOK(L, up, m, nodes[m])
    BY <1>3, <2>1, <2>2, Grown
  <2> QED BY <2>1, <2>3
<1> HIDE DEF L
<1>5. ASSUME NEW c \in Directed
      PROVE  wire[c] \in Traffic(L, c[1], c[2]) /\ ({c[1], c[2]} \notin up' => wire[c] = <<>>)
  <2>1. wire[c] \in Traffic(K, c[1], c[2]) /\ ({c[1], c[2]} \notin up' => wire[c] = <<>>)
    BY DEF Registry
  <2> QED BY <1>3, <2>1, Wider
<1> HIDE DEF news
<1>6. Post(wire, news)
  BY DEF news
<1>7. Registry(L)'
  BY <1>1, <1>2, <1>3, <1>4, <1>5, <1>6, StepPosted
<1> QED BY <1>7 DEF L

LEMMA RehashKeeps ==
    ASSUME NEW K, Registry(K), NEW n \in Servers, NEW x \in Contents, Rehash(n, x)
    PROVE  \E L : Registry(L)'
<1>0. PICK r : r = nodes[n]
  OBVIOUS
<1>1. x # r.local.x /\ up' = up /\ Post(wire, One(n, Publish(r, x)))
  BY <1>0 DEF Rehash
<1>2. NodeOK(K, up, n, r) /\ Unambiguous(K)
  BY <1>0 DEF Registry
<1>3. r \in NodeRecords(n) /\ Local(K, n, r)
  BY <1>2 DEF NodeOK, Sound
<1>4. r.epoch \in Nat \ {0} /\ r.gen \in Nat
  BY <1>3 DEF NodeRecords
<1>5. PICK a : a = Successor(n, r, x)
  OBVIOUS
<1>14. a \in Publications /\ a.o = n /\ a.e = r.epoch /\ a.g = r.gen + 1
  BY <1>4, <1>5 DEF Publications, Successor
<1> DEFINE L == K \cup {a}
<1>6. \A b \in K : b.e \in Nat /\ b.g \in Nat
  BY <1>2 DEF Unambiguous, Publications
<1>7. \A b \in K : b.o = n => b.e < r.epoch \/ (b.e = r.epoch /\ b.g < r.gen + 1)
  BY <1>3, <1>4, <1>6 DEF Local
<1>8. Unambiguous(L)
  <2>1. r.gen + 1 \in Nat
    BY <1>4
  <2> QED BY <1>2, <1>4, <1>5, <1>7, <2>1, Fresh DEF Successor
<1>9. \A b \in L : b.o = n => b.e < r.epoch \/ (b.e = r.epoch /\ b.g <= r.gen + 1)
  BY <1>4, <1>14, <1>6, <1>7
<1>10. K \subseteq L /\ a \in L
  OBVIOUS
<1> HIDE DEF L
<1>11. /\ \A o \in DOMAIN r.org : OriginOK(L, up, n, o, r.org[o])
       /\ \A p \in Neighbours(n) \cap DOMAIN r.org : OfInstance(r.org[p], r.peers[p])
       /\ \A q \in Neighbours(n) : r.out[q] \in Traffic(L, n, q)
  BY <1>2, <1>10, OriginGrown, Wider DEF NodeOK, Sound
<1>12. NodeOK(L, up, n, Publish(r, x))
  BY <1>1, <1>3, <1>5, <1>8, <1>9, <1>10, <1>11, Published
<1>13. Registry(L)'
  BY <1>1, <1>8, <1>12, <1>14, PublishPosted DEF L
<1> QED BY <1>13

LEMMA ReloadKeeps ==
    ASSUME NEW K, Registry(K), NEW n \in Servers, NEW x \in Contents, Reload(n, x)
    PROVE  \E L : Registry(L)'
<1>1. PICK r : r = nodes[n]
  OBVIOUS
<1> DEFINE org == [o \in DOMAIN r.org |-> Origin(r.org[o].dir)]
           peers == [p \in Neighbours(n) |-> Stranger]
           fresh == [r EXCEPT !.epoch = @ + 1, !.gen = 0, !.local = None, !.view = Blind,
                              !.peers = peers, !.org = org]
           linked == {p \in Neighbours(n) : {n, p} \in up}
           s == Greet(Publish(fresh, x), linked)
<1>2. up' = up /\ Post(wire, One(n, s))
  BY <1>1 DEF Reload, Loaded
<1>3. NodeOK(K, up, n, r) /\ Unambiguous(K) /\ r \in NodeRecords(n) /\ Local(K, n, r)
  BY <1>1 DEF Registry, NodeOK, Sound
<1>4. r.epoch \in Nat \ {0} /\ r.epoch + 1 \in Nat \ {0} /\ DOMAIN r.org \subseteq Servers \ {n}
  BY <1>3 DEF NodeRecords
<1>5. \A o \in DOMAIN r.org : /\ \A L : OriginOK(L, up, n, o, org[o])
                              /\ \A peer \in PeerRecords : OfInstance(org[o], peer)
  <2>1. ASSUME NEW o \in DOMAIN r.org, NEW L
        PROVE  OriginOK(L, up, n, o, org[o]) /\ \A peer \in PeerRecords : OfInstance(org[o], peer)
    <3>1. r.org[o].dir = Route[n][o] /\ {n, r.org[o].dir} \in up /\ o \in Servers \ {n}
      BY <1>3, <1>4 DEF NodeOK, Sound, OriginOK
    <3>2. PICK d : d = r.org[o].dir
      OBVIOUS
    <3>3. d \in Neighbours(n) /\ Route[n][o] = d /\ {n, d} \in up
      BY <3>1, <3>2, OclAssumption DEF Tree
    <3>4. org[o] = Origin(d)
      BY <3>2
    <3> HIDE DEF org
    <3> QED BY <3>1, <3>3, <3>4, NewOrigin
  <2> QED BY <2>1
<1>6. peers \in [Neighbours(n) -> PeerRecords]
  BY DEF Stranger, PeerRecords
<1>7. org \in UNION {[S -> OriginRecords] : S \in SUBSET (Servers \ {n})}
  <2>1. org \in [DOMAIN r.org -> OriginRecords]
    BY <1>5 DEF OriginOK
  <2> QED BY <1>4, <2>1
<1>8. DOMAIN org = DOMAIN r.org
  OBVIOUS
<1> HIDE DEF org, peers
<1>9. fresh \in NodeRecords(n)
  <2>1. Blind \in [ready : BOOLEAN, classes : SUBSET Classes]
    BY DEF Blind
  <2> QED BY <1>3, <1>4, <1>6, <1>7, <2>1, NoInventory DEF NodeRecords
<1>10. /\ fresh.epoch = r.epoch + 1 /\ fresh.gen = 0 /\ fresh.local = None /\ fresh.org = org
       /\ fresh.peers = peers /\ fresh.out = r.out
  BY <1>3 DEF NodeRecords
<1> HIDE DEF fresh
<1>11. PICK a : a = Successor(n, fresh, x)
  OBVIOUS
<1>12. a \in Publications /\ a.o = n /\ a.e = r.epoch + 1 /\ a.g = 1
       /\ a = [o |-> n, e |-> r.epoch + 1, g |-> 1, x |-> x]
  BY <1>4, <1>10, <1>11 DEF Publications, Successor
<1> DEFINE L == K \cup {a}
<1>13. \A b \in K : b.e \in Nat /\ b.g \in Nat
  BY <1>3 DEF Unambiguous, Publications
<1>14. \A b \in K : b.o = n => b.e < r.epoch + 1
  BY <1>3, <1>4, <1>13 DEF Local
<1>15. Unambiguous(L)
  BY <1>3, <1>4, <1>12, <1>14, Fresh
<1>16. \A b \in L : b.o = n => b.e < fresh.epoch \/ (b.e = fresh.epoch /\ b.g <= fresh.gen + 1)
  BY <1>10, <1>12, <1>14
<1>17. K \subseteq L /\ a \in L
  OBVIOUS
<1> HIDE DEF L
<1>18. /\ \A o \in DOMAIN fresh.org : OriginOK(L, up, n, o, fresh.org[o])
       /\ \A p \in Neighbours(n) \cap DOMAIN fresh.org : OfInstance(fresh.org[p], fresh.peers[p])
       /\ \A q \in Neighbours(n) : fresh.out[q] \in Traffic(L, n, q)
  <2>1. \A o \in DOMAIN fresh.org : OriginOK(L, up, n, o, fresh.org[o])
    BY <1>5, <1>8, <1>10
  <2>2. \A p \in Neighbours(n) \cap DOMAIN fresh.org : OfInstance(fresh.org[p], fresh.peers[p])
    BY <1>5, <1>6, <1>8, <1>10
  <2>3. \A q \in Neighbours(n) : r.out[q] \in Traffic(L, n, q)
    BY <1>3, <1>17, Wider DEF NodeOK, Sound
  <2> QED BY <1>10, <2>1, <2>2, <2>3
<1>19. NodeOK(L, up, n, Publish(fresh, x))
  BY <1>9, <1>10, <1>11, <1>15, <1>16, <1>17, <1>18, Published
<1>20. NodeOK(L, up, n, s)
  <2> DEFINE t == Publish(fresh, x)
  <2>1. linked \subseteq Neighbours(n)
    OBVIOUS
  <2> HIDE DEF t, linked
  <2> QED BY <1>15, <1>19, <2>1, Greeted DEF t
<1> HIDE DEF s
<1>21. Registry(L)'
  BY <1>2, <1>12, <1>15, <1>20, PublishPosted DEF L
<1> QED BY <1>21

-----------------------------------------------------------------------------
(* Links.                                                                     *)

\* Who loses no link, or wins one, minds only the origins.
LEMMA OtherLinks ==
    ASSUME NEW K, NEW U, NEW V, NEW n, NEW r, NodeOK(K, U, n, r),
           \A o \in DOMAIN r.org : {n, r.org[o].dir} \in U => {n, r.org[o].dir} \in V
    PROVE  NodeOK(K, V, n, r)
BY DEF NodeOK, Sound, OriginOK

LEMMA Lost ==
    ASSUME NEW K, Unambiguous(K), NEW n \in Servers, NodeOK(K, up, n, nodes[n]), NEW p \in Neighbours(n)
    PROVE  NodeOK(K, up \ {{n, p}}, n, Lose(n, p))
<1>1. PICK m : m = nodes[n]
  OBVIOUS
<1> DEFINE peers == [m.peers EXCEPT ![p] = Stranger]
           r == [m EXCEPT !.peers[p] = Stranger]
           gone == {o \in DOMAIN r.org : r.org[o].dir = p}
           V == up \ {{n, p}}
<1>2. NodeOK(K, up, n, m) /\ m \in NodeRecords(n) /\ Local(K, n, m)
  BY <1>1 DEF NodeOK, Sound
<1>3. Lose(n, p) = HearSquit(r, p, Squit(gone))
  BY <1>1 DEF Lose
<1>4. /\ peers \in [Neighbours(n) -> PeerRecords] /\ \A q \in Neighbours(n) \ {p} : peers[q] = m.peers[q]
  BY <1>2 DEF NodeRecords, Stranger, PeerRecords
<1>5. r = [m EXCEPT !.peers = peers]
  OBVIOUS
<1> HIDE DEF peers, r
<1>6. /\ r \in NodeRecords(n) /\ r.epoch = m.epoch /\ r.gen = m.gen /\ r.local = m.local /\ r.org = m.org
      /\ r.peers = peers /\ r.out = m.out
  BY <1>2, <1>4, <1>5 DEF NodeRecords
<1>7. Local(K, n, r)
  BY <1>2, <1>6 DEF Local
<1>8. gone \subseteq Servers /\ Squit(gone).s = gone /\ Squit(gone) = [m |-> "SQUIT", s |-> gone]
  BY <1>6 DEF NodeRecords, Squit
<1>9. ASSUME NEW o \in DOMAIN r.org \ gone PROVE OriginOK(K, V, n, o, r.org[o]) /\ o # p
  <2>1. OriginOK(K, up, n, o, r.org[o]) /\ r.org[o].dir # p /\ o \in Servers \ {n}
    BY <1>2, <1>6, <1>9 DEF NodeOK, Sound, NodeRecords
  <2>2. r.org[o].dir = Route[n][o] /\ {n, r.org[o].dir} \in up
    BY <2>1 DEF OriginOK
  <2>3. r.org[o].dir # n
    BY <2>1, <2>2, OclAssumption DEF Tree
  <2>4. {n, r.org[o].dir} # {n, p}
    BY <2>1, <2>3
  <2>5. Route[n][p] = p
    BY OclAssumption DEF Tree
  <2> QED BY <2>1, <2>2, <2>4, <2>5 DEF OriginOK
<1>10. \A q \in Neighbours(n) \cap (DOMAIN r.org \ gone) : OfInstance(r.org[q], r.peers[q])
  BY <1>2, <1>4, <1>6, <1>9 DEF NodeOK, Sound
<1>11. \A q \in Neighbours(n) : r.out[q] \in Traffic(K, n, q)
  BY <1>2, <1>6 DEF NodeOK, Sound
<1> HIDE DEF gone, V
<1>12. NodeOK(K, V, n, HearSquit(r, p, Squit(gone)))
  BY <1>6, <1>7, <1>8, <1>9, <1>10, <1>11, Left
<1> QED BY <1>3, <1>12 DEF V

LEMMA BreakKeeps ==
    ASSUME NEW K, Registry(K), NEW d \in Directed, LinkBreaks(d[1], d[2])
    PROVE  Registry(K)'
<1>1. PICK n \in Servers, p \in Servers : n = d[1] /\ p = d[2] /\ p \in Neighbours(n) /\ n \in Neighbours(p)
  <2>1. d[1] \in Servers /\ d[2] \in Neighbours(d[1]) /\ d[1] \in Neighbours(d[2])
    BY Pairs
  <2> QED BY <2>1, Pairs
<1> DEFINE news == [k \in {n, p} |-> IF k = n THEN Lose(n, p) ELSE Lose(p, n)]
           lines == [wire EXCEPT ![<<n, p>>] = <<>>, ![<<p, n>>] = <<>>]
           V == up \ {{n, p}}
<1>2. up' = V /\ Post(lines, news) /\ n # p /\ {p, n} = {n, p}
  BY <1>1, Pairs DEF LinkBreaks
<1>3. Unambiguous(K) /\ V \subseteq Links
  BY DEF Registry
<1>4. NodeOK(K, V, n, Lose(n, p)) /\ NodeOK(K, V, p, Lose(p, n))
  <2>1. NodeOK(K, up, n, nodes[n]) /\ NodeOK(K, up, p, nodes[p])
    BY DEF Registry
  <2> QED BY <1>1, <1>2, <1>3, <2>1, Lost
<1>5. ASSUME NEW m \in Servers \ {n, p} PROVE NodeOK(K, V, m, nodes[m]) /\ nodes[m].out = Silent(m)
  <2>1. NodeOK(K, up, m, nodes[m]) /\ nodes[m].out = Silent(m)
    BY DEF Registry
  <2>2. \A q : {m, q} # {n, p}
    OBVIOUS
  <2> QED BY <2>1, <2>2, OtherLinks
<1>6. ASSUME NEW c \in Directed
      PROVE  lines[c] \in Traffic(K, c[1], c[2]) /\ ({c[1], c[2]} \notin V => lines[c] = <<>>)
  <2>1. wire = [e \in Directed |-> wire[e]] /\ wire[c] \in Traffic(K, c[1], c[2])
        /\ ({c[1], c[2]} \notin up => wire[c] = <<>>)
    BY DEF Registry
  <2>2. CASE c \in {<<n, p>>, <<p, n>>}
    <3>1. lines[c] = <<>>
      BY <2>1, <2>2
    <3> QED BY <3>1, EmptyLine
  <2>3. CASE c \notin {<<n, p>>, <<p, n>>}
    <3>1. lines[c] = wire[c]
      BY <2>1, <2>3
    <3>2. c = <<c[1], c[2]>>
      BY DEF Directed
    <3>3. {c[1], c[2]} # {n, p}
      BY <2>3, <3>2
    <3> QED BY <2>1, <3>1, <3>3
  <2> QED BY <2>2, <2>3
<1>7. \A k \in DOMAIN news : NodeOK(K, up', k, news[k])
  BY <1>2, <1>4
<1>8. DOMAIN news = {n, p}
  OBVIOUS
<1> HIDE DEF news, lines, V
<1> QED BY <1>2, <1>3, <1>5, <1>6, <1>7, <1>8, StepPosted

LEMMA Met ==
    ASSUME NEW K, Unambiguous(K), NEW V, up \subseteq V, NEW n \in Servers, NodeOK(K, up, n, nodes[n]),
           NEW p \in Neighbours(n), {n, p} \notin up, {n, p} \in V
    PROVE  NodeOK(K, V, n, Meet(n, p))
<1>1. PICK m : m = nodes[n]
  OBVIOUS
<1> DEFINE sid == Sid(DOMAIN m.org)
           r == Send(m, p, <<sid>>)
           s == HearSid(r, p, Sid({p}))
<1>2. NodeOK(K, up, n, m)
  BY <1>1
<1>3. Meet(n, p) = Greet(s, {p})
  BY <1>1 DEF Meet
<1>4. p \in Servers /\ n \in Neighbours(p) /\ p # n /\ Route[n][p] = p
  BY Pairs, OclAssumption DEF Tree
<1>5. ASSUME NEW o \in DOMAIN m.org PROVE o \in Behind(n, p)
  <2>1. o \in Servers \ {n} /\ Route[n][o] = m.org[o].dir /\ {n, m.org[o].dir} \in up
    <3>1. m \in NodeRecords(n) /\ OriginOK(K, up, n, o, m.org[o])
      BY <1>2 DEF NodeOK, Sound
    <3>2. DOMAIN m.org \subseteq Servers \ {n}
      BY <3>1 DEF NodeRecords
    <3> QED BY <3>1, <3>2 DEF OriginOK
  <2>2. Route[n][o] # p
    BY <2>1
  <2>3. o # p
    BY <1>4, <2>2
  <2>4. Route[p][o] = n
    BY <1>4, <2>1, <2>2, <2>3, OclAssumption DEF Tree
  <2> QED BY <2>1, <2>4 DEF Behind
<1>6. sid \in Frames(K, n, p)
  BY <1>5 DEF Sid, Frames, Topologies
<1>7. NodeOK(K, V, n, m)
  BY <1>2, OtherLinks
<1> HIDE DEF sid
<1>8. NodeOK(K, V, n, r)
  BY <1>6, <1>7, SingleBurst, SentOK
<1> HIDE DEF r
<1>9. /\ Sid({p}).s = {p} /\ Sid({p}) = [m |-> "SID", s |-> {p}] /\ {p} \subseteq Behind(p, n)
  BY <1>4 DEF Sid, Behind
<1>10. NodeOK(K, V, n, s)
  BY <1>8, <1>9, HearSidOK
<1> HIDE DEF s
<1> QED BY <1>3, <1>10, Greeted

LEMMA ReturnKeeps ==
    ASSUME NEW K, Registry(K), NEW d \in Directed, LinkReturns(d[1], d[2])
    PROVE  Registry(K)'
<1>1. PICK n \in Servers, p \in Servers : n = d[1] /\ p = d[2] /\ p \in Neighbours(n) /\ n \in Neighbours(p)
  <2>1. d[1] \in Servers /\ d[2] \in Neighbours(d[1]) /\ d[1] \in Neighbours(d[2])
    BY Pairs
  <2> QED BY <2>1, Pairs
<1> DEFINE news == [k \in {n, p} |-> IF k = n THEN Meet(n, p) ELSE Meet(p, n)]
           V == up \cup {{n, p}}
<1>2. up' = V /\ Post(wire, news) /\ n # p /\ {p, n} = {n, p} /\ {n, p} \in Links \ up
  BY <1>1, Pairs DEF LinkReturns
<1>3. Unambiguous(K) /\ V \subseteq Links
  BY <1>2 DEF Registry
<1>4. NodeOK(K, V, n, Meet(n, p)) /\ NodeOK(K, V, p, Meet(p, n))
  <2>1. NodeOK(K, up, n, nodes[n]) /\ NodeOK(K, up, p, nodes[p])
    BY DEF Registry
  <2> QED BY <1>1, <1>2, <1>3, <2>1, Met
<1>5. ASSUME NEW m \in Servers \ {n, p} PROVE NodeOK(K, V, m, nodes[m]) /\ nodes[m].out = Silent(m)
  <2>1. NodeOK(K, up, m, nodes[m]) /\ nodes[m].out = Silent(m)
    BY DEF Registry
  <2> QED BY <2>1, OtherLinks
<1>6. \A c \in Directed : /\ wire[c] \in Traffic(K, c[1], c[2])
                          /\ {c[1], c[2]} \notin V => wire[c] = <<>>
  BY DEF Registry
<1>7. \A k \in DOMAIN news : NodeOK(K, up', k, news[k])
  BY <1>2, <1>4
<1>8. DOMAIN news = {n, p}
  OBVIOUS
<1> HIDE DEF news, V
<1> QED BY <1>2, <1>3, <1>5, <1>6, <1>7, <1>8, StepPosted

-----------------------------------------------------------------------------
(* The theorems.                                                              *)

LEMMA FirstRecord ==
    ASSUME NEW n, NEW local \in Inventories, NEW view \in [ready : BOOLEAN, classes : SUBSET Classes],
           NEW peers \in [Neighbours(n) -> PeerRecords],
           NEW org \in UNION {[S -> OriginRecords] : S \in SUBSET (Servers \ {n})},
           NEW out \in [Neighbours(n) -> Seq(Seq(UNION {Frames(Publications, n, q) : q \in Neighbours(n)}))]
    PROVE  [me |-> n, epoch |-> 1, gen |-> 1, local |-> local, view |-> view, peers |-> peers,
            org |-> org, out |-> out] \in NodeRecords(n)
BY DEF NodeRecords

LEMMA InitRegistry == Init => OclInvariant
<1> DEFINE K == {[o |-> n, e |-> 1, g |-> 1, x |-> First] : n \in Servers}
           first == Inventory(1, 1, First)
<1> SUFFICES ASSUME Init PROVE OclInvariant
  OBVIOUS
<1>1. Unambiguous(K)
  BY OclAssumption DEF Unambiguous, Publications
<1>2. first \in Inventories /\ first.e = 1 /\ first.g = 1 /\ first.x = First /\ first # None
      /\ \A n \in Servers : Holds(K, n, first)
  <2>1. First \in SUBSET Classes
    BY OclAssumption DEF Classes
  <2>2. first \in Inventories /\ first.e = 1 /\ first.g = 1 /\ first.x = First /\ first # None
    BY <2>1 DEF Inventory, Inventories, None
  <2>3. ASSUME NEW n \in Servers PROVE Holds(K, n, first)
    <3>1. PICK a \in K : a = [o |-> n, e |-> 1, g |-> 1, x |-> First]
      OBVIOUS
    <3>2. a.o = n /\ first = Inventory(a.e, a.g, a.x)
      BY <3>1
    <3> QED BY <3>2 DEF Holds
  <2> QED BY <2>2, <2>3
<1>3. up = Links /\ wire = [d \in Directed |-> <<>>] /\ nodes = [n \in Servers |-> Settled(n)]
  BY DEF Init
<1>4. ASSUME NEW n \in Servers PROVE NodeOK(K, Links, n, Settled(n)) /\ Settled(n).out = Silent(n)
  <2> DEFINE r == Settled(n)
             org == [o \in Servers \ {n} |-> [Origin(Route[n][o]) EXCEPT !.current = first, !.accepted = first]]
             peers == [p \in Neighbours(n) |-> [state |-> "confirmed", epoch |-> 1, replayed |-> TRUE]]
  <2>1. /\ r.me = n /\ r.epoch = 1 /\ r.gen = 1 /\ r.local = first /\ r.org = org /\ r.peers = peers
        /\ r.view = [ready |-> TRUE, classes |-> First] /\ r.out = Silent(n)
    BY DEF Settled
  <2>2. peers \in [Neighbours(n) -> PeerRecords]
    BY DEF PeerRecords
  <2>3. ASSUME NEW o \in Servers \ {n}
        PROVE  /\ OriginOK(K, Links, n, o, org[o]) /\ org[o].current = first
               /\ \A p \in Neighbours(n) : OfInstance(org[o], peers[p])
    <3>1. Route[n][o] \in Neighbours(n) /\ {n, Route[n][o]} \in Links /\ Route[n][o] \in Servers
      BY OclAssumption DEF Tree, Neighbours
    <3>2. PICK d : d = Route[n][o]
      OBVIOUS
    <3>3. OriginOK(K, Links, n, o, Origin(d))
      BY <3>1, <3>2, NewOrigin
    <3>4. Origin(d) \in OriginRecords /\ Origin(d).staging = None /\ Origin(d).got = {}
      BY <3>3 DEF OriginOK, Origin
    <3> DEFINE rec == [Origin(d) EXCEPT !.current = first, !.accepted = first]
    <3>5. org[o] = rec
      BY <3>2
    <3> HIDE DEF first
    <3>6. /\ rec \in OriginRecords /\ rec.dir = Origin(d).dir /\ rec.current = first /\ rec.staging = None
          /\ rec.got = {} /\ rec.accepted = first /\ rec.retired = Origin(d).retired
      BY <1>2, <3>4 DEF OriginRecords
    <3> HIDE DEF rec, org
    <3>7. OriginOK(K, Links, n, o, rec)
      BY <1>2, <3>3, <3>6, NoInventory DEF OriginOK
    <3>8. \A p \in Neighbours(n) : OfInstance(rec, peers[p])
      BY <1>2, <3>6, NoInventory DEF OfInstance
    <3> QED BY <3>5, <3>6, <3>7, <3>8
  <2>4. DOMAIN org = Servers \ {n}
    OBVIOUS
  <2>5. org \in UNION {[S -> OriginRecords] : S \in SUBSET (Servers \ {n})}
    <3>1. org \in [Servers \ {n} -> OriginRecords]
      BY <2>3 DEF OriginOK
    <3> QED BY <3>1
  <2>6. Silent(n) \in [Neighbours(n) -> Seq(Seq(UNION {Frames(Publications, n, q) : q \in Neighbours(n)}))]
        /\ \A q \in Neighbours(n) : Silent(n)[q] \in Traffic(K, n, q)
    BY EmptyLine, EmptySeq DEF Silent
  <2>7. First \in SUBSET Classes
    BY OclAssumption DEF Classes
  <2>8. r \in NodeRecords(n)
    <3>1. r = [me |-> n, epoch |-> 1, gen |-> 1, local |-> first,
               view |-> [ready |-> TRUE, classes |-> First], peers |-> peers, org |-> org, out |-> Silent(n)]
      BY DEF Settled
    <3>2. first \in Inventories
      BY <1>2
    <3>3. [ready |-> TRUE, classes |-> First] \in [ready : BOOLEAN, classes : SUBSET Classes]
      BY <2>7
    <3>4. Silent(n) \in [Neighbours(n) -> Seq(Seq(UNION {Frames(Publications, n, q) : q \in Neighbours(n)}))]
      BY <2>6
    <3> HIDE DEF org, peers, first, r
    <3> QED BY <2>2, <2>5, <3>1, <3>2, <3>3, <3>4, FirstRecord
  <2>9. Local(K, n, r)
    <3>1. \A a \in K : a.e = 1 /\ a.g = 1
      OBVIOUS
    <3>2. [o |-> n, e |-> 1, g |-> 1, x |-> First] \in K
      OBVIOUS
    <3>3. r.epoch = 1 /\ r.gen = 1 /\ r.local = first /\ r.local.x = First
      BY <1>2, <2>1
    <3> HIDE DEF K, r
    <3> QED BY <3>1, <3>2, <3>3 DEF Local
  <2> HIDE DEF org, peers, r
  <2>10. Sound(K, Links, n, r)
    BY <2>1, <2>3, <2>4, <2>6, <2>8, <2>9 DEF Sound
  <2>11. Exact(r)
    <3>1. Complete(r)
      BY <1>2, <2>1, <2>3, <2>4 DEF Complete
    <3>2. Common(r) = First
      BY <1>2, <2>1, <2>3, <2>4 DEF Common
    <3> QED BY <2>1, <3>1, <3>2 DEF Exact, Projection
  <2> QED BY <2>1, <2>10, <2>11 DEF NodeOK, r
<1> HIDE DEF K, first
<1>5. \A d \in Directed : wire[d] = <<>> /\ wire[d] \in Traffic(K, d[1], d[2])
  BY <1>3, EmptyLine
<1>6. \A n \in Servers : NodeOK(K, up, n, nodes[n]) /\ nodes[n].out = Silent(n)
  BY <1>3, <1>4
<1>7. nodes = [n \in Servers |-> nodes[n]] /\ wire = [d \in Directed |-> wire[d]]
  BY <1>3
<1>8. Registry(K)
  BY <1>1, <1>3, <1>5, <1>6, <1>7 DEF Registry
<1> QED BY <1>1, <1>8 DEF OclInvariant, Unambiguous

LEMMA StepKeeps == OclInvariant /\ [Next]_vars => OclInvariant'
<1> SUFFICES ASSUME OclInvariant, [Next]_vars PROVE OclInvariant'
  OBVIOUS
<1>1. PICK K \in SUBSET Publications : Registry(K)
  BY DEF OclInvariant
<1>2. \E L : Registry(L)'
  <2>1. ASSUME NEW d \in Directed, Deliver(d) PROVE \E L : Registry(L)'
    BY <1>1, <2>1, DeliverKeeps
  <2>2. ASSUME NEW n \in Servers, NEW x \in Contents, Rehash(n, x) PROVE \E L : Registry(L)'
    BY <1>1, <2>2, RehashKeeps
  <2>3. ASSUME NEW n \in Servers, NEW x \in Contents, Reload(n, x) PROVE \E L : Registry(L)'
    BY <1>1, <2>3, ReloadKeeps
  <2>4. ASSUME NEW n \in Servers, NEW o \in Servers, StageExpires(n, o) PROVE \E L : Registry(L)'
    BY <1>1, <2>4, ExpireKeeps
  <2>5. ASSUME NEW d \in Directed, LinkBreaks(d[1], d[2]) PROVE \E L : Registry(L)'
    BY <1>1, <2>5, BreakKeeps
  <2>6. ASSUME NEW d \in Directed, LinkReturns(d[1], d[2]) PROVE \E L : Registry(L)'
    BY <1>1, <2>6, ReturnKeeps
  <2>7. CASE UNCHANGED vars
    <3>1. Registry(K)'
      BY <1>1, <2>7 DEF vars, Registry, Silent
    <3> QED BY <3>1
  <2> QED BY <2>1, <2>2, <2>3, <2>4, <2>5, <2>6, <2>7 DEF Next
<1>3. PICK L : Registry(L)'
  BY <1>2
<1>4. L \in SUBSET Publications
  BY <1>3 DEF Registry, Unambiguous
<1> QED BY <1>3, <1>4 DEF OclInvariant

\* The invariant holds for any tree of servers and any number of events.
THEOREM RegistryInvariant == Spec => []OclInvariant
<1> QED BY InitRegistry, StepKeeps, PTL DEF Spec

\* Every reachable state is well typed: origins are reached over links that are up, what was
\* received of an inventory is part of it, and few epochs are remembered.
THEOREM OclTypeCorrect == Spec => []OclTypeOK
<1>1. OclInvariant => OclTypeOK
  <2> SUFFICES ASSUME NEW K, Registry(K), NEW n \in Servers
               PROVE  LET r == nodes[n]
                      IN  /\ DOMAIN r.org \subseteq Servers \ {n} /\ r.local.x \in Contents
                          /\ \A o \in DOMAIN r.org :
                                /\ {n, r.org[o].dir} \in up
                                /\ r.org[o].got \subseteq r.org[o].staging.x
                                /\ r.org[o].staging # None => r.org[o].staging = r.org[o].accepted
                                /\ Len(r.org[o].retired) <= RetiredMax
    BY DEF OclInvariant, OclTypeOK
  <2>1. Sound(K, up, n, nodes[n]) /\ Unambiguous(K)
    BY DEF Registry, NodeOK
  <2>2. DOMAIN nodes[n].org \subseteq Servers \ {n}
    BY <2>1 DEF Sound, NodeRecords
  <2>3. nodes[n].local.x \in Contents
    BY <2>1 DEF Sound, Local, Unambiguous, Publications
  <2> QED BY <2>1, <2>2, <2>3 DEF Sound, OriginOK
<1> QED BY <1>1, RegistryInvariant, PTL

\* What a server shows is what the inventories it holds at that moment have in common.
THEOREM ViewsAreExact == Spec => []ViewExact
<1>1. OclInvariant => ViewExact
  BY DEF OclInvariant, Registry, NodeOK, Exact, ViewExact
<1> QED BY <1>1, RegistryInvariant, PTL

\* While an inventory is being received, nothing is called common.
THEOREM RegistryFailsClosed == Spec => []FailClosed
<1>1. OclInvariant => FailClosed
  <2> SUFFICES ASSUME NEW K, Registry(K), NEW n \in Servers, NEW o \in DOMAIN nodes[n].org,
                      nodes[n].org[o].staging # None
               PROVE  ~nodes[n].view.ready
    BY DEF OclInvariant, FailClosed
  <2>1. NodeOK(K, up, n, nodes[n])
    BY DEF Registry
  <2>2. nodes[n].org[o].current = None
    BY <2>1 DEF NodeOK, Sound, OriginOK
  <2>3. ~Complete(nodes[n])
    BY <2>2 DEF Complete
  <2> QED BY <2>1, <2>3 DEF NodeOK, Exact, Projection, Blind
<1> QED BY <1>1, RegistryInvariant, PTL

\* A neighbour's inventory is of the instance it greeted with.
THEOREM DeadInstancesNeverCount == Spec => []NoDeadInstance
<1>1. OclInvariant => NoDeadInstance
  BY DEF OclInvariant, Registry, NodeOK, Sound, OfInstance, NoDeadInstance
<1> QED BY <1>1, RegistryInvariant, PTL
=============================================================================
