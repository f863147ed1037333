--------------------------- MODULE UdbCacheProofs ---------------------------
(* Proofs about UdbCache, for any readers, files, slots, sizes and generations. *)
EXTENDS UdbCache, FiniteSetTheorems, TLAPS

\* Each part needs the others: a page may be freed because its pins are counted exactly, and
\* the budget comes out because what is free to go is charged to the cache.
CacheInvariant == CacheTypeOK /\ PinsExact /\ WithinBudget /\ Coherent

-----------------------------------------------------------------------------
(* Sets of slots and of readers, and their sizes.                             *)

LEMMA Sizes ==
    /\ IsFiniteSet(Resident) /\ IsFiniteSet(Idle)
    /\ \A c : IsFiniteSet(Of(c)) /\ Cardinality(Of(c)) \in Nat
    /\ \A s : IsFiniteSet(HeldBy(s)) /\ Cardinality(HeldBy(s)) \in Nat
<1>1. IsFiniteSet(Slots) /\ IsFiniteSet(Readers)
  BY CacheAssumption
<1>2. \A T \in SUBSET Slots : IsFiniteSet(T) /\ Cardinality(T) \in Nat
  BY <1>1, FS_Subset, FS_CardinalityType
<1>3. \A T \in SUBSET Readers : IsFiniteSet(T) /\ Cardinality(T) \in Nat
  BY <1>1, FS_Subset, FS_CardinalityType
<1>4. /\ Resident \in SUBSET Slots /\ Idle \in SUBSET Slots
      /\ \A c : Of(c) \in SUBSET Slots
      /\ \A s : HeldBy(s) \in SUBSET Readers
  BY DEF Resident, Idle, Of, HeldBy
<1> QED BY <1>2, <1>3, <1>4

LEMMA EntryType ==
    ASSUME CacheTypeOK, NEW s \in Resident
    PROVE  /\ s \in Slots /\ entry[s] \in Entries
           /\ entry[s].page \in Pages /\ entry[s].page[1] \in Files
           /\ entry[s].gen \in Nat /\ entry[s].kind \in Kinds
           /\ entry[s].pins \in Nat /\ entry[s].transient \in BOOLEAN
           /\ entry[s].class \in Classes /\ entry[s].used = TRUE
<1>1. s \in Slots /\ entry[s].used /\ entry[s] \in Entries \cup {Free}
  BY DEF CacheTypeOK, Resident
<1>2. entry[s] \in Entries
  BY <1>1 DEF Free
<1> QED BY <1>1, <1>2 DEF Entries, Pages

\* Whoever holds a page keeps it from being idle.
LEMMA HeldIsPinned ==
    ASSUME CacheTypeOK, PinsExact, NEW r \in Readers, held[r] # None
    PROVE  /\ held[r] \in Resident /\ held[r] \notin Idle
           /\ entry[held[r]].pins \in Nat /\ entry[held[r]].pins >= 1
<1> DEFINE s == held[r]
<1>1. s \in Resident /\ entry[s].pins = Cardinality(HeldBy(s))
  BY DEF PinsExact
<1>2. r \in HeldBy(s)
  BY DEF HeldBy
<1>3. Cardinality(HeldBy(s)) # 0
  BY <1>2, Sizes, FS_EmptySet
<1>4. Cardinality(HeldBy(s)) \in Nat
  BY Sizes
<1>5. entry[s].pins >= 1 /\ entry[s].pins \in Nat
  BY <1>1, <1>3, <1>4
<1> QED BY <1>1, <1>5 DEF Idle

LEMMA LastPin ==
    ASSUME CacheTypeOK, PinsExact, NEW r1 \in Readers, NEW r2 \in Readers,
           held[r1] # None, held[r2] = held[r1], entry[held[r1]].pins = 1
    PROVE  r1 = r2
<1> DEFINE s == held[r1]
<1>1. s \in Resident /\ Cardinality(HeldBy(s)) = 1
  BY DEF PinsExact
<1>2. PICK r : HeldBy(s) = {r}
  BY <1>1, Sizes, FS_Singleton
<1>3. r1 \in HeldBy(s) /\ r2 \in HeldBy(s)
  BY DEF HeldBy
<1> QED BY <1>2, <1>3

-----------------------------------------------------------------------------
(* What goes when entries are freed.                                          *)

LEMMA DropShape ==
    ASSUME CacheTypeOK, NEW S \in SUBSET Resident, entry' = Erased(S)
    PROVE  /\ Resident' = Resident \ S
           /\ \A c : Of(c)' = Of(c) \ S
           /\ \A s \in Resident \ S : entry'[s] = entry[s]
           /\ entry' \in [Slots -> Entries \cup {Free}]
<1>1. S \in SUBSET Slots
  BY DEF Resident
<1>2. \A s \in Slots : entry'[s] = IF s \in S THEN Free ELSE entry[s]
  BY DEF Erased
<1>3. Free.used = FALSE
  BY DEF Free
<1>4. Resident' = Resident \ S
  BY <1>1, <1>2, <1>3 DEF Resident
<1>5. \A s \in Resident \ S : entry'[s] = entry[s]
  BY <1>2 DEF Resident
<1>6. \A c : Of(c)' = Of(c) \ S
  BY <1>4, <1>5 DEF Of
<1>7. entry' \in [Slots -> Entries \cup {Free}]
  BY DEF Erased, CacheTypeOK
<1> QED BY <1>4, <1>5, <1>6, <1>7

LEMMA DropCharge ==
    ASSUME CacheTypeOK, WithinBudget, NEW S \in SUBSET Resident
    PROVE  /\ Uncharged(S) \in [Classes -> Nat]
           /\ \A c \in Classes : /\ Uncharged(S)[c] = Cardinality(Of(c) \ S)
                                 /\ Uncharged(S)[c] <= used[c]
<1> SUFFICES ASSUME NEW c \in Classes
             PROVE  /\ Uncharged(S)[c] \in Nat
                    /\ Uncharged(S)[c] = Cardinality(Of(c) \ S)
                    /\ Uncharged(S)[c] <= used[c]
  BY DEF Uncharged
<1>1. IsFiniteSet(Of(c)) /\ used[c] = Cardinality(Of(c)) /\ used[c] \in Nat
  BY Sizes DEF WithinBudget
<1>2. Cardinality(Of(c) \ S) = Cardinality(Of(c)) - Cardinality(Of(c) \cap S)
  BY <1>1, FS_Difference
<1>3. Of(c) \cap S = S \cap Of(c)
  OBVIOUS
<1>4. Uncharged(S)[c] = Cardinality(Of(c) \ S)
  BY <1>1, <1>2, <1>3 DEF Uncharged
<1>5. IsFiniteSet(Of(c) \ S) /\ Cardinality(Of(c) \ S) <= Cardinality(Of(c))
  BY <1>1, FS_Subset
<1>6. Cardinality(Of(c) \ S) \in Nat
  BY <1>5, FS_CardinalityType
<1> QED BY <1>1, <1>4, <1>5, <1>6

-----------------------------------------------------------------------------
(* One lemma for each way in which the entries change.                        *)

\* Pages nobody has pinned go; the rest of them stand where they stood.
LEMMA EvictKeeps ==
    ASSUME CacheInvariant, NEW S \in SUBSET Idle,
           entry' = Erased(S), used' = Uncharged(S), held' = held,
           limit' \in Nat, used'["CACHE"] <= limit',
           disk' \in [Pages -> OnDisk], open' \subseteq Files, bypass' \in BOOLEAN,
           \A s \in Resident \ S : /\ entry[s].page[1] \in open'
                                   /\ disk'[entry[s].page] = disk[entry[s].page]
    PROVE  CacheInvariant'
<1> USE DEF CacheInvariant
<1>1. S \in SUBSET Resident
  BY DEF Idle
<1>2. /\ Resident' = Resident \ S
      /\ \A c : Of(c)' = Of(c) \ S
      /\ \A s \in Resident \ S : entry'[s] = entry[s]
      /\ entry' \in [Slots -> Entries \cup {Free}]
  BY <1>1, DropShape
<1>3. /\ used' \in [Classes -> Nat]
      /\ \A c \in Classes : used'[c] = Cardinality(Of(c) \ S) /\ used'[c] <= used[c]
  BY <1>1, DropCharge
<1>4. CacheTypeOK'
  BY <1>2, <1>3 DEF CacheTypeOK
<1>5. PinsExact'
  <2>1. \A s : HeldBy(s)' = HeldBy(s)
    BY DEF HeldBy
  <2>2. \A r \in Readers : held[r] # None => held[r] \in Resident \ S
    BY HeldIsPinned
  <2> QED BY <1>2, <2>1, <2>2 DEF PinsExact
<1>6. WithinBudget'
  <2>1. \A c \in Classes : used'[c] = Cardinality(Of(c)')
    BY <1>2, <1>3
  <2>2. used'["AUX"] <= AuxLimit
    BY <1>3, CacheAssumption DEF WithinBudget, CacheTypeOK, Classes
  <2>3. \A s \in Resident' : entry'[s].class = IF entry'[s].transient THEN "AUX" ELSE "CACHE"
    BY <1>2 DEF WithinBudget
  <2> QED BY <2>1, <2>2, <2>3 DEF WithinBudget
<1>7. Coherent'
  BY <1>2 DEF Coherent
<1> QED BY <1>4, <1>5, <1>6, <1>7

\* A page comes in place of at most what went, to a reader who had none.
LEMMA AdmitKeeps ==
    ASSUME CacheInvariant, NEW r \in Readers, held[r] = None,
           NEW p \in Pages, p[1] \in open, disk[p].gen > 0,
           NEW S \in SUBSET Idle, NEW s \in Slots,
           NEW transient \in BOOLEAN, NEW class \in Classes,
           class = IF transient THEN "AUX" ELSE "CACHE",
           Admit(r, p, s, S, transient, class),
           Uncharged(S)[class] < IF transient THEN AuxLimit ELSE limit,
           transient \/ \A t \in Resident : entry[t].page # p \/ entry[t].transient
    PROVE  CacheInvariant'
<1> USE DEF CacheInvariant
<1> DEFINE new == Entry(p, transient, class)
<1>1. S \in SUBSET Resident /\ S \in SUBSET Slots /\ s \notin Resident \ S
  BY DEF Idle, Resident, Admit
<1>2. new \in Entries /\ new.used
  BY DEF Entry, Entries, CacheTypeOK, OnDisk
<1>3. /\ entry'[s] = new
      /\ \A t \in Slots \ {s} : entry'[t] = IF t \in S THEN Free ELSE entry[t]
      /\ entry' \in [Slots -> Entries \cup {Free}]
  BY <1>2 DEF Admit, Erased, CacheTypeOK
<1>4. /\ Resident' = (Resident \ S) \cup {s}
      /\ \A t \in Resident \ S : t # s /\ entry'[t] = entry[t]
  BY <1>1, <1>2, <1>3 DEF Resident, Free
<1>5. new.class = class /\ new.transient = transient /\ new.pins = 1 /\ new.page = p
      /\ new.gen = disk[p].gen /\ new.kind = disk[p].kind
  BY DEF Entry
<1>6. \A c : Of(c)' = IF c = class THEN (Of(c) \ S) \cup {s} ELSE Of(c) \ S
  BY <1>3, <1>4, <1>5 DEF Of
<1>7. /\ Uncharged(S) \in [Classes -> Nat]
      /\ \A c \in Classes : /\ Uncharged(S)[c] = Cardinality(Of(c) \ S)
                            /\ Uncharged(S)[c] <= used[c]
  BY <1>1, DropCharge
<1>8. used' = [Uncharged(S) EXCEPT ![class] = @ + 1]
  BY DEF Admit
<1>9. CacheTypeOK'
  BY <1>3, <1>7, <1>8 DEF CacheTypeOK, Admit
<1>10. PinsExact'
  <2>1. \A t \in Readers : held[t] # None => held[t] \in Resident \ S
    BY HeldIsPinned
  <2>2. \A t \in Readers : held'[t] = IF t = r THEN s ELSE held[t]
    BY DEF Admit, CacheTypeOK
  <2>3. HeldBy(s)' = {r}
    BY <1>4, <2>1, <2>2, CacheAssumption DEF HeldBy
  <2>4. \A t \in Resident \ S : HeldBy(t)' = HeldBy(t)
    BY <1>4, <2>2, CacheAssumption DEF HeldBy, Resident
  <2>5. Cardinality(HeldBy(s)') = 1
    BY <2>3, FS_Singleton
  <2>6. \A t \in Resident' : /\ entry'[t].pins = Cardinality(HeldBy(t)')
                             /\ entry'[t].transient => entry'[t].pins = 1
    BY <1>3, <1>4, <1>5, <2>4, <2>5 DEF PinsExact
  <2>7. \A t \in Readers : held'[t] # None => held'[t] \in Resident'
    BY <1>4, <2>1, <2>2
  <2> QED BY <2>6, <2>7 DEF PinsExact
<1>11. WithinBudget'
  <2>1. \A c \in Classes : IsFiniteSet(Of(c) \ S)
    BY Sizes, FS_Subset
  <2>2. s \notin Of(class) \ S
    BY <1>1 DEF Of
  <2>3. Cardinality((Of(class) \ S) \cup {s}) = Cardinality(Of(class) \ S) + 1
    BY <2>1, <2>2, FS_AddElement
  <2>4. \A c \in Classes : used'[c] = Cardinality(Of(c)')
    BY <1>6, <1>7, <1>8, <2>3
  <2>5. \A t \in Resident' : entry'[t].class = IF entry'[t].transient THEN "AUX" ELSE "CACHE"
    BY <1>3, <1>4, <1>5 DEF WithinBudget
  <2>6. used'["CACHE"] <= limit' /\ used'["AUX"] <= AuxLimit
    BY <1>7, <1>8, CacheAssumption DEF Admit, WithinBudget, CacheTypeOK, Classes
  <2> QED BY <2>4, <2>5, <2>6 DEF WithinBudget
<1>12. Coherent'
  <2>1. disk' = disk /\ open' = open
    BY DEF Admit
  <2>2. disk[p] = [gen |-> new.gen, kind |-> new.kind]
    BY <1>5 DEF CacheTypeOK, OnDisk
  <2>3. \A t \in Resident' : /\ entry'[t].page[1] \in open' /\ entry'[t].gen > 0
                             /\ disk'[entry'[t].page] = [gen |-> entry'[t].gen, kind |-> entry'[t].kind]
    BY <1>3, <1>4, <1>5, <2>1, <2>2 DEF Coherent
  <2>4. \A t \in Resident \ S : transient \/ entry'[t].page # p \/ entry'[t].transient
    BY <1>4
  <2>5. \A t1, t2 \in Resident' :
           entry'[t1].page = entry'[t2].page /\ ~entry'[t1].transient /\ ~entry'[t2].transient
              => t1 = t2
    BY <1>3, <1>4, <1>5, <2>4 DEF Coherent
  <2> QED BY <2>3, <2>5 DEF Coherent
<1> QED BY <1>9, <1>10, <1>11, <1>12

LEMMA HitKeeps ==
    ASSUME CacheInvariant, NEW r \in Readers, NEW p, NEW g, NEW validating,
           Hit(r, p, g, validating)
    PROVE  CacheInvariant'
<1> USE DEF CacheInvariant
<1>1. PICK s \in Hits(p, g, validating) : /\ entry' = [entry EXCEPT ![s].pins = @ + 1]
                                          /\ held' = [held EXCEPT ![r] = s]
  BY DEF Hit
<1>2. s \in Resident /\ s \in Slots /\ ~entry[s].transient /\ held[r] = None
  BY <1>1 DEF Hits, Resident, Hit
<1>3. /\ \A t \in Slots \ {s} : entry'[t] = entry[t]
      /\ entry'[s] = [entry[s] EXCEPT !.pins = @ + 1]
      /\ entry[s] \in Entries
  BY <1>1, <1>2, EntryType DEF CacheTypeOK
<1>4. /\ entry'[s] \in Entries /\ entry'[s].used /\ entry'[s].pins = entry[s].pins + 1
      /\ entry'[s].page = entry[s].page /\ entry'[s].gen = entry[s].gen
      /\ entry'[s].kind = entry[s].kind /\ entry'[s].transient = entry[s].transient
      /\ entry'[s].class = entry[s].class
  <2>1. entry[s].pins \in Nat
    BY <1>2, EntryType
  <2>2. entry[s].pins + 1 \in Nat
    BY <2>1
  <2> QED BY <1>3, <2>2 DEF Entries
<1>5. Resident' = Resident /\ \A c : Of(c)' = Of(c)
  BY <1>2, <1>3, <1>4 DEF Resident, Of
<1>6. \A t \in Resident : /\ entry'[t].page = entry[t].page /\ entry'[t].gen = entry[t].gen
                          /\ entry'[t].kind = entry[t].kind /\ entry'[t].class = entry[t].class
                          /\ entry'[t].transient = entry[t].transient
  BY <1>3, <1>4 DEF Resident
<1>7. UNCHANGED <<limit, used, disk, open, bypass>>
  BY DEF Hit
<1>8. CacheTypeOK'
  BY <1>1, <1>2, <1>4, <1>7 DEF CacheTypeOK
<1>9. PinsExact'
  <2>1. \A t \in Readers : held'[t] = IF t = r THEN s ELSE held[t]
    BY <1>1 DEF CacheTypeOK
  <2>2. HeldBy(s)' = HeldBy(s) \cup {r} /\ r \notin HeldBy(s)
    BY <1>2, <2>1, CacheAssumption DEF HeldBy
  <2>3. \A t \in Slots \ {s} : HeldBy(t)' = HeldBy(t)
    BY <1>2, <2>1, CacheAssumption DEF HeldBy
  <2>4. Cardinality(HeldBy(s)') = Cardinality(HeldBy(s)) + 1
    BY <2>2, Sizes, FS_AddElement
  <2>5. \A t \in Resident : entry'[t].pins = Cardinality(HeldBy(t)')
    <3>1. entry'[s].pins = Cardinality(HeldBy(s)')
      BY <1>2, <1>4, <2>4 DEF PinsExact
    <3>2. ASSUME NEW t \in Resident, t # s PROVE entry'[t].pins = Cardinality(HeldBy(t)')
      BY <1>3, <2>3, <3>2 DEF PinsExact, Resident
    <3> QED BY <3>1, <3>2
  <2>6. \A t \in Resident : t = s \/ entry'[t].pins = entry[t].pins
    BY <1>3 DEF Resident
  <2>7. \A t \in Resident : entry'[t].transient => entry'[t].pins = 1
    BY <1>2, <1>6, <2>6 DEF PinsExact
  <2>8. \A t \in Readers : held'[t] # None => held'[t] \in Resident
    BY <1>2, <2>1 DEF PinsExact
  <2> QED BY <1>5, <2>5, <2>7, <2>8 DEF PinsExact
<1>10. WithinBudget'
  BY <1>5, <1>6, <1>7 DEF WithinBudget
<1>11. Coherent'
  BY <1>5, <1>6, <1>7 DEF Coherent
<1> QED BY <1>8, <1>9, <1>10, <1>11

LEMMA ReleaseKeeps ==
    ASSUME CacheInvariant, NEW r \in Readers, Release(r)
    PROVE  CacheInvariant'
<1> USE DEF CacheInvariant
<1>0. PICK s : s = held[r]
  OBVIOUS
<1>1. s # None /\ s \in Resident /\ s \in Slots /\ entry[s].pins \in Nat /\ entry[s].pins >= 1
  BY <1>0, HeldIsPinned DEF Release, Resident
<1>2. \A t \in Readers : held'[t] = IF t = r THEN None ELSE held[t]
  BY DEF Release, CacheTypeOK
<1>3. \A t \in Slots \ {s} : HeldBy(t)' = HeldBy(t)
  BY <1>0, <1>2, CacheAssumption DEF HeldBy
<1>4. UNCHANGED <<limit, disk, open, bypass>> /\ held' \in [Readers -> Slots \cup {None}]
  BY DEF Release, CacheTypeOK
<1>5. CASE entry[s].transient /\ entry[s].pins = 1
  <2>1. entry' = Erased({s}) /\ used' = Uncharged({s})
    BY <1>0, <1>5 DEF Release
  <2>2. /\ Resident' = Resident \ {s}
        /\ \A c : Of(c)' = Of(c) \ {s}
        /\ \A t \in Resident \ {s} : entry'[t] = entry[t]
        /\ entry' \in [Slots -> Entries \cup {Free}]
    BY <1>1, <2>1, DropShape
  <2>3. /\ used' \in [Classes -> Nat]
        /\ \A c \in Classes : used'[c] = Cardinality(Of(c) \ {s}) /\ used'[c] <= used[c]
    BY <1>1, <2>1, DropCharge
  <2>4. CacheTypeOK'
    BY <1>4, <2>2, <2>3 DEF CacheTypeOK
  <2>5. PinsExact'
    <3>1. \A t \in Readers \ {r} : held[t] # s
      BY <1>0, <1>1, <1>5, LastPin
    <3>2. \A t \in Readers : held'[t] # None => held'[t] \in Resident \ {s}
      BY <1>2, <3>1, HeldIsPinned
    <3> QED BY <1>3, <2>2, <3>2 DEF PinsExact, Resident
  <2>6. WithinBudget'
    <3>1. used'["CACHE"] <= limit' /\ used'["AUX"] <= AuxLimit
      BY <1>4, <2>3, CacheAssumption DEF WithinBudget, CacheTypeOK, Classes
    <3> QED BY <2>2, <2>3, <3>1 DEF WithinBudget
  <2>7. Coherent'
    BY <1>4, <2>2 DEF Coherent
  <2> QED BY <2>4, <2>5, <2>6, <2>7
<1>6. CASE ~(entry[s].transient /\ entry[s].pins = 1)
  <2>1. entry' = [entry EXCEPT ![s].pins = @ - 1] /\ used' = used
    BY <1>0, <1>6 DEF Release
  <2>2. /\ \A t \in Slots \ {s} : entry'[t] = entry[t]
        /\ entry'[s] = [entry[s] EXCEPT !.pins = @ - 1]
        /\ entry[s] \in Entries
    BY <1>1, <2>1, EntryType DEF CacheTypeOK
  <2>3. entry[s].pins - 1 \in Nat
    BY <1>1
  <2>4. /\ entry'[s] \in Entries /\ entry'[s].used /\ entry'[s].pins = entry[s].pins - 1
        /\ entry'[s].page = entry[s].page /\ entry'[s].gen = entry[s].gen
        /\ entry'[s].kind = entry[s].kind /\ entry'[s].transient = entry[s].transient
        /\ entry'[s].class = entry[s].class
    BY <2>2, <2>3 DEF Entries
  <2>5. Resident' = Resident /\ \A c : Of(c)' = Of(c)
    BY <1>1, <2>2, <2>4 DEF Resident, Of
  <2>6. \A t \in Resident : /\ entry'[t].page = entry[t].page /\ entry'[t].gen = entry[t].gen
                            /\ entry'[t].kind = entry[t].kind /\ entry'[t].class = entry[t].class
                            /\ entry'[t].transient = entry[t].transient
    BY <2>2, <2>4 DEF Resident
  <2>7. CacheTypeOK'
    BY <1>1, <1>4, <2>1, <2>4 DEF CacheTypeOK
  <2>8. PinsExact'
    <3>1. ~entry[s].transient
      BY <1>1, <1>6 DEF PinsExact
    <3>2. HeldBy(s)' = HeldBy(s) \ {r} /\ r \in HeldBy(s)
      BY <1>0, <1>1, <1>2 DEF HeldBy
    <3>3. Cardinality(HeldBy(s)') = Cardinality(HeldBy(s)) - 1
      BY <3>2, Sizes, FS_RemoveElement
    <3>4. \A t \in Resident : entry'[t].pins = Cardinality(HeldBy(t)')
      <4>1. entry'[s].pins = Cardinality(HeldBy(s)')
        BY <1>1, <2>4, <3>3 DEF PinsExact
      <4>2. ASSUME NEW t \in Resident, t # s PROVE entry'[t].pins = Cardinality(HeldBy(t)')
        BY <1>3, <2>2, <4>2 DEF PinsExact, Resident
      <4> QED BY <4>1, <4>2
    <3>5. \A t \in Resident : entry'[t].transient => entry'[t].pins = 1
      BY <2>2, <2>6, <3>1 DEF PinsExact, Resident
    <3>6. \A t \in Readers : held'[t] # None => held'[t] \in Resident
      BY <1>2, HeldIsPinned
    <3> QED BY <2>5, <3>4, <3>5, <3>6 DEF PinsExact
  <2>9. WithinBudget'
    BY <1>4, <2>1, <2>5, <2>6 DEF WithinBudget
  <2>10. Coherent'
    BY <1>4, <2>5, <2>6 DEF Coherent
  <2> QED BY <2>7, <2>8, <2>9, <2>10
<1> QED BY <1>5, <1>6

-----------------------------------------------------------------------------
(* The actions.                                                               *)

\* A page that was missed is not there under any generation: what is there is what is on disk.
LEMMA MissedIsAbsent ==
    ASSUME CacheInvariant, NEW r, NEW p \in Pages, NEW g \in Nat, NEW validating \in BOOLEAN,
           Missing(r, p, g, validating), Readable(p, g), validating => disk[p].kind # "DATA"
    PROVE  \A s \in Resident : entry[s].page # p \/ entry[s].transient
<1> SUFFICES ASSUME NEW s \in Resident, entry[s].page = p, ~entry[s].transient
             PROVE  FALSE
  OBVIOUS
<1>1. disk[p] = [gen |-> entry[s].gen, kind |-> entry[s].kind]
  BY DEF CacheInvariant, Coherent
<1>2. entry[s].gen = g /\ entry[s].kind = disk[p].kind
  BY <1>1 DEF Readable
<1> QED BY <1>2 DEF Missing, Hits

\* What has to go leaves room for one page.
LEMMA VictimMakesRoom ==
    ASSUME CacheInvariant, NEW S \in Victims
    PROVE  S \in SUBSET Idle /\ Uncharged(S)["CACHE"] < limit
<1> USE DEF CacheInvariant
<1>1. limit \in Nat /\ used["CACHE"] \in Nat /\ used["CACHE"] <= limit /\ "CACHE" \in Classes
  BY DEF CacheTypeOK, WithinBudget, Classes
<1>2. CASE used["CACHE"] < limit
  <2>1. S = {}
    BY <1>2 DEF Victims
  <2>2. Uncharged(S)["CACHE"] \in Nat /\ Uncharged(S)["CACHE"] <= used["CACHE"]
    BY <1>1, <2>1, DropCharge
  <2> QED BY <1>1, <1>2, <2>1, <2>2
<1>3. CASE ~(used["CACHE"] < limit)
  <2>1. PICK s \in Idle : S = {s}
    BY <1>3 DEF Victims
  <2>2. s \in Resident /\ entry[s].pins = 0
    BY <2>1 DEF Idle
  <2>3. s \in Of("CACHE")
    BY <2>2 DEF PinsExact, WithinBudget, Of
  <2>4. {s} \cap Of("CACHE") = {s} /\ Cardinality({s}) = 1
    BY <2>3, FS_Singleton
  <2>5. Uncharged(S)["CACHE"] = used["CACHE"] - 1
    BY <1>1, <2>1, <2>4 DEF Uncharged
  <2> QED BY <1>1, <2>1, <2>5
<1> QED BY <1>2, <1>3

LEMMA AcquireKeeps ==
    ASSUME CacheInvariant, NEW r \in Readers, Acquire(r)
    PROVE  CacheInvariant'
<1> USE DEF CacheInvariant
<1>1. PICK p \in Pages, g \in 1..MaxGen :
         \/ Hit(r, p, g, FALSE) \/ (bypass /\ Hit(r, p, g, TRUE))
         \/ Miss(r, p, g) \/ MissFails(r, p, g)
         \/ Retain(r, p, g) \/ ReadThrough(r, p, g)
  BY Zenon DEF Acquire
<1>2. g \in Nat /\ g > 0
  BY CacheAssumption
<1>3. CASE Hit(r, p, g, FALSE) \/ Hit(r, p, g, TRUE)
  BY <1>3, HitKeeps
<1>4. CASE Miss(r, p, g)
  <2>1. PICK S \in Victims, s \in Slots : Admit(r, p, s, S, FALSE, "CACHE")
    BY <1>4 DEF Miss
  <2>2. S \in SUBSET Idle /\ Uncharged(S)["CACHE"] < limit
    BY VictimMakesRoom
  <2>3. \A t \in Resident : entry[t].page # p \/ entry[t].transient
    BY <1>2, <1>4, MissedIsAbsent DEF Miss
  <2>4. held[r] = None /\ p[1] \in open /\ disk[p].gen > 0
    BY <1>4 DEF Miss, Missing, Readable
  <2> QED BY <2>1, <2>2, <2>3, <2>4, AdmitKeeps DEF Classes
<1>5. CASE MissFails(r, p, g)
  <2>1. PICK S \in Victims : entry' = Erased(S) /\ used' = Uncharged(S)
    BY <1>5 DEF MissFails
  <2>2. S \in SUBSET Idle /\ Uncharged(S)["CACHE"] < limit
    BY VictimMakesRoom
  <2>3. Uncharged(S)["CACHE"] \in Nat
    BY <2>2, DropCharge DEF Idle, Classes
  <2>4. UNCHANGED <<held, limit, disk, open, bypass>>
    BY <1>5 DEF MissFails
  <2>5. used'["CACHE"] <= limit
    BY <2>1, <2>2, <2>3 DEF CacheTypeOK
  <2>6. \A s \in Resident : entry[s].page[1] \in open
    BY DEF Coherent
  <2> QED BY <2>1, <2>2, <2>4, <2>5, <2>6, EvictKeeps DEF CacheTypeOK
<1>6. CASE Retain(r, p, g)
  <2>1. PICK S \in Victims, s \in Slots : Admit(r, p, s, S, FALSE, "CACHE")
    BY <1>6 DEF Retain
  <2>2. S \in SUBSET Idle /\ Uncharged(S)["CACHE"] < limit
    BY VictimMakesRoom
  <2>3. \A t \in Resident : entry[t].page # p \/ entry[t].transient
    BY <1>2, <1>6, MissedIsAbsent DEF Retain, Bypass
  <2>4. held[r] = None /\ p[1] \in open /\ disk[p].gen > 0
    BY <1>6 DEF Retain, Bypass, Missing, Readable
  <2> QED BY <2>1, <2>2, <2>3, <2>4, AdmitKeeps DEF Classes
<1>7. CASE ReadThrough(r, p, g)
  <2>1. PICK s \in Slots : Admit(r, p, s, {}, TRUE, "AUX")
    BY <1>7 DEF ReadThrough
  <2>2. Uncharged({})["AUX"] \in Nat /\ Uncharged({})["AUX"] <= used["AUX"]
    BY DropCharge DEF Classes
  <2>3. used["AUX"] \in Nat /\ used["AUX"] < AuxLimit
    BY <1>7 DEF ReadThrough, Bypass, AuxRoom, CacheTypeOK, Classes
  <2>4. Uncharged({})["AUX"] < AuxLimit
    BY <2>2, <2>3, CacheAssumption
  <2>5. held[r] = None /\ p[1] \in open /\ disk[p].gen > 0
    BY <1>7 DEF ReadThrough, Bypass, Missing, Readable
  <2> QED BY <2>1, <2>4, <2>5, AdmitKeeps DEF Classes
<1> QED BY <1>1, <1>3, <1>4, <1>5, <1>6, <1>7

\* What changes at places the cache has nothing of, none of it pinned, leaves it coherent.
LEMMA ForgetKeeps ==
    ASSUME CacheInvariant, NEW P, Forget(P),
           UNCHANGED <<held, limit, bypass>>,
           disk' \in [Pages -> OnDisk], open' \subseteq Files,
           \A p \in Pages \ P : disk'[p] = disk[p] /\ (p[1] \in open => p[1] \in open')
    PROVE  CacheInvariant'
<1> USE DEF CacheInvariant
<1>1. Within(P) \in SUBSET Idle /\ Within(P) \in SUBSET Resident
  BY DEF Forget, Idle
<1>2. used' \in [Classes -> Nat] /\ used'["CACHE"] <= used["CACHE"]
  BY <1>1, DropCharge DEF Forget, Classes
<1>3. limit' \in Nat /\ used'["CACHE"] <= limit'
  BY <1>2 DEF CacheTypeOK, WithinBudget, Classes
<1>4. \A s \in Resident \ Within(P) : /\ entry[s].page[1] \in open'
                                      /\ disk'[entry[s].page] = disk[entry[s].page]
  BY EntryType DEF Within, Coherent
<1> QED BY <1>1, <1>3, <1>4, EvictKeeps DEF Forget, CacheTypeOK

LEMMA ChangeKeeps ==
    ASSUME CacheInvariant, NEW f \in Files, Change(f)
    PROVE  CacheInvariant'
<1> USE DEF CacheInvariant
<1>1. ASSUME NEW o \in Offsets, NEW kind \in Kinds, Write(<<f, o>>, kind)
      PROVE  CacheInvariant'
  <2> DEFINE p == <<f, o>>
  <2>1. disk[p] \in OnDisk /\ p \in Pages
    BY DEF CacheTypeOK, Pages
  <2>2. [gen |-> disk[p].gen + 1, kind |-> kind] \in OnDisk
    BY <2>1 DEF OnDisk
  <2>3. disk' = [disk EXCEPT ![p] = [gen |-> disk[p].gen + 1, kind |-> kind]]
    BY <1>1 DEF Write
  <2>4. /\ disk' \in [Pages -> OnDisk]
        /\ \A q \in Pages \ {p} : disk'[q] = disk[q]
    BY <2>2, <2>3 DEF CacheTypeOK
  <2> QED BY <1>1, <2>4, ForgetKeeps DEF Write, CacheTypeOK
<1>2. ASSUME NEW o \in Offsets, WriteFails(<<f, o>>)
      PROVE  CacheInvariant'
  <2> DEFINE p == <<f, o>>
  <2>1. disk[p] \in OnDisk /\ p \in Pages
    BY DEF CacheTypeOK, Pages
  <2>2. [disk[p] EXCEPT !.gen = 0] \in OnDisk
    BY <2>1 DEF OnDisk
  <2>3. disk' = disk \/ disk' = [disk EXCEPT ![p] = [disk[p] EXCEPT !.gen = 0]]
    BY <1>2, <2>1 DEF WriteFails, CacheTypeOK
  <2>4. /\ disk' \in [Pages -> OnDisk]
        /\ \A q \in Pages \ {p} : disk'[q] = disk[q]
    BY <2>2, <2>3 DEF CacheTypeOK
  <2> QED BY <1>2, <2>4, ForgetKeeps DEF WriteFails, CacheTypeOK
<1>3. ASSUME NEW o \in Offsets, Truncate(f, o)
      PROVE  CacheInvariant'
  <2>1. \A q \in Pages : [disk[q] EXCEPT !.gen = 0] \in OnDisk
    BY DEF CacheTypeOK, OnDisk
  <2>2. /\ disk' \in [Pages -> OnDisk]
        /\ \A q \in Pages \ Tail(f, o) : disk'[q] = disk[q]
    BY <1>3, <2>1 DEF Truncate, CacheTypeOK
  <2> QED BY <1>3, <2>2, ForgetKeeps DEF Truncate, CacheTypeOK
<1>4. CASE Attach(f)
  BY <1>4 DEF Attach, CacheTypeOK, PinsExact, WithinBudget, Coherent, Resident, HeldBy, Of
<1>5. CASE Detach(f)
  <2>1. open' = open \ {f}
    BY <1>5 DEF Detach
  <2>2. \A q \in Pages \ ({f} \X Offsets) : q[1] # f
    BY DEF Pages
  <2> QED BY <1>5, <2>1, <2>2, ForgetKeeps DEF Detach, CacheTypeOK
<1> QED BY <1>1, <1>2, <1>3, <1>4, <1>5 DEF Change

LEMMA ResizeKeeps ==
    ASSUME CacheInvariant, NEW size \in Limits, Resize(size) \/ ResizeFails(size)
    PROVE  CacheInvariant'
<1> USE DEF CacheInvariant
<1>1. size \in Nat /\ limit \in Nat /\ used["CACHE"] \in Nat /\ used["CACHE"] <= limit
  BY CacheAssumption DEF CacheTypeOK, WithinBudget, Classes
<1>2. CASE Resize(size)
  <2>1. PICK S \in SUBSET Idle :
           /\ IF used["CACHE"] <= size THEN S = {} ELSE Uncharged(S)["CACHE"] = size
           /\ Evict(S)
    BY <1>2 DEF Resize
  <2>2. Uncharged(S)["CACHE"] \in Nat /\ Uncharged(S)["CACHE"] <= used["CACHE"]
    BY <2>1, DropCharge DEF Idle, Classes
  <2>3. Uncharged(S)["CACHE"] <= size
    BY <1>1, <2>1, <2>2
  <2> QED BY <1>1, <1>2, <2>1, <2>3, EvictKeeps DEF Resize, Evict, CacheTypeOK, Coherent
<1>3. CASE ResizeFails(size)
  <2>1. Uncharged(Idle)["CACHE"] \in Nat /\ Uncharged(Idle)["CACHE"] <= used["CACHE"]
    BY DropCharge DEF Idle, Classes
  <2>2. Uncharged(Idle)["CACHE"] <= limit
    BY <1>1, <2>1
  <2> QED BY <1>1, <1>3, <2>2, EvictKeeps DEF ResizeFails, Evict, CacheTypeOK, Coherent
<1> QED BY <1>2, <1>3

LEMMA Initial == Init => CacheInvariant
<1> SUFFICES ASSUME Init PROVE CacheInvariant
  OBVIOUS
<1>1. \A s \in Slots : ~entry[s].used
  BY DEF Init, Free
<1>2. Resident = {} /\ \A c : Of(c) = {}
  BY <1>1 DEF Resident, Of
<1>3. CacheTypeOK
  <2>1. entry \in [Slots -> Entries \cup {Free}] /\ held \in [Readers -> Slots \cup {None}]
    BY DEF Init
  <2>2. limit \in Nat /\ used \in [Classes -> Nat] /\ open \subseteq Files
    BY CacheAssumption DEF Init
  <2>3. \A k \in Kinds : [gen |-> 1, kind |-> k] \in OnDisk
    BY DEF OnDisk
  <2>4. disk \in [Pages -> OnDisk]
    BY <2>3 DEF Init
  <2>5. bypass \in BOOLEAN
    BY DEF Init
  <2> QED BY <2>1, <2>2, <2>4, <2>5 DEF CacheTypeOK
<1>4. WithinBudget
  <2>1. \A c \in Classes : used[c] = 0 /\ Cardinality(Of(c)) = 0
    BY <1>2, FS_EmptySet DEF Init
  <2>2. used["CACHE"] <= limit /\ used["AUX"] <= AuxLimit
    BY <1>3, <2>1, CacheAssumption DEF CacheTypeOK, Classes
  <2> QED BY <1>2, <2>1, <2>2 DEF WithinBudget
<1>5. PinsExact /\ Coherent
  BY <1>2 DEF PinsExact, Coherent, Init
<1> QED BY <1>3, <1>4, <1>5 DEF CacheInvariant

LEMMA StepKeeps ==
    ASSUME CacheInvariant, [Next]_vars
    PROVE  CacheInvariant'
<1>1. ASSUME NEW r \in Readers, Acquire(r) \/ Release(r) PROVE CacheInvariant'
  BY <1>1, AcquireKeeps, ReleaseKeeps
<1>2. ASSUME NEW f \in Files, Change(f) PROVE CacheInvariant'
  BY <1>2, ChangeKeeps
<1>3. ASSUME NEW size \in Limits, Resize(size) \/ ResizeFails(size) PROVE CacheInvariant'
  BY <1>3, ResizeKeeps
<1>4. ASSUME UNCHANGED <<entry, held, limit, used, disk, open>>, bypass' \in BOOLEAN
      PROVE  CacheInvariant'
  <2>1. Resident' = Resident /\ \A c : Of(c)' = Of(c) /\ \A s : HeldBy(s)' = HeldBy(s)
    BY <1>4 DEF Resident, Of, HeldBy
  <2>2. CacheTypeOK'
    BY <1>4 DEF CacheInvariant, CacheTypeOK
  <2>3. PinsExact' /\ WithinBudget' /\ Coherent'
    BY <1>4, <2>1 DEF CacheInvariant, PinsExact, WithinBudget, Coherent
  <2> QED BY <2>2, <2>3 DEF CacheInvariant
<1>5. CASE Validate
  BY <1>4, <1>5 DEF Validate
<1>6. CASE Validated
  BY <1>4, <1>6 DEF Validated
<1>7. CASE UNCHANGED vars
  BY <1>4, <1>7 DEF vars, CacheInvariant, CacheTypeOK
<1> QED BY <1>1, <1>2, <1>3, <1>5, <1>6, <1>7 DEF Next

-----------------------------------------------------------------------------
(* The theorems.                                                              *)

\* The invariant holds for any readers, files, slots, sizes and number of writes.
THEOREM CacheCorrect == Spec => []CacheInvariant
<1>1. Init => CacheInvariant
  BY Initial
<1>2. CacheInvariant /\ [Next]_vars => CacheInvariant'
  BY StepKeeps
<1> QED BY <1>1, <1>2, PTL DEF Spec

\* Entries, pins in hand, files and charges stay what the cache's structures can hold.
THEOREM CacheTypeCorrect == Spec => []CacheTypeOK
<1>1. CacheInvariant => CacheTypeOK
  BY DEF CacheInvariant
<1> QED BY <1>1, CacheCorrect, PTL

\* Nobody's page is freed, and pages read past the cache go with their reader.
THEOREM PinsAreExact == Spec => []PinsExact
<1>1. CacheInvariant => PinsExact
  BY DEF CacheInvariant
<1> QED BY <1>1, CacheCorrect, PTL

\* The charges add up, and none of the unsigned subtractions wraps.
THEOREM BudgetHolds == Spec => []WithinBudget
<1>1. CacheInvariant => WithinBudget
  BY DEF CacheInvariant
<1> QED BY <1>1, CacheCorrect, PTL

\* No read is answered with what the file does not hold.
THEOREM CacheIsCoherent == Spec => []Coherent
<1>1. CacheInvariant => Coherent
  BY DEF CacheInvariant
<1> QED BY <1>1, CacheCorrect, PTL

-----------------------------------------------------------------------------
(* What a reader keeps in its hands through a step.                           *)

LEMMA ErasedStands ==
    ASSUME CacheInvariant, NEW s \in Resident, s \notin Idle, NEW S \in SUBSET Idle,
           entry' = Erased(S), disk'[entry[s].page] = disk[entry[s].page]
    PROVE  Stands(s)
<1>1. s \in Slots /\ entry'[s] = entry[s]
  BY DEF Erased, Resident
<1> QED BY <1>1 DEF Stands, Resident

LEMMA AdmittedStands ==
    ASSUME CacheInvariant, NEW s \in Resident, s \notin Idle,
           NEW r, NEW p, NEW t \in Slots, NEW S \in SUBSET Idle, NEW transient, NEW class,
           Admit(r, p, t, S, transient, class)
    PROVE  Stands(s)
<1>1. s \in Slots /\ s # t /\ s \notin S
  BY DEF Resident, Admit, Idle
<1>2. entry'[s] = entry[s] /\ disk' = disk
  BY <1>1 DEF Admit, Erased
<1> QED BY <1>2 DEF Stands, Resident

LEMMA ForgottenStands ==
    ASSUME CacheInvariant, NEW s \in Resident, s \notin Idle, NEW P, Forget(P),
           \A p \in Pages \ P : disk'[p] = disk[p]
    PROVE  Stands(s)
<1>1. s \notin Within(P) /\ Within(P) \in SUBSET Idle
  BY DEF Forget, Idle
<1>2. entry[s].page \in Pages \ P
  BY <1>1, EntryType DEF Within, CacheInvariant
<1> QED BY <1>1, <1>2, ErasedStands DEF Forget

LEMMA AcquireStands ==
    ASSUME CacheInvariant, NEW s \in Resident, s \notin Idle, NEW r \in Readers, Acquire(r)
    PROVE  Stands(s)
<1>1. PICK p \in Pages, g \in 1..MaxGen :
         \/ Hit(r, p, g, FALSE) \/ (bypass /\ Hit(r, p, g, TRUE))
         \/ Miss(r, p, g) \/ MissFails(r, p, g)
         \/ Retain(r, p, g) \/ ReadThrough(r, p, g)
  BY Zenon DEF Acquire
<1>2. ASSUME NEW v, Hit(r, p, g, v) PROVE Stands(s)
  <2>1. PICK t \in Hits(p, g, v) : entry' = [entry EXCEPT ![t].pins = @ + 1]
    BY <1>2 DEF Hit
  <2>2. disk' = disk /\ s \in Slots /\ entry[s] \in Entries
    BY <1>2, EntryType DEF Hit, CacheInvariant
  <2>3. \/ entry'[s] = entry[s]
        \/ entry'[s] = [entry[s] EXCEPT !.pins = @ + 1]
    BY <2>1, <2>2 DEF CacheInvariant, CacheTypeOK
  <2>4. entry'[s].used = entry[s].used /\ entry'[s].page = entry[s].page
        /\ entry'[s].gen = entry[s].gen
    BY <2>2, <2>3 DEF Entries
  <2> QED BY <2>2, <2>4 DEF Stands, Resident
<1>3. ASSUME NEW S \in Victims PROVE S \in SUBSET Idle
  BY <1>3, VictimMakesRoom
<1>4. CASE Miss(r, p, g)
  BY <1>3, <1>4, AdmittedStands DEF Miss
<1>5. CASE MissFails(r, p, g)
  BY <1>3, <1>5, ErasedStands DEF MissFails
<1>6. CASE Retain(r, p, g)
  BY <1>3, <1>6, AdmittedStands DEF Retain
<1>7. CASE ReadThrough(r, p, g)
  BY <1>7, AdmittedStands DEF ReadThrough
<1> QED BY <1>1, <1>2, <1>4, <1>5, <1>6, <1>7

LEMMA ReleaseStands ==
    ASSUME CacheInvariant, NEW r \in Readers, held[r] # None, NEW q \in Readers, q # r, Release(q)
    PROVE  Stands(held[r])
<1> USE DEF CacheInvariant
<1>1. PICK s : s = held[r]
  OBVIOUS
<1>2. PICK t : t = held[q]
  OBVIOUS
<1>3. /\ s \in Resident /\ s \in Slots /\ entry[s] \in Entries /\ entry[s].used
      /\ t \in Resident /\ t \in Slots
  BY <1>1, <1>2, HeldIsPinned, EntryType DEF Release
<1>4. disk' = disk
  BY DEF Release
<1>5. CASE entry[t].transient /\ entry[t].pins = 1
  <2>1. entry' = Erased({t})
    BY <1>2, <1>5 DEF Release
  <2>2. s # t
    BY <1>1, <1>2, <1>5, LastPin DEF Release
  <2>3. entry'[s] = entry[s]
    BY <1>3, <2>1, <2>2 DEF Erased
  <2> QED BY <1>1, <1>3, <1>4, <2>3 DEF Stands
<1>6. CASE ~(entry[t].transient /\ entry[t].pins = 1)
  <2>1. entry' = [entry EXCEPT ![t].pins = @ - 1]
    BY <1>2, <1>6 DEF Release
  <2>2. \/ entry'[s] = entry[s]
        \/ entry'[s] = [entry[s] EXCEPT !.pins = @ - 1]
    BY <1>3, <2>1 DEF CacheTypeOK
  <2>3. entry'[s].used = entry[s].used /\ entry'[s].page = entry[s].page
        /\ entry'[s].gen = entry[s].gen
    BY <1>3, <2>2 DEF Entries
  <2> QED BY <1>1, <1>3, <1>4, <2>3 DEF Stands
<1> QED BY <1>5, <1>6

LEMMA ChangeStands ==
    ASSUME CacheInvariant, NEW s \in Resident, s \notin Idle, NEW f \in Files, Change(f)
    PROVE  Stands(s)
<1>1. disk \in [Pages -> OnDisk]
  BY DEF CacheInvariant, CacheTypeOK
<1>2. ASSUME NEW o \in Offsets, NEW kind \in Kinds, Write(<<f, o>>, kind) PROVE Stands(s)
  <2>1. \A p \in Pages \ {<<f, o>>} : disk'[p] = disk[p]
    BY <1>1, <1>2 DEF Write
  <2> QED BY <1>2, <2>1, ForgottenStands DEF Write
<1>3. ASSUME NEW o \in Offsets, WriteFails(<<f, o>>) PROVE Stands(s)
  <2>1. \A p \in Pages \ {<<f, o>>} : disk'[p] = disk[p]
    BY <1>1, <1>3 DEF WriteFails
  <2> QED BY <1>3, <2>1, ForgottenStands DEF WriteFails
<1>4. ASSUME NEW o \in Offsets, Truncate(f, o) PROVE Stands(s)
  <2>1. \A p \in Pages \ Tail(f, o) : disk'[p] = disk[p]
    BY <1>1, <1>4 DEF Truncate
  <2> QED BY <1>4, <2>1, ForgottenStands DEF Truncate
<1>5. CASE Attach(f)
  BY <1>5 DEF Attach, Stands, Resident
<1>6. CASE Detach(f)
  BY <1>6, ForgottenStands DEF Detach
<1> QED BY <1>2, <1>3, <1>4, <1>5, <1>6 DEF Change

\* A page in somebody's hands neither moves nor changes below them.
THEOREM PinnedPagesStand == Spec => PinnedStable
<1>1. ASSUME CacheInvariant, Next, NEW r \in Readers, held[r] # None, held'[r] = held[r]
      PROVE  Stands(held[r])
  <2>1. PICK s : s = held[r]
    OBVIOUS
  <2>2. s \in Resident /\ s \notin Idle
    BY <1>1, <2>1, HeldIsPinned DEF CacheInvariant
  <2>3. ASSUME NEW q \in Readers, Acquire(q) PROVE Stands(s)
    BY <1>1, <2>2, <2>3, AcquireStands
  <2>4. ASSUME NEW q \in Readers, Release(q) PROVE Stands(held[r])
    <3>1. q # r
      BY <1>1, <2>4 DEF Release, CacheInvariant, CacheTypeOK
    <3> QED BY <1>1, <2>4, <3>1, ReleaseStands
  <2>5. ASSUME NEW f \in Files, Change(f) PROVE Stands(s)
    BY <1>1, <2>2, <2>5, ChangeStands
  <2>6. ASSUME NEW size \in Limits, Resize(size) \/ ResizeFails(size) PROVE Stands(s)
    BY <1>1, <2>2, <2>6, ErasedStands DEF Resize, ResizeFails, Evict
  <2>7. ASSUME entry' = entry, disk' = disk PROVE Stands(s)
    BY <2>2, <2>7 DEF Stands, Resident
  <2>8. CASE Validate
    BY <2>1, <2>7, <2>8 DEF Validate
  <2>9. CASE Validated
    BY <2>1, <2>7, <2>9 DEF Validated
  <2> QED BY <1>1, <2>1, <2>3, <2>4, <2>5, <2>6, <2>8, <2>9 DEF Next
<1>2. CacheInvariant /\ [Next]_vars => [HandsStand]_vars
  BY <1>1 DEF HandsStand
<1> QED BY <1>2, CacheCorrect, PTL DEF Spec, PinnedStable
=============================================================================
