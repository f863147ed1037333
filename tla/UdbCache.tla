------------------------------- MODULE UdbCache -------------------------------
(* The page cache: pages are admitted within a budget, pinned while somebody reads  *)
(* them, and dropped before the file below them changes.  Every operation holds the *)
(* cache's mutex, and so is one step; between them the readers do as they like.     *)
(*                                                                                *)
(* Charges are counted in entries, without the table of buckets.  Which of the      *)
(* unpinned pages goes first is left open: the LRU order decides nothing here.      *)
EXTENDS Naturals, FiniteSets

CONSTANTS
    Readers,     \* cursors, lookups and scans, each with at most one page in its hands
    Files, Offsets,
    Slots,       \* where an entry may be allocated
    None,        \* no slot
    Limits,      \* the cache sizes a configuration may give
    AuxLimit,    \* what is left of UDB_STORAGE_AUX_LIMIT
    MaxGen       \* bound: generations written

VARIABLES
    entry,       \* the entry in each slot
    held,        \* the slot each reader has pinned
    limit, used, \* the budget's cache and auxiliary class
    disk,        \* generation and kind of the page at each place
    open,        \* the attached files
    bypass       \* bypass_admission: a thread validates a block

vars == <<entry, held, limit, used, disk, open, bypass>>

ASSUME CacheAssumption ==
    /\ IsFiniteSet(Slots) /\ IsFiniteSet(Readers) /\ None \notin Slots
    /\ Offsets \subseteq Nat
    /\ Limits \subseteq Nat /\ AuxLimit \in Nat /\ MaxGen \in Nat

Kinds == {"DATA", "INDEX"}
Classes == {"CACHE", "AUX"}
Pages == Files \X Offsets

\* A page that does not decode is of generation 0.
OnDisk == [gen : Nat, kind : Kinds]

Free == [used |-> FALSE]

Entries ==
    [used : {TRUE}, page : Pages, gen : Nat, kind : Kinds, pins : Nat,
     transient : BOOLEAN, class : Classes]

Entry(p, transient, class) ==
    [used |-> TRUE, page |-> p, gen |-> disk[p].gen, kind |-> disk[p].kind, pins |-> 1,
     transient |-> transient, class |-> class]

Resident == {s \in Slots : entry[s].used}
Idle == {s \in Resident : entry[s].pins = 0}
Of(class) == {s \in Resident : entry[s].class = class}

-----------------------------------------------------------------------------
(* udb_storage_cache_acquire.                                                 *)

\* What an acquisition finds: neither a transient page nor, validating, a DATA page.
Hits(p, g, validating) ==
    {s \in Resident : /\ entry[s].page = p /\ entry[s].gen = g /\ ~entry[s].transient
                      /\ ~(validating /\ entry[s].kind = "DATA")}

Hit(r, p, g, validating) ==
    /\ held[r] = None /\ p[1] \in open
    /\ \E s \in Hits(p, g, validating) :
          /\ entry' = [entry EXCEPT ![s].pins = @ + 1]
          /\ held' = [held EXCEPT ![r] = s]
    /\ UNCHANGED <<limit, used, disk, open, bypass>>

Missing(r, p, g, validating) ==
    held[r] = None /\ p[1] \in open /\ Hits(p, g, validating) = {}

Readable(p, g) == disk[p].gen = g /\ g > 0

\* evict_one: what has to go for one more page is nothing, or one that is not pinned.
Victims == IF used["CACHE"] < limit THEN {{}} ELSE {{s} : s \in Idle}

Erased(S) == [s \in Slots |-> IF s \in S THEN Free ELSE entry[s]]

\* Fault: the class at the time of the allocation is not kept.
UnchargedCache(S) == [used EXCEPT !["CACHE"] = @ - Cardinality(S)]

\* udb_storage_free gives back what the entry was charged to.
Uncharged(S) == [c \in Classes |-> used[c] - Cardinality(S \cap Of(c))]

\* The pages of S go, and a new one comes to slot s.
Admit(r, p, s, S, transient, class) ==
    /\ s \in (Slots \ Resident) \cup S
    /\ entry' = [Erased(S) EXCEPT ![s] = Entry(p, transient, class)]
    /\ held' = [held EXCEPT ![r] = s]
    /\ used' = [Uncharged(S) EXCEPT ![class] = @ + 1]
    /\ UNCHANGED <<limit, disk, open, bypass>>

Miss(r, p, g) ==
    /\ Missing(r, p, g, FALSE) /\ Readable(p, g)
    /\ \E S \in Victims : \E s \in Slots : Admit(r, p, s, S, FALSE, "CACHE")

\* Memory or the read fails, and the page that had to go is gone.
MissFails(r, p, g) ==
    /\ Missing(r, p, g, FALSE)
    /\ \E S \in Victims \ {{}} : entry' = Erased(S) /\ used' = Uncharged(S)
    /\ UNCHANGED <<held, limit, disk, open, bypass>>

AuxRoom == used["AUX"] < AuxLimit

\* The thread that validates reads on auxiliary memory.
Bypass(r, p, g) ==
    /\ bypass /\ Missing(r, p, g, TRUE) /\ Readable(p, g)
    /\ AuxRoom

\* Fault: the auxiliary charge stays when the page is handed over to the cache.
RetainTwice(r, p, g) ==
    /\ Bypass(r, p, g) /\ disk[p].kind # "DATA"
    /\ \E S \in Victims : \E s \in (Slots \ Resident) \cup S :
          /\ entry' = [Erased(S) EXCEPT ![s] = Entry(p, FALSE, "CACHE")]
          /\ held' = [held EXCEPT ![r] = s]
          /\ used' = [c \in Classes |-> Uncharged(S)[c] + 1]
          /\ UNCHANGED <<limit, disk, open, bypass>>

\* Index pages it read are kept, and charged to the cache, if there is room for them.
Retain(r, p, g) ==
    /\ Bypass(r, p, g) /\ disk[p].kind # "DATA"
    /\ \E S \in Victims : \E s \in Slots : Admit(r, p, s, S, FALSE, "CACHE")

\* DATA pages, and what there is no room for, go with their only pin.
ReadThrough(r, p, g) ==
    /\ Bypass(r, p, g) /\ (disk[p].kind = "DATA" \/ Victims = {})
    /\ \E s \in Slots : Admit(r, p, s, {}, TRUE, "AUX")

-----------------------------------------------------------------------------
\* Fault: the entry is freed with the first of its readers.
ReleaseAll(r) ==
    /\ held[r] # None
    /\ held' = [held EXCEPT ![r] = None]
    /\ entry' = Erased({held[r]}) /\ used' = Uncharged({held[r]})
    /\ UNCHANGED <<limit, disk, open, bypass>>

\* udb_storage_cache_release
Release(r) ==
    LET s == held[r] IN
    /\ s # None
    /\ held' = [held EXCEPT ![r] = None]
    /\ IF entry[s].transient /\ entry[s].pins = 1
       THEN entry' = Erased({s}) /\ used' = Uncharged({s})
       ELSE entry' = [entry EXCEPT ![s].pins = @ - 1] /\ UNCHANGED used
    /\ UNCHANGED <<limit, disk, open, bypass>>

\* What the cache holds of these places.
Within(P) == {s \in Resident : entry[s].page \in P}

\* Fault: a page is dropped whoever reads it.
ForgetAnyway(P) == entry' = Erased(Within(P)) /\ used' = Uncharged(Within(P))

\* udb_storage_cache_forget_range: all of them or, with one pinned, none.
Forget(P) ==
    /\ Within(P) \subseteq Idle
    /\ entry' = Erased(Within(P)) /\ used' = Uncharged(Within(P))

\* Fault: the cache keeps what it has of the place.
WriteUnder(p, kind) ==
    /\ p[1] \in open /\ disk[p].gen < MaxGen
    /\ disk' = [disk EXCEPT ![p] = [gen |-> @.gen + 1, kind |-> kind]]
    /\ UNCHANGED <<entry, used, held, limit, open, bypass>>

\* udb_storage_file_write: the cache stays locked until the write is done.
Write(p, kind) ==
    /\ p[1] \in open /\ disk[p].gen < MaxGen
    /\ Forget({p})
    /\ disk' = [disk EXCEPT ![p] = [gen |-> @.gen + 1, kind |-> kind]]
    /\ UNCHANGED <<held, limit, open, bypass>>

\* The write fails: at once, or half-way, and nothing decodes any more.
WriteFails(p) ==
    /\ p[1] \in open
    /\ Forget({p})
    /\ disk' \in {disk, [disk EXCEPT ![p].gen = 0]}
    /\ UNCHANGED <<held, limit, open, bypass>>

Tail(f, o) == {p \in Pages : p[1] = f /\ p[2] >= o}

\* udb_storage_file_resize, to less.
Truncate(f, o) ==
    /\ f \in open
    /\ Forget(Tail(f, o))
    /\ disk' = [p \in Pages |-> IF p \in Tail(f, o) THEN [disk[p] EXCEPT !.gen = 0] ELSE disk[p]]
    /\ UNCHANGED <<held, limit, open, bypass>>

-----------------------------------------------------------------------------
Evict(S) ==
    /\ S \subseteq Idle
    /\ entry' = Erased(S) /\ used' = Uncharged(S)
    /\ UNCHANGED <<held, disk, open, bypass>>

\* udb_storage_cache_resize: what is not pinned goes until the rest fits, and no longer.
Resize(size) ==
    /\ \E S \in SUBSET Idle :
          /\ IF used["CACHE"] <= size THEN S = {} ELSE Uncharged(S)["CACHE"] = size
          /\ Evict(S)
    /\ limit' = size

\* BUSY: too much is pinned, and all the rest is gone.
ResizeFails(size) ==
    /\ Uncharged(Idle)["CACHE"] > size
    /\ Evict(Idle)
    /\ UNCHANGED limit

\* udb_storage_block_validate: one thread at a time.
Validate ==
    /\ ~bypass /\ bypass' = TRUE
    /\ UNCHANGED <<entry, held, limit, used, disk, open>>

Validated ==
    /\ bypass /\ bypass' = FALSE
    /\ UNCHANGED <<entry, held, limit, used, disk, open>>

\* udb_storage_file_open and close: a pinned page keeps its file open.
Attach(f) ==
    /\ f \in Files \ open /\ open' = open \cup {f}
    /\ UNCHANGED <<entry, held, limit, used, disk, bypass>>

Detach(f) ==
    /\ f \in open /\ open' = open \ {f}
    /\ Forget({f} \X Offsets)
    /\ UNCHANGED <<held, limit, disk, bypass>>

-----------------------------------------------------------------------------
Init ==
    /\ entry = [s \in Slots |-> Free]
    /\ held = [r \in Readers |-> None]
    /\ limit \in Limits
    /\ used = [c \in Classes |-> 0]
    /\ disk \in [Pages -> {[gen |-> 1, kind |-> k] : k \in Kinds}]
    /\ open = Files
    /\ bypass = FALSE

Acquire(r) ==
    \E p \in Pages, g \in 1..MaxGen :
       \/ Hit(r, p, g, FALSE)
       \/ bypass /\ Hit(r, p, g, TRUE)
       \/ Miss(r, p, g) \/ MissFails(r, p, g)
       \/ Retain(r, p, g) \/ ReadThrough(r, p, g)

Change(f) ==
    \/ \E o \in Offsets : \/ WriteFails(<<f, o>>) \/ Truncate(f, o)
                          \/ \E kind \in Kinds : Write(<<f, o>>, kind)
    \/ Attach(f) \/ Detach(f)

Next ==
    \/ \E r \in Readers : Acquire(r) \/ Release(r)
    \/ \E f \in Files : Change(f)
    \/ \E size \in Limits : Resize(size) \/ ResizeFails(size)
    \/ Validate \/ Validated

Spec == Init /\ [][Next]_vars

-----------------------------------------------------------------------------
(* Properties.                                                                *)

CacheTypeOK ==
    /\ entry \in [Slots -> Entries \cup {Free}]
    /\ held \in [Readers -> Slots \cup {None}]
    /\ limit \in Nat /\ used \in [Classes -> Nat]
    /\ disk \in [Pages -> OnDisk]
    /\ open \subseteq Files /\ bypass \in BOOLEAN

HeldBy(s) == {r \in Readers : held[r] = s}

\* The counter of an entry says how many read it, and nobody holds a freed one: a page
\* read past the cache is gone with its reader (udb_storage_cache_release, erase's abort).
PinsExact ==
    /\ \A s \in Resident : entry[s].pins = Cardinality(HeldBy(s))
    /\ \A r \in Readers : held[r] # None => held[r] \in Resident
    /\ \A s \in Resident : entry[s].transient => entry[s].pins = 1

\* The budget is what the entries cost, each charged to the class of its kind, and within its
\* limits even when a page changed class or the limit shrank: acquire subtracts them unsigned.
WithinBudget ==
    /\ \A s \in Resident : entry[s].class = IF entry[s].transient THEN "AUX" ELSE "CACHE"
    /\ \A c \in Classes : used[c] = Cardinality(Of(c))
    /\ used["CACHE"] <= limit /\ used["AUX"] <= AuxLimit

\* An entry is what is on disk at its place, whatever was written, cut or read past the
\* cache meanwhile, its file is open, and no page is there twice but for a validation.
Coherent ==
    /\ \A s \in Resident :
          LET p == entry[s].page IN
          /\ p[1] \in open
          /\ entry[s].gen > 0 /\ disk[p] = [gen |-> entry[s].gen, kind |-> entry[s].kind]
    /\ \A s1, s2 \in Resident :
          entry[s1].page = entry[s2].page /\ ~entry[s1].transient /\ ~entry[s2].transient => s1 = s2

\* The entry and the page below it are after the step what they were.
Stands(s) ==
    /\ entry'[s].used /\ entry'[s].page = entry[s].page /\ entry'[s].gen = entry[s].gen
    /\ disk'[entry[s].page] = disk[entry[s].page]

HandsStand == \A r \in Readers : held[r] # None /\ held'[r] = held[r] => Stands(held[r])

\* What a reader has in its hands neither moves nor changes, in memory or on disk, before it
\* lets go: writes, evictions, resizes and close wait for it or fail (forget_range: BUSY).
PinnedStable == [][HandsStand]_vars
=============================================================================
