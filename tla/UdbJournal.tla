----------------------------- MODULE UdbJournal -----------------------------
(* The root-set journal of the native store: six data files, one write-ahead *)
(* log whose first page is the floor, two checkpoint slots, and the start-up *)
(* recovery that decides which root set is the database.                     *)
(*                                                                           *)
(* A commit is data flush, log append, log flush, publication.  A checkpoint *)
(* is inactive slot, flush, floor page, flush, log truncation, flush, and    *)
(* then the inventory that lets the writer reuse extents.  Every write first *)
(* reaches the system's cache (slots, floor, wal, tail, data) and is durable *)
(* (dSlots, dFloor, dWal, dTail, dData) only after the flush of its file.    *)
(* Killing the process keeps the cache; a power loss keeps, of what was not  *)
(* flushed, any part.                                                        *)
EXTENDS Integers, Sequences, FiniteSets

CONSTANTS
    Extents,         \* page ranges of the data files a root can live in
    NoExt,           \* the root of a block nobody has written yet
    MaxId,           \* bound: transactions the writer starts
    CheckpointLen,   \* UDB_STORAGE_CHECKPOINT_WAL, in log entries
    MaxKill,         \* bound: process deaths
    MaxPower,        \* bound: power losses
    MaxRot,          \* bound: checkpoint slots damaged by the medium
    MaxFail,         \* bound: failing writes and flushes
    MaxPins,         \* bound: generations pinned by readers at once
    TornAppend       \* may a power loss leave a whole but malformed log page?

ASSUME JournalAssumption ==
    /\ NoExt \notin Extents
    /\ CheckpointLen \in Nat \ {0}
    /\ TornAppend \in BOOLEAN
    /\ {MaxId, MaxKill, MaxPower, MaxRot, MaxFail, MaxPins} \subseteq Nat

VARIABLES
    pc,         \* where the process is in the code below
    boot,       \* engine_open has not returned yet
    state,      \* journal->state: the root set this process stands on
    slot,       \* journal->slot: the checkpoint slot in force
    candidate,  \* the root set being committed
    slots, dSlots,   \* the two checkpoint slots, cached and durable
    floor, dFloor,   \* page 0 of the log
    wal, dWal,       \* the log entries after it
    tail, dTail,     \* what follows the last entry: "clean", "partial", "torn"
    data, dData,     \* per extent, the version of the root written there
    free,       \* extents the writer may overwrite
    pins,       \* root sets pinned by readers and unread receipts
    acked,      \* history: the last root set shown to anyone
    nextId,     \* identity (hash) of the next entry
    inc,        \* incarnation of the process, the owner of its stages
    faults      \* faults met so far, by kind

mem == <<slots, floor, wal, tail, data>>
dsk == <<dSlots, dFloor, dWal, dTail, dData>>
run == <<pc, boot, state, slot, candidate, free, pins>>
vars == <<run, mem, dsk, acked, nextId, inc, faults>>

-----------------------------------------------------------------------------
(* Root sets.  `id` stands for the SHA-256 of the log entry that carries the *)
(* root set, `hist` for the transactions it is the result of; `ext` and      *)
(* `ver` name its newest extent; `stages` is the incarnation whose pending   *)
(* stage roots it carries, 0 when there are none.                            *)
RootSet == [gen : Nat, id : Nat, hist : SUBSET Nat, ext : Extents \cup {NoExt},
            ver : Nat, stages : Nat]
Entry == [st : RootSet, pred : Nat]

\* udb_storage_journal_initialize: generation 1, empty catalogs.
Genesis == [gen |-> 1, id |-> 0, hist |-> {}, ext |-> NoExt, ver |-> 0, stages |-> 0]

\* A slot that does not decode, recorded as generation 0 (never a valid one).
Torn == [Genesis EXCEPT !.gen = 0]
Readable(s) == s.gen # 0

\* An entry carries the hash of its predecessor and a whole root set.
EntryFor(s, pred) == [st |-> s, pred |-> pred]

\* The roots of s are what the data files hold.
RootValid(s) == s.ext # NoExt => data[s.ext] = s.ver

-----------------------------------------------------------------------------
(* Recovery: which root set the files describe.                              *)

\* The newer readable slot; a tie goes to slot 1.
NewestSlot == IF Readable(slots[1]) /\ (~Readable(slots[0]) \/ slots[1].gen >= slots[0].gen)
              THEN 1 ELSE 0
Checkpoint == slots[NewestSlot]

SlotsAgree ==
    /\ \E k \in {0, 1} : Readable(slots[k])
    /\ Readable(slots[0]) /\ Readable(slots[1]) /\ slots[0].gen = slots[1].gen
          => slots[0] = slots[1]

\* The floor forbids a checkpoint older than the history already retired.
FloorAllows ==
    /\ floor.gen <= Checkpoint.gen
    /\ floor.gen = Checkpoint.gen => floor = Checkpoint

\* Seeded fault: a log that was not yet cut after its checkpoint counts as damage.
LogChainsFromCheckpoint ==
    /\ tail # "torn"
    /\ \A i \in 1 .. Len(wal) : wal[i].st.gen = Checkpoint.gen + i

\* Whole entries chain to each other and to the checkpoint, which is either the
\* floor itself or one of the entries.
LogChains ==
    /\ tail # "torn"
    /\ \A i \in 1 .. Len(wal) - 1 : wal[i + 1].pred = wal[i].st.id
    /\ \A i \in 1 .. Len(wal) :
          /\ wal[i].st.gen = wal[1].st.gen + i - 1
          /\ wal[i].st.gen = Checkpoint.gen => wal[i].st.id = Checkpoint.id
          /\ wal[i].st.gen = Checkpoint.gen + 1 => wal[i].pred = Checkpoint.id
    /\ wal # <<>> => wal[1].st.gen <= Checkpoint.gen + 1
    /\ \/ floor.gen = Checkpoint.gen
       \/ \E i \in 1 .. Len(wal) : wal[i].st.gen = Checkpoint.gen

\* Seeded fault: the log is not replayed over the checkpoint.
RecoveredNoReplay == Checkpoint

\* The newest of the checkpoint and the log.
Recovered ==
    IF wal # <<>> /\ wal[Len(wal)].st.gen > Checkpoint.gen
    THEN wal[Len(wal)].st ELSE Checkpoint

Openable == SlotsAgree /\ FloorAllows /\ LogChains /\ RootValid(Recovered)

\* The pending stage roots of a dead owner are retired by a commit of their own.
Discarded(s) == [gen |-> s.gen + 1, id |-> nextId, hist |-> s.hist,
                 ext |-> s.ext, ver |-> s.ver, stages |-> 0]

-----------------------------------------------------------------------------
Init ==
    /\ pc = "slot" /\ boot = TRUE
    /\ state = Genesis /\ candidate = Genesis /\ acked = Genesis
    /\ slot = 1
    /\ slots = [k \in {0, 1} |-> Genesis] /\ dSlots = slots
    /\ floor = Genesis /\ dFloor = Genesis
    /\ wal = <<>> /\ dWal = <<>>
    /\ tail = "clean" /\ dTail = "clean"
    /\ data = [e \in Extents |-> 0] /\ dData = data
    /\ free = {} /\ pins = {}
    /\ nextId = 1 /\ inc = 1
    /\ faults = [kill |-> 0, power |-> 0, rot |-> 0, fail |-> 0]

-----------------------------------------------------------------------------
(* One commit.                                                               *)

\* The writer prepares a group: private extents are written and a candidate root
\* set is built, with its stage roots kept, saved (END, REUSE) or dropped.
Prepare ==
    /\ pc = "idle" /\ nextId <= MaxId
    /\ \E e \in free, s \in {state.stages, inc, 0} :
          /\ candidate' = [gen |-> state.gen + 1, id |-> nextId,
                           hist |-> state.hist \cup {nextId},
                           ext |-> e, ver |-> nextId, stages |-> s]
          /\ data' = [data EXCEPT ![e] = nextId]
          /\ free' = free \ {e}
    /\ nextId' = nextId + 1
    /\ pc' = "flushData"
    /\ UNCHANGED <<boot, state, slot, slots, floor, wal, tail, dsk, pins, acked, inc, faults>>

\* The final barrier finds a cancelled or superseded job: nothing is committed.
Abandon ==
    /\ pc = "flushData" /\ ~boot
    /\ pc' = "idle"
    /\ UNCHANGED <<boot, state, slot, candidate, free, pins, mem, dsk, acked, nextId, inc, faults>>

FlushData ==
    /\ pc = "flushData"
    /\ dData' = data
    /\ pc' = "append"
    /\ UNCHANGED <<boot, state, slot, candidate, free, pins, mem,
                   dSlots, dFloor, dWal, dTail, acked, nextId, inc, faults>>

\* The write of the entry page begins; until it ends the tail is a partial page.
AppendBegin ==
    /\ pc = "append"
    /\ tail' = "partial"
    /\ pc' = "appending"
    /\ UNCHANGED <<boot, state, slot, candidate, free, pins, slots, floor, wal, data,
                   dsk, acked, nextId, inc, faults>>

AppendEnd ==
    /\ pc = "appending"
    /\ wal' = Append(wal, EntryFor(candidate, state.id))
    /\ tail' = "clean"
    /\ pc' = "flushWal"
    /\ UNCHANGED <<boot, state, slot, candidate, free, pins, slots, floor, data,
                   dsk, acked, nextId, inc, faults>>

\* Seeded fault: the flush of the log is forgotten.
WalFlushedNever == UNCHANGED <<dFloor, dWal, dTail>>

\* fsync of the log makes page 0 and every entry durable.
WalFlushed == dFloor' = floor /\ dWal' = wal /\ dTail' = tail

FlushWal ==
    /\ pc = "flushWal"
    /\ WalFlushed
    /\ state' = candidate
    /\ pc' = IF boot THEN "slot" ELSE "publish"
    /\ UNCHANGED <<boot, slot, candidate, free, pins, mem, dSlots, dData,
                   acked, nextId, inc, faults>>

\* The engine installs the new generation and completes its jobs; only then does
\* anyone see them.  A log that has grown enough is checkpointed next.
Publish ==
    /\ pc = "publish"
    /\ acked' = state
    /\ pc' = IF Len(wal) >= CheckpointLen THEN "slot" ELSE "idle"
    /\ UNCHANGED <<boot, state, slot, candidate, free, pins, mem, dsk, nextId, inc, faults>>

-----------------------------------------------------------------------------
(* One checkpoint, and the inventory that follows it.                        *)

Inactive == 1 - slot

\* Sixty-four pages are rewritten in place: a half-written slot does not decode.
SlotBegin ==
    /\ pc = "slot"
    /\ slots' = [slots EXCEPT ![Inactive] = Torn]
    /\ pc' = "slotWriting"
    /\ UNCHANGED <<boot, state, slot, candidate, free, pins, floor, wal, tail, data,
                   dsk, acked, nextId, inc, faults>>

SlotEnd ==
    /\ pc = "slotWriting"
    /\ slots' = [slots EXCEPT ![Inactive] = state]
    /\ pc' = "flushSlot"
    /\ UNCHANGED <<boot, state, slot, candidate, free, pins, floor, wal, tail, data,
                   dsk, acked, nextId, inc, faults>>

FlushSlot ==
    /\ pc = "flushSlot"
    /\ dSlots' = [dSlots EXCEPT ![Inactive] = slots[Inactive]]
    /\ pc' = "floor"
    /\ UNCHANGED <<boot, state, slot, candidate, free, pins, mem, dFloor, dWal, dTail, dData,
                   acked, nextId, inc, faults>>

\* Page 0 is rewritten in place; its 192 bytes that are not zero lie in one sector.
WriteFloor ==
    /\ pc = "floor"
    /\ floor' = state
    /\ pc' = "flushFloor"
    /\ UNCHANGED <<boot, state, slot, candidate, free, pins, slots, wal, tail, data,
                   dsk, acked, nextId, inc, faults>>

\* Seeded fault: the log is cut before the floor is durable.
FlushFloorSkipped ==
    /\ pc = "flushFloor"
    /\ pc' = "truncate"
    /\ UNCHANGED <<boot, state, slot, candidate, free, pins, mem, dsk, acked, nextId, inc, faults>>

FlushFloor ==
    /\ pc = "flushFloor"
    /\ WalFlushed
    /\ pc' = "truncate"
    /\ UNCHANGED <<boot, state, slot, candidate, free, pins, mem, dSlots, dData,
                   acked, nextId, inc, faults>>

Truncate ==
    /\ pc = "truncate"
    /\ wal' = <<>> /\ tail' = "clean"
    /\ pc' = "flushTruncate"
    /\ UNCHANGED <<boot, state, slot, candidate, free, pins, slots, floor, data,
                   dsk, acked, nextId, inc, faults>>

FlushTruncate ==
    /\ pc = "flushTruncate"
    /\ WalFlushed
    /\ slot' = Inactive
    /\ pc' = "mark"
    /\ UNCHANGED <<boot, state, candidate, free, pins, mem, dSlots, dData,
                   acked, nextId, inc, faults>>

\* Seeded fault: the inventory looks at the published root set only.
MarkUnpinned ==
    /\ pc = "mark"
    /\ free' = Extents \ {state.ext}
    /\ acked' = state
    /\ boot' = FALSE
    /\ pc' = "idle"
    /\ UNCHANGED <<state, slot, candidate, pins, mem, dsk, nextId, inc, faults>>

\* The inventory: whatever no live generation references may be overwritten.  The
\* one made by engine_open is the last thing before the store is in service.
Mark ==
    /\ pc = "mark"
    /\ free' = Extents \ ({state.ext} \cup {p.ext : p \in pins})
    /\ acked' = state
    /\ boot' = FALSE
    /\ pc' = "idle"
    /\ UNCHANGED <<state, slot, candidate, pins, mem, dsk, nextId, inc, faults>>

-----------------------------------------------------------------------------
(* Readers.                                                                  *)

Serving == ~boot /\ pc \notin {"down", "closed", "failed"}

\* udb_storage_engine_pin: the generation the engine has published last.
Pin ==
    /\ Serving /\ Cardinality(pins) < MaxPins
    /\ pins' = pins \cup {acked}
    /\ UNCHANGED <<pc, boot, state, slot, candidate, free, mem, dsk, acked, nextId, inc, faults>>

Release ==
    /\ ~boot
    /\ \E p \in pins : pins' = pins \ {p}
    /\ UNCHANGED <<pc, boot, state, slot, candidate, free, mem, dsk, acked, nextId, inc, faults>>
-----------------------------------------------------------------------------
(* Failures.  A process that ends forgets its volatile state.                *)

Forget(newPc) ==
    /\ pc' = newPc
    /\ boot' = TRUE
    /\ state' = Genesis /\ candidate' = Genesis /\ slot' = 0
    /\ free' = {} /\ pins' = {}

Count(kind, bound) ==
    /\ faults[kind] < bound
    /\ faults' = [faults EXCEPT ![kind] = @ + 1]

Down == pc \in {"down", "closed"}
Writing == {"flushData", "append", "appending", "flushWal", "slot", "slotWriting", "flushSlot",
            "floor", "flushFloor", "truncate", "flushTruncate", "retire"}

\* The process is killed; the system's cache survives it.
Kill ==
    /\ ~Down
    /\ Count("kill", MaxKill)
    /\ Forget("down")
    /\ UNCHANGED <<mem, dsk, acked, nextId, inc>>

\* A write or a flush fails: the journal and the engine refuse all further work.
IoFail ==
    /\ pc \in Writing
    /\ Count("fail", MaxFail)
    /\ pc' = "failed"
    /\ UNCHANGED <<boot, state, slot, candidate, free, pins, mem, dsk, acked, nextId, inc>>

\* The operator ends a process whose engine has failed.
Exit ==
    /\ pc = "failed"
    /\ Forget("down")
    /\ UNCHANGED <<mem, dsk, acked, nextId, inc, faults>>

\* The log u is a beginning of the log w.
Begins(u, w) == Len(u) <= Len(w) /\ SubSeq(w, 1, Len(u)) = u

\* What a power loss may leave of the log: the durable entries, or what was cached
\* up to some entry, the next page being absent, partial or (TornAppend) whole garbage,
\* on which a restart fails closed.
LogImages ==
    LET base == IF Begins(dWal, wal) THEN Len(dWal) ELSE 0
    IN  {<<dWal, dTail>>} \cup
        {<<SubSeq(wal, 1, n), t>> : n \in base .. Len(wal),
            t \in {"clean", "partial"} \cup (IF TornAppend THEN {"torn"} ELSE {})}

PowerLoss ==
    /\ pc # "closed"
    /\ Count("power", MaxPower)
    /\ \E k0 \in {slots[0], dSlots[0], Torn}, k1 \in {slots[1], dSlots[1], Torn} :
          /\ slots[0] = dSlots[0] => k0 = slots[0]
          /\ slots[1] = dSlots[1] => k1 = slots[1]
          /\ slots' = [k \in {0, 1} |-> IF k = 0 THEN k0 ELSE k1]
    /\ floor' \in {floor, dFloor}
    /\ \E image \in LogImages :
          /\ <<wal, tail>> = <<dWal, dTail>> => image = <<wal, tail>>
          /\ wal' = image[1] /\ tail' = image[2]
    /\ \E image \in [{e \in Extents : data[e] # dData[e]} -> {"new", "old", "lost"}] :
          data' = [e \in Extents |-> CASE data[e] = dData[e] \/ image[e] = "new" -> data[e]
                                      [] image[e] = "old" -> dData[e]
                                      [] OTHER -> 0]
    /\ dSlots' = slots' /\ dFloor' = floor' /\ dWal' = wal' /\ dTail' = tail' /\ dData' = data'
    /\ Forget("down")
    /\ UNCHANGED <<acked, nextId, inc>>

\* The medium damages a checkpoint slot while no process uses it.
Rot ==
    /\ pc = "down"
    /\ Count("rot", MaxRot)
    /\ \E k \in {0, 1} :
          /\ slots' = [slots EXCEPT ![k] = Torn]
          /\ dSlots' = [dSlots EXCEPT ![k] = Torn]
    /\ UNCHANGED <<run, floor, wal, tail, data, dFloor, dWal, dTail, dData, acked, nextId, inc>>

-----------------------------------------------------------------------------
(* Recovery.                                                                 *)

\* Seeded fault: the stages of the dead owner stay.
ProceedWithStages(s) == candidate' = s /\ pc' = "slot" /\ UNCHANGED nextId

\* Where engine_open goes once the root set s is known: retire abandoned stages
\* by a commit, or straight to the start-up checkpoint.
Proceed(s) ==
    IF s.stages # 0
    THEN candidate' = Discarded(s) /\ pc' = "flushData" /\ nextId' = nextId + 1
    ELSE candidate' = s /\ pc' = "slot" /\ UNCHANGED nextId

\* Seeded fault: a log that ends in a partial page is neither opened nor refused.
RecoverWhole ==
    /\ pc = "down" /\ Openable /\ tail = "clean"
    /\ state' = Recovered
    /\ slot' = NewestSlot
    /\ inc' = inc + 1
    /\ Proceed(Recovered)
    /\ UNCHANGED <<boot, free, pins, slots, floor, wal, tail, data, dsk, acked, faults>>

Recover ==
    /\ pc = "down" /\ Openable
    /\ state' = Recovered
    /\ slot' = NewestSlot
    /\ inc' = inc + 1
    /\ IF tail = "partial"
       THEN pc' = "retire" /\ tail' = "clean" /\ candidate' = Recovered /\ UNCHANGED nextId
       ELSE Proceed(Recovered) /\ UNCHANGED tail
    /\ UNCHANGED <<boot, free, pins, slots, floor, wal, data, dsk, acked, faults>>

\* The log was cut back to whole entries: flush it.
Retire ==
    /\ pc = "retire"
    /\ WalFlushed
    /\ Proceed(state)
    /\ UNCHANGED <<boot, state, slot, free, pins, mem, dSlots, dData, acked, inc, faults>>

\* Anything ambiguous fails closed.
Refuse ==
    /\ pc = "down" /\ ~Openable
    /\ pc' = "closed"
    /\ UNCHANGED <<boot, state, slot, candidate, free, pins, mem, dsk, acked, nextId, inc, faults>>

-----------------------------------------------------------------------------
Commit == FlushData \/ AppendBegin \/ AppendEnd \/ FlushWal \/ Publish
TakeCheckpoint == SlotBegin \/ SlotEnd \/ FlushSlot \/ WriteFloor \/ FlushFloor
                    \/ Truncate \/ FlushTruncate \/ Mark
Reopen == Recover \/ Retire \/ Refuse
Work == Commit \/ TakeCheckpoint \/ Reopen \/ Exit
Environment == Kill \/ PowerLoss \/ Rot \/ IoFail

Next == Prepare \/ Abandon \/ Pin \/ Release \/ Work \/ Environment

Spec == Init /\ [][Next]_vars

\* The writer thread runs whenever it has something to do, and a process that
\* ended is started again.
FairSpec == Spec /\ WF_vars(Work)

-----------------------------------------------------------------------------
(* What makes the journal correct.                                           *)

Slots == [{0, 1} -> RootSet]
Tails == {"clean", "partial", "torn"}

\* Every variable holds a value of its kind (the structures of
\* udb_storage.h and the stages of commit, checkpoint and recovery).
TypeOK ==
    /\ pc \in Writing \cup {"idle", "publish", "mark", "failed", "down", "closed"}
    /\ boot \in BOOLEAN
    /\ state \in RootSet /\ candidate \in RootSet /\ acked \in RootSet
    /\ slot \in {0, 1}
    /\ slots \in Slots /\ dSlots \in Slots
    /\ floor \in RootSet /\ dFloor \in RootSet
    /\ wal \in Seq(Entry) /\ dWal \in Seq(Entry)
    /\ tail \in Tails /\ dTail \in Tails
    /\ data \in [Extents -> Nat] /\ dData \in [Extents -> Nat]
    /\ free \subseteq Extents /\ pins \subseteq RootSet
    /\ nextId \in Nat /\ inc \in Nat
    /\ faults \in [{"kill", "power", "rot", "fail"} -> Nat]

\* s is t or a later root set built on it.
Extends(s, t) ==
    /\ t.gen <= s.gen
    /\ t.hist \subseteq s.hist
    /\ t.gen = s.gen => s = t

\* Whatever died, tore or rotted before, a process that has opened the store stands
\* on a root set that contains every transaction ever acknowledged or read.
NoLostAck == ~Down => Extends(state, acked)

-----------------------------------------------------------------------------
(* Why: the inductive invariant behind NoLostAck.  Everything the files still *)
(* hold, durable or cached, lies on one history; a running process stands at  *)
(* its tip; the cache knows whatever the disk knows; and every image a power  *)
(* loss may leave has a floor or an entry at least as new as acked.           *)

Entries(w) == {w[i].st : i \in 1 .. Len(w)}

\* Every root set a file may still hold or anyone has seen.
Kept == {s \in {slots[0], slots[1], dSlots[0], dSlots[1]} : Readable(s)}
            \cup {floor, dFloor, acked} \cup Entries(wal) \cup Entries(dWal)

OneHistory == \A s, t \in Kept : s.gen <= t.gen => Extends(t, s)

Running == pc \notin {"down", "closed", "failed"}

Tip == IF pc = "flushWal" THEN candidate ELSE state

AtTheTip == Running => \A s \in Kept : Extends(Tip, s)

LogKnows(s) == \E t \in {floor} \cup Entries(wal) : s.gen <= t.gen

CacheKnows ==
    /\ Running => LogKnows(state)
    /\ \A s \in {acked, dFloor} \cup Entries(dWal) : LogKnows(s)
    /\ \A k \in {0, 1} : dSlots[k] = slots[k] \/ LogKnows(dSlots[k])

AckedDurable ==
    \/ acked.gen <= floor.gen /\ acked.gen <= dFloor.gen
    \/ Begins(dWal, wal) /\ \E s \in Entries(dWal) : acked.gen <= s.gen

Stages ==
    /\ pc \in {"flushData", "append", "appending", "flushWal"} =>
          candidate.gen = state.gen + 1 /\ state.hist \subseteq candidate.hist
    /\ pc = "flushWal" => candidate \in Entries(wal)
    /\ pc = "publish" => dWal = wal /\ state \in Entries(wal)
    /\ pc \in {"flushFloor", "truncate", "flushTruncate", "mark"} => floor = state
    /\ pc \in {"truncate", "flushTruncate", "mark"} => dFloor = state

IInv == /\ TypeOK /\ NoLostAck /\ OneHistory /\ AtTheTip
        /\ CacheKnows /\ AckedDurable /\ Stages

-----------------------------------------------------------------------------
\* The extents of the published root set and of every pinned one still hold their
\* roots: the writer reuses only what the last inventory found unreferenced.
PinnedIntact == \A p \in pins \cup (IF Serving THEN {acked} ELSE {}) :
                    p.ext # NoExt => data[p.ext] = p.ver

\* A store in service carries no pending stage of an owner of an earlier process,
\* so owner identities can start again from 1.
NoForeignStages == Serving => acked.stages \in {0, inc}

\* A restart refuses the store only for a log that ends in a whole page of garbage, which
\* always fails closed: the slots, the floor and the root set agree even then.
Recoverable == pc = "closed" => tail = "torn" /\ SlotsAgree /\ FloorAllows /\ RootValid(Recovered)

\* A process that died is in service again, unless its disk fails or the power loss left
\* such a page.
Reopens == pc = "down" ~> (Serving \/ pc = "failed" \/ (pc = "closed" /\ tail = "torn"))

Durable == INSTANCE UdbDurable
    WITH served <- acked.hist,
         phase <- IF Serving THEN "up" ELSE IF pc = "closed" THEN "closed" ELSE "down"

\* The journal implements UdbDurable: nothing served is lost or half there.
ImplementsDurable == Durable!Spec

=============================================================================
