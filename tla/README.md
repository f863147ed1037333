# A verification of the UDB native store and its reconciliation

This directory holds TLA+ models of UDB 4, the replicated database module of
UnrealIRCd kept in `src/`, the TLC configurations that check them on small
instances, and proofs for TLAPS. File names below are relative to `src/src/`
unless they say otherwise. Every definition that stands for code has its lines
in `PROJECT.json` under `map`.

## 1. The system

Each IRC server keeps six blocks of records (N, C, I, S, L, K) in a store of its
own. The main thread of the daemon speaks the `DB` protocol with the servers
linked to it, and asks one writer thread for everything that changes the store.

| Part | Files | State | Operations |
|---|---|---|---|
| Root-set journal | `udb_storage_journal`, `udb_storage_state` | two checkpoint slots, a floor page, a write-ahead log, `journal->state`, `slot`, `end`, `failed` | initialise, commit, checkpoint, recover |
| Extent reclaimer | `udb_storage_reclaim` | map of referenced pages, reserved fragments | inventory (refresh), reserve |
| Writer engine | `udb_storage_engine` | queues (pending, active, completed), generations with reference counts, `queue_bytes`, `delivery_bytes`, revisions, `admission`, `failed`, `stopping` | run loop; submit, poll, free, pin, release, cancel, authority, stop, close |
| Jobs | `udb_storage_jobs`, `udb_storage_stage_jobs`, `udb_storage_stages` | the work in progress, the controllers of rounds, the durable catalog of pending roots | BIND, POINT, PREFIX, DROP, EXPIRE; BEGIN, PUT, END, REUSE, PROMOTE, ABORT |
| Trees and runs | `udb_storage_catalog`, `_nodes`, `_codec`, `_fragments`, `_runs`, `_queries`, `_read`, `_point`, `_prefix`, `_rebuild`, `_sort`, `_raw`, `_validate` | copy-on-write pages of one private candidate | look-up, merge, insert, prefix deletion, rebuild, external sort, validation |
| Page cache, hashing, I/O | `udb_storage_cache`, `_hash`, `_io` | cached pages and their pins, files and locks | get, unpin, evict; read, write, resize, flush |
| Orphan cleanup | `udb_storage_orphans` | private stage files of dead processes | remove at start-up |
| Snapshot receiver | `udb_native_receive` | at most eight rounds: owner, revisions, inventory and durable masks, promote and abort job | INF, BEGIN, PUT, END; completion event; replay pump |
| Snapshot sender | `udb_native_sync` | one round per peer: pinned generation, requested, sent and acknowledged masks | offer, RES, ACK, pump |
| Mutation ingress and relay | `udb_mutation` | deliveries: envelope, credit, revision, round of the replay | INS, DEL, DRP, EXP; bind, replay, abort, complete, relay |
| Synchronisation | `udb_sync` | greeting per peer, the active reconciliation with its deadlines and retry, READY, status, anti-entropy | begin, abort, timeouts, policy change, anti-entropy |
| Protocol | `udb_protocol` | none of its own | parsing and dispatch of `DB` |
| Effects | `udb_native_effects`, `udb_nicks`, `udb_channels`, `udb_ips`, `udb_lines` | what a record has done to clients, channels, addresses and bans | projection of a change between two exact root sets; expiry sweep; authentication |
| Operclass inventories | `udb_operclasses` | per origin: epoch, revision, staged and complete inventory; the intersection of all | BEGIN, ITEM, END, recompute |
| Schemas, keys, values | `udb_native_schema`, `_wire`, `_read` | none | validation and conversion |
| Configuration, queries, glue | `udb_config`, `udb_services`, `udb_query`, `udb_core`, `udb_store` | configured policy | parsing, read-only answers |
| Lifecycle | `udb_lifecycle`, `udb.c` | the engine's life | load, rehash, unload |

How they interact:

* Main thread to writer: `udb_storage_engine_submit` copies a job under
  `engine->mutex`; nothing but identities and revisions crosses. The writer
  hands it back in `completed`; an event of the main loop polls it every 10 ms.
* Writer to journal: one call of `udb_storage_journal_commit` per group; a
  checkpoint, followed by the inventory of reusable extents, when the log has
  grown to 64 MiB, and once at start-up.
* Readers, the sender and unread receipts pin a generation; the reclaimer reads
  the list of generations.
* Every page a reader, a validation or the reclaimer looks at comes through the
  page cache, which all threads share; writing a file first drops what the cache
  holds of it.
* Between servers: `INF` (inventory of the authority), `RES` (request of a
  differing block), `BEGIN`/`PUT`/`END` (the block), `ACK` (its pending root is
  durable). When all six pending roots are durable a PROMOTE job makes them the
  database at once.

What is hard: two threads with an authority that may be withdrawn between any
two steps; groups in which one job fails; a crash between any two writes; late
receipts of rounds that are gone; a full queue just when an ABORT is needed; a
retry of what was turned away. The list, line by line, with the properties that
cover each, is in `PROJECT.json` under `hazards`.

What makes each part correct, and which module says so:

* journal: what was acknowledged is recovered, and the store opens (`UdbJournal`);
* writer: whole groups, exact credits and references, receipts that tile the
  history, everything answered (`UdbWriter`);
* receiver: a promotion is one complete announced round; nothing is left behind
  (`UdbReceive`);
* ingress, sender and synchronisation: the replica's root is a prefix of the
  authority's stream, READY misses nothing it accepted, and a replica does not
  stop short of the authority without a retry (`UdbSync`);
* operclasses: an inventory counts only whole and only of the instance that is
  there, and without traffic all servers agree (`UdbOcl`);
* page cache: a pinned page stays, a cached page is what the file holds, the
  budget is what the entries cost (`UdbCache`);
* trees and runs: the rows are those of a plain table, and the shape, so the
  digest that servers compare, depends on the rows alone (`UdbBlock`);
* effects: what a record has done to a client or channel is undone when the record
  goes, and nothing else is (not modelled, section 5).

## 2. The modules

| Module | Models | Notes |
|---|---|---|
| `UdbDurable` | what the journal promises: a history that only grows, one transaction set at a time, through stops and restarts | abstract |
| `UdbJournal` | journal, inventory, start-up recovery, crashes | refines `UdbDurable` |
| `UdbJournalProofs` | proofs about `UdbJournal`: nothing acknowledged is lost, what a store in service holds, and the refinement | TLAPS |
| `UdbLedger` | what the writer promises its callers: whole groups, nothing whose authority was withdrawn in time, successes told in order | abstract |
| `UdbJobs` | what one job may do to a root set, to the pending roots and to the controllers | operators |
| `UdbWriter` | writer thread and main thread around `engine->mutex` | extends `UdbJobs`; refines `UdbLedger` |
| `UdbWriterProofs` | proofs about `UdbWriter`: the order of jobs, the ledger, the receipts | TLAPS |
| `UdbWriterAccounts` | on top of it: queue room, references, shutdown | TLAPS |
| `UdbReceive` | the receiving side of a reconciliation | extends `UdbWriter`: the composition of receiver and writer |
| `UdbReceiveProofs` | proofs about `UdbReceive`: what a promotion does to the store | TLAPS |
| `UdbReceiveRounds` | on top of it: what acknowledgements, READY and the end of a round stand for | TLAPS |
| `UdbSync` | an authority and a replica: ingress, relay, sender, receiver, retry, anti-entropy, lost links | the composition of both sides |
| `UdbSyncProofs` | proofs about `UdbSync`: the replica's root is one the authority had, and a READY replica misses nothing it accepted | TLAPS |
| `UdbOcl` | the operclass registry of a network of servers | |
| `UdbOclProofs` | proofs about `UdbOcl` | TLAPS |
| `UdbCache` | the page cache between its readers and the files | |
| `UdbCacheProofs` | proofs about `UdbCache` | TLAPS |
| `UdbRows` | what the blocks promise: a table of rows, one mutation at a time | abstract |
| `UdbBlock` | point and prefix changes of the blocks' trees, phase by phase | refines `UdbRows` |
| `MCUdb...` | values for TLC | |

A definition marked *Fault* is a seeded bug: it has the parameters of the
definition below it and is used by no specification; `PROJECT.json` pairs it with
the property that must fail when it takes that definition's place.

### UdbJournal

`state`, `slot` are the fields of `UdbStorageJournal`; `slots`, `floor`, `wal`,
`tail`, `data` are the files as the operating system shows them, `dSlots` ... `dData`
as the medium holds them. `pc` walks through `udb_storage_journal_commit` (FlushData,
AppendBegin, AppendEnd, FlushWal), the engine's Publish,
`udb_storage_journal_checkpoint` (SlotBegin ... FlushTruncate) with Mark, the inventory of
`udb_storage_reclaimer_refresh`, and recovery (Recover, Retire, Refuse). A write is a
step, and a write larger than a page two, so that a crash finds it half done.

A root set is its generation, the hash of the entry that carries it (`id`), the
transactions it is the result of (`hist`, a history variable), the newest extent
it refers to, and the incarnation that owns pending roots in it.
Kill keeps the cache, PowerLoss keeps of each unflushed page the old image, the
new one or garbage, Rot damages a slot while no process runs, IoFail fails a
write or flush. Assumed: fsync makes the file durable, and the floor page, whose
non-zero bytes lie in one sector, is written whole (`udb_storage_journal_floor_write`
writes 192 bytes that are not zero). A root set fits one page.

A log that ends in a partial page is cut; a whole page that does not decode always fails
closed (`udb_storage_journal.c.inc:379-387`), whatever wrote it. With TornAppend a power
loss may leave such a page of an append that was not flushed. The runs allow it, and
`Recoverable` and `Reopens` except exactly that case: the commit was not acknowledged, but
nothing in the code cuts such a page.

### UdbJobs, UdbWriter

A block's contents are a digest, a row is counted. The catalog of pending roots,
`stages`, is part of the root set, as in `UdbStorageState`; the controllers
(`engine->stages`) are `own`. A result the code cannot foresee from what is
modelled (a validator's refusal, a digest that does not add up, an expiry that was
renewed) is one of the `Outcomes`.

Each section under `engine->mutex` is one step; what the writer does between two
sections is private and belongs to the step before the next, except a
preparation and the commit, during which the main thread may act. `queue` and
`delivery` count in units of a job or an envelope instead of bytes. The journal
appears as Commit and CommitFails: that is what UdbDurable promises. A step of the
main thread is one entry of an event handler into the engine. `polled`, what the callers
were told so far, and the `log` of a root set are history variables.

### UdbReceive

`rounds` is `udb_native_receive_rounds`, with an entry per owner identity; `wire` is the
round number of the authority, `reconcile` the active one of `udb_reconcile`. Frames
(Inf, FirstInf, BeginBlock, PutRow, EndBlock) come in any order the protocol
allows and may never come. The completion event is TickBegin, a step per receipt,
TickEnd; no frame is handled in between, as in the daemon's single loop, while
the writer runs on. Withdraw is every event that moves the authority revision
(policy, a peer's new instance, a lost link), with or without ending the round.

### UdbSync

`auth` is the sending server: whether it is READY, the mutations it has committed
(`seq`) and relayed, the last round number it gave out and its `UdbNativeSendRound`.
`node` is the replica: `ready`, `udb_reconcile` (`active`, `wm`, `inv`, `retry`, `armed` for
`next_retry_at`), the blocks it waits for and has durably, the deliveries of
`udb_native_deliveries`, the writer's queue and its receipts, the published root and the
pending one, and `udb_anti_entropy` (`ae`). `down` and `up` are the link, in order: a
server link is one TCP connection, and what is lost is lost with it.

A frame is handled to its end in one step (Receive, and Hear... at the authority),
and so is a turn of the completion event (Tick); the writer (Write) runs between
them. So an aborted round leaves jobs and receipts behind, with `mine` and `live`
cleared, which come back later in the middle of another round; that, and the second
numbering that comes with another authority (LinkReturns), is what `RootIsPrefix`
is about. Operators on the replica take it and return what it becomes, as the C
functions take the context; `out` collects the frames.

What may go wrong is bounded per kind by `Budget`; a failure is one of the writer, the sender,
the relay or the ingress. Two of all these leave no trace in the code.
Refuse: ingress has no memory, no queue room or no admission for a mutation, answers with
an ERR that no handler acts on, and goes on as it was. RelaySkips: the authority cannot
write a row out, or the frame fits no line, and relays nothing. `missed`, a history variable,
collects the mutations that were lost so. RelayFails, an authority without memory, is
different: it withdraws its READY and offers a round when it has it back. A root authority
then binds a new epoch and counts from 0 (`udb_native_local_bind`); in the model the
stream goes on, as what follows is a whole round in both cases.

A block's contents are the last mutation that touched it. BEGIN, the PUTs and END of a
block are one frame: UdbReceive has the sessions. Retries are counted up to
UDB_RECONCILE_RETRY_MAX; once they ran out (`exhausted`) only an anti-entropy check, a
link event or another offer starts a round, and the properties say so.

### UdbOcl

Every server has its own instance (`epoch`) and revision (`gen`), its local inventory, one
record per visible server (`org`, UdbOclOrigin) and the greeting with each neighbour
(`peers`). BEGIN, ITEM and END are frames of their own, relayed only after they are
committed; what one call sends is kept together on the link as a sequence of frames, of
which Deliver takes the first. The links form a tree, as IRC's do, and `Route` says which
neighbour leads to whom. SID and SQUIT stand for the IRC daemon's own topology messages, in the same
stream as the others. Reload is a module that is unloaded and loaded again on a link
that stays up; Rehash changes the local inventory; StageExpires is the time-out of a
stage. Under links that keep order, the tests against retired epochs never fire: they
are a second line of defence, and the mutants leave them alone. A greeting that is never
answered ends in a link that is aborted (`udb_sync.c.inc:935-949`), which is a LinkBreaks; its
deadline is not modelled.

### UdbCache

Every operation holds the cache's mutex, so each is one step, between which readers
hold their pins. Charges are counted in entries. The LRU order is left open: any
unpinned page may be the victim, so what holds does not depend on the order. A
validating thread (`bypass`) reads past the cache on the auxiliary class, keeps index
pages if the cache has room, and gives the others up with their pin.

### UdbBlock

`root` is the published root of the blocks: the nodes of their radix trees, the runs, the
tombstones and the digests. `work` is the mutation the writer prepares on a root of its
own; its `phase` is the phase of `UdbStoragePointChange` or `UdbStoragePrefixChange`, and every
step may fail. A digest stands for what it covers: the places and rows of the leaves.
A rebuild is one step, private like all others, and yields the canonical tree of its
rows; the catalog of nodes, itself a copy-on-write tree, is a function. No job makes a
DELETE record, so a leaf never becomes empty by one. `Canonical` is stated for the
published root.

## 3. What the runs show

| Run | Bounds | Shows |
|---|---|---|
| JournalFaults | 4 extents, 3 transactions, checkpoint every 2 entries, 1 kill, 2 power losses, 1 rot, 1 failing write | `NoLostAck`: whoever opens the store stands on a root set that contains all that was ever acknowledged; `NoForeignStages`; `ImplementsDurable`; and `IInv`, the invariant of the proofs |
| JournalReopens | 3 extents, 4 transactions, 2 pins; 2 kills and 1 failing write, or 1 power loss | `Recoverable`, `Reopens`: with faults of one kind the store opens, from every point of commit, checkpoint and recovery, unless a power loss left the log ending in a whole page of garbage; `PinnedIntact`: no extent of a pinned generation is overwritten through two checkpoints |
| JournalMixed | 1 kill then 1 power loss | a violation of `Recoverable`, section 6 |
| WriterMutations | 2 deliveries, groups of 2, 1 reader, 1 change of authority, 1 failure, a shutdown at any time | `Accounts`, `NeverAborts`, `ReceiptsTile`, `ImplementsLedger`, and, with the writer scheduled, `Answered` and `Joins` |
| ReceiveRounds | 2 owners, 2 rounds of 2 blocks with no block in common, queue of 2; 1 withdrawal, and deadlines, while a PROMOTE is under way or READY is served | `PromotionExact`, `AckedDurable`, `ReadyExact`; the queue's charge in `ReceiveTypeOK` |
| ReceiveFaults | 1 owner, 2 blocks (one equal), queue of 3; 1 failure, 1 withdrawal and deadlines anywhere | `StagesAgree`, `NoOrphanRoots`, `RoundsEnd` |
| SyncTail | 2 blocks, 3 mutations, 3 rounds, 2 retries; 1 failure, 1 broken link, the authority once not READY or skipping a relay | `RootIsPrefix`, `ReadyHoldsAll`, `OneBlockInFlight`, and `RestIsCaughtUp`, of a replica that may lack the latest mutations if all of them were lost in silence |
| SyncRefused | 2 mutations, 2 rounds, 1 failure | a violation of `NoSilentDivergence`, section 6 |
| SyncRecovers | 2 blocks, 2 mutations, 2 retries; 1 failure, 1 deadline too early, anti-entropy once out of turn and, at rest, whenever it is due | `Recovers` |
| OclRegistry | 3 servers in a row, 2 classes; any 3 of: a rehash, a reload, a broken link, an expired stage | `ViewExact`, `FailClosed`, `NoDeadInstance`, `RestAgrees` |
| CachePages | 3 readers, 2 files of 2 pages, a cache of 1 or 2 entries, auxiliary room for 1, 2 generations | `PinsExact`, `WithinBudget`, `Coherent`, `PinnedStable` |
| BlockTrees | 2 blocks (K, N), 6 keys in 3 partitions, leaves of weight 3, 2 runs per leaf, 2 bits, 4 sequences | `Canonical`, `ImplementsRows` |

Why the bounds are enough to be interesting. Three transactions with a checkpoint
every two cover a commit before, inside and after a checkpoint, in both slots; a
second power loss can hit the recovery from the first. Two jobs are a group of two,
two groups, and a group that is split by a refusal. Two owners are an abandoned round
next to a live one, which is what the retry of ABORT and late receipts are about; a queue of two is the smallest that one job fills while another is
on its way. In ReceiveRounds the rounds differ in every block, the first having one row
in one block and the second one row in the other, so a promotion that took some roots
and left others would serve a mixture; both rounds may be promoted, one after the other.
To stay small, that run ends rounds by the next announcement and has deadlines and the
withdrawal only where they meet a promotion or READY; ReceiveFaults has them at any time.
Two blocks are also a block that is sent next to one that is reused. Three
mutations are one in the snapshot, one between the snapshot and its promotion, and
one after it, in both orders of blocks. Three servers in a row are the smallest
network with a relay. A cache of one entry with three readers is full of pinned
pages at once, and shrinking it from two meets pins as well. The rows of the trees
split and merge at both levels, fill a leaf's runs, and have a prefix that covers two
partitions next to one that covers part of one.

Some limits are not reached: two jobs do not fill the queue of 5 of WriterMutations (those
of the receiver's runs do fill theirs), no run has more rounds than the owner limit lets in,
and one reload does not make a server forget an epoch. The theorems of section 4 hold for all
values of these.

The runs stop where their bounds do, so deadlock is not checked; that work never
gets stuck is stated by `Reopens`, `Answered`, `Joins`, `RoundsEnd`, `RestIsCaughtUp` and
`Recovers`. CachePages never stops, and there deadlock is checked. MaxOffer bounds the
rounds the authority numbers in SyncTail, where `RestIsCaughtUp` is about states in
which nothing is under way; in SyncRecovers it is out of reach.

Fairness. The writer thread and the recovering process run when they can
(`WF` on their steps): they are threads of the operating system, and a failed
process is started again by its operator. The completion event runs every 10 ms
(`udb_protocol.c.inc:710`). A reconciliation's absolute deadline is set once, at its
beginning (`udb_sync.c.inc:422-426`), and no traffic moves it, so Timeout is fair as
long as the round is active; nothing else in a round is. That the deadline comes is
thereby an assumption of `RoundsEnd`, read off those lines and not checked. In UdbSync
`Progress` is weakly fair: frames under way are handled, the writer and the events run,
deadlines pass when nothing else can happen (`udb_sync_timeout_event` runs every second),
a READY node asks for a comparison when nothing has happened for the interval of
anti-entropy (`udb_anti_entropy_timer_check`), the link returns and the authority becomes
READY again. That is one condition on all of these together,
weaker than one on each. Mutations, faults, readers, shutdowns and everything in
UdbOcl, UdbCache and UdbBlock owe nothing.

## 4. What is proved

### The journal

`UdbJournalProofs` proves, for every set of extents, every checkpoint length and
every bound on faults, from `JournalAssumption` alone:

* `TypeCorrect`: `Spec => []TypeOK`;
* `JournalInvariant`: `Spec => []IInv`;
* `AckedNeverLost`: `Spec => []NoLostAck`.

`NoLostAck` (a process that has opened the store stands on a root set extending
the last acknowledged one) is not inductive: nothing in it says what the files
hold. `IInv` adds four things. `OneHistory`: all that any file still holds, cached or
durable, readable slots, floors and log entries, is comparable, the newer
containing the older. `AtTheTip`: a running process stands at the newest of them, so
its next commit extends all. `CacheKnows`: the cached floor or log is as new as
anything the medium holds, so recovery from the cache cannot go back. `AckedDurable`:
both floors are as new as the acknowledged root set, or a durable log entry is
and the cached log begins with the durable one; hence every image a power loss
may leave has a floor or an entry as new as that. `Stages` ties these to the point
the commit or checkpoint has reached. A recovered root set is then at least as
new as the floor or the last entry, and by `OneHistory` contains the acknowledged
one. There is one lemma per action, and under it one step per conjunct that the
action can disturb.

On top of `IInv` comes what that root set may contain, as the invariant `Service`:

* `StagesOfTheDeadRetired`: `Spec => []NoForeignStages`. `OwnStages` says of every point of
  the start-up which root set may still carry the stages of a dead process: all of them
  until the retiring commit, none once something is served;
* `PinnedNeverOverwritten`: `Spec => []PinnedIntact`. `LiveExtents` has to speak of the
  published, the prepared and the acknowledged root set as well as of the pins: a
  reader may pin any of them next;
* `JournalImplementsDurable`: `Spec => ImplementsDurable`. `OneInDoubt` says that all the
  files hold contains at most one transaction more than was acknowledged, so that a
  restart brings back exactly the history, with or without the one in doubt. Every
  step is then a step of `UdbDurable` or a stutter.

### The writer

`UdbWriterProofs` proves, for every set of requests and readers and every bound, from
`WriterAssumption` alone:

* `LedgerInvariantHolds`: `Spec => []LedgerInvariant`;
* `WriterImplementsLedger`: `Spec => ImplementsLedger`;
* `ReceiptsAlwaysTile`: `Spec => []ReceiptsTile`.

Jobs are numbered as they are submitted and every list they pass through is a queue:
`Line` says that `pending`, `group`, `completed` and the detached job are consecutive
intervals of the numbers, so that membership becomes arithmetic. `Phase` says what each
point of the writer's loop knows of its group. `History` places the ledger of durable jobs
on that line: it is ascending and holds exactly the successes among the jobs whose group
went through the journal. `Private` says the same of the candidate and the part of the
group that was prepared. `Withdrawals`: a job that was withdrawn in time is cancelled or
older than the authority, so every later look refuses it, and it never is past the barrier.
`Telling`: what was told is the polled part of the ledger, in its order. With these, each
step is a step of `UdbLedger` or a stutter. The receipts need `Tiles` besides, which says of
ledger and candidate what `ReceiptsTile` says of the published state.

`UdbWriterAccounts` proves on top of it:

* `AccountsAlwaysBalance`: `Spec => []Accounts`;
* `ShutdownNeverAborts`: `Spec => []NeverAborts`;
* `WriterTypeCorrect`: `Spec => []TypeOK`.

`Room` adds up the queue: deliveries, and one for each job on the line. `Pins` says which
generations there are (the published one, those readers hold, the two of each receipt not
polled yet) and that each has as many references as holders. It needs `Latest`: the
published generation is the durable one, except between a commit and its installation,
where it is an earlier one; otherwise a new generation could be one somebody already holds.
That the shutdown does not abort follows: what it gives back is all there is.

### The receiver

`UdbReceiveProofs` proves, for every set of attempts, rounds and blocks and every bound, from
`WriterAssumption` and `ReceiveAssumption` (there are finitely many attempts, numbered as they
open, 0 is not the number of a round, and the mark for "no stage" is neither a pending root
nor a controller):

* `ReceiveInvariantHolds`: `ReceiveSpec => []FullInvariant`;
* `PromotionsAreExact`: `ReceiveSpec => []PromotionExact`;
* `ReceiveTypeCorrect`: `ReceiveSpec => []ReceiveTypeOK`.

No line of the code compares a promoted root with the announcement it answers: a promotion
job checks the lineage, the owner and a mask of pending blocks, and the digests were checked
when each block was prepared. That these add up to `PromotionExact` is a statement about the
whole path. `Words` follows the announcement along it: `Speaks` says that a job carries the
lineage and the digest its owner was told, of the round as it was announced, and `Words`
that the controllers, the durable pending roots and those of the candidate hold nothing
else. It needs `SameRounds`: an owner never has two announcements, since the INF
that comes after an abort opens another owner. `Deeds` says what each job on the ledger or
in the candidate has done to the root set (`OutcomeSound`, by kind of job), and thereby that a
promotion that succeeded found the whole mask. As in the proofs about the writer, jobs are
numbered: `Line` and `Logs` say that a group that is turned away, and whose receipts are taken
back, shares no job with the ledger. `Room` and `Pointers` tie the queue's charge and the
controllers' job pointers to that line. There is one lemma per action; the steps of the main
thread that submit and abort jobs come down to `MainKeeps`.

`UdbReceiveRounds` proves on top of it what the receipts of a round stand for:

* `RoundsInvariantHolds`: `ReceiveSpec => [](FullInvariant /\ RoundsInvariant)`;
* `BlocksStayDurable`: `ReceiveSpec => []AckedDurable`;
* `ReadyIsExact`: `ReceiveSpec => []ReadyExact`;
* `NothingLeftBehind`: `ReceiveSpec => []NoOrphanRoots`;
* `ControllersAgree`: `ReceiveSpec => []StagesAgree`.

All four properties compare what the main thread was told with what the writer has done since,
and none is inductive: between the two lie the jobs that are queued, in the group or
reported and not read. `RoundsInvariant` has a part for each thing that could come between.

* `Receiving`: receipts wait in the order of their jobs, so one number (`Told`) says what the
  main thread knows of; `Worked` and `Known` do the same for the candidate and the durable root.
* `Course`: of the jobs of one round the builders come first, then one PROMOTE, then
  ABORTs, of which one is under way at a time; a durable block was reported by its job.
* `Revisions`: revisions grow along the line, and every current job that is not an ABORT is one
  of the single round that speaks, or, when none does, is cancelled or past the barrier.
  This is what an abort achieves by cancelling the jobs of the round *and*, where a new
  round takes over, by moving the revision; `Withdraws` and `Renews` are those two cases.
* `Apart`: in the group of an ABORT no other job of its round does anything. The code never
  checks this; it holds because an ABORT is asked for only once its round is withdrawn, and
  it is why preparing a group cannot build again what its ABORT has just removed.
* `Sets`: up to job `Known` the durable root set, and up to `Worked` the candidate, has the blocks
  that live rounds delivered (`Covers`), nothing of rounds that were closed (`Closed`), and the
  blocks and the lineage of the last promotion (`Served`). `Differs` bounds how far a candidate
  is from the durable root, for the group that is turned away.
* `Control`: a controller that did not fail has ready what is pending, in the candidate or, when
  the group leaves it alone (`Leaves`), in the durable root.
* `Over` and `Bell`: nothing but ABORTs is left of a round that is gone; READY excludes an active
  round and a waiting PROMOTE.

A job touches the entry of its own round only, and what it does there depends on few outcomes:
`Shape` states them, `CheckTries` to `PrepareTries` show that every handler keeps to it, and
the writer's lemmas use nothing else. The steps of the main thread have one frame,
`MainRounds`: it is enough to say what becomes of each round (`Ages`), that what is submitted
comes in its place (`Submitting`), that the authority `Continues`, `Withdraws` or `Renews`, and
that a round which ends has been closed (`Ending`). TLC checked `RoundsInvariant` on ReceiveFaults
and on an instance of ReceiveRounds with one block before it was proved.

### The replica

`UdbSyncProofs` proves, for any finite set of blocks, any stream of mutations and every bound
on retries, rounds and faults, from `SyncAssumption` (blocks are numbered, the stream starts
with a mutation, and 0 is not the number of a round):

* `SyncInvariantHolds`: `Spec => []SyncInvariant`;
* `RootsArePrefixes`: `Spec => []RootIsPrefix`;
* `SyncTypeCorrect`: `Spec => []SyncTypeOK`;
* `TailInvariantHolds`: `Spec => []TailInvariant`;
* `ReadyHoldsEverything`: `Spec => []ReadyHoldsAll`.

`RootIsPrefix` is not inductive: a promotion makes of the pending root whatever it finds
there, and that is one of the authority's roots only if all that was collected for it
belongs to one watermark. `Good` says so of the replica. `Masks`: what was announced is
what the blocks held at the watermark of the round, the blocks that count as durable are
in the pending root as announced, and once the promotion is asked for that is all of them.
`Line`: a job or a receipt of the round asks for what was announced (`Asked`), and a stage or
promotion job that can still commit is one of the active round, so that the rest of an
aborted round may come back at any time but changes no pending root of the next.
`Promoting`: nothing of a round comes after its promotion, in the queue or among the
receipts, so the pending root it commits is complete and the round is over when its
receipt is read. The last two are why the code abandons the owner *and* cancels its jobs
when it aborts: either alone would leave a job that commits for another round, or a
receipt that counts for it. The authority's part is small: every frame tells what its block
holds at its watermark (`Frames`), whichever round it belongs to, so the proof does not
depend on how rounds are numbered, and what arrives late is harmless because the receiver
compares the watermark.

Operators of the model take the node and return what it becomes, and the proof follows
them: one lemma for each (`AbortGood`, `BeginGood`, `PumpGood`, `ReceiptGood`...), from four on what may happen to the queues (`Less`, `Restarts`, `Takes`, `AddsJob`), then one step per action.
`Only` and `Completions` are recursive functions over the deliveries and the receipts. The
library's induction theorem takes a predicate and cannot be used; `Induction` is stated here
with a set of numbers in its place, from well-foundedness (`WFMin`), and carries them, the
order in which blocks are served (`Sorts`) and the contents of a block after n mutations.

`ReadyHoldsAll` says nothing of roots: it is about the deliveries. The code finds the delivery
of a receipt by its owner and job (`udb_mutation.c.inc:641`); the model, which has no numbers
of jobs, takes the first one that was submitted. So the invariant, `TailInvariant`, first says
that this is the same one. `Matched`: for some k the first k deliveries are the ones the writer has, one for one
with the first k of its receipts and jobs and of the same mutations, what belongs to rounds
comes only after them, and the rest is a tail that was never submitted. What k counts for
depends on the phase of the node. `Streaming`: once a round is promoted, and as long as the node is
READY, k is all of them, without a gap from `applied` on, and reaches `accepted`. `Importing`:
during a round the first k are abandoned, and the rest follows the snapshot's watermark without
a gap. To get from one to the other the promotion has to be the last that the
writer has (`Closing`); a node between promotion and READY still has a delivery to
wait for (`Settled`).

All this speaks of one node and would allow a snapshot that is older than what was accepted:
then the tail would begin too late. `Ordered` excludes it. It says of the link that an INF
covers every mutation that was relayed before it, those that the replica has accepted
included. It needs no numbers of rounds: an authority relays a mutation when it was durable, and
announces a snapshot at what is durable, over a link that keeps its order; a broken link
loses what was under way, and only brings the bounds apart. TLC checked `TailInvariant`
on an instance of SyncTail before it was proved.

### The page cache

`UdbCacheProofs` proves, for every finite set of readers and slots, any files, offsets
and cache sizes, from `CacheAssumption` alone:

* `CacheCorrect`: `Spec => []CacheInvariant`, and from it `PinsAreExact`, `BudgetHolds` and
  `CacheIsCoherent` for `PinsExact`, `WithinBudget` and `Coherent` (and `CacheTypeCorrect` for
  `CacheTypeOK`);
* `PinnedPagesStand`: `Spec => PinnedStable`.

`CacheInvariant` is the conjunction of what CachePages checks, and none of its parts is
inductive without the others: the pages that go when one comes are those without
pins, so nobody's page goes only because pins are counted exactly; what goes makes
room only because an unpinned page is charged to the cache and not to the auxiliary
class; a page that was missed is not there twice only because what is there is what is on
disk. The entries change in five ways (`EvictKeeps`, `AdmitKeeps`, `HitKeeps`,
`ReleaseKeeps`, `ForgetKeeps`), and the actions are put together from them. For
`PinnedStable` the argument is that no step but the release of its last reader frees or
rewrites a page that is not idle (`LastPin`).

### The operclass registry

`UdbOclProofs` proves, for every tree of servers, all finite inventories and any number of
events, from `OclAssumption` alone: `OclTypeCorrect`, `ViewsAreExact`, `RegistryFailsClosed` and
`DeadInstancesNeverCount` (`OclTypeOK`, `ViewExact`, `FailClosed`, `NoDeadInstance`).

The invariant `OclInvariant` says that there is a set K of publications, with one content
for each revision of an instance, and that all frames under way and all records of all
servers speak of K: an ITEM is a class of an inventory in K, and so whatever a stage has
got is part of what its BEGIN announced, although the code compares revisions and counts
only. K is not part of the state; it grows when a server publishes, with a revision that is
new because it is above all K has of that server. Besides, of each server: the origins
are reached by way of `Route` over links that are up, so that a valid frame about a neighbour
comes from the neighbour, and the test of BEGIN against the instance that greeted is
the one that counts; a SID tells a neighbour only of servers behind it; an inventory that
is being staged has replaced the current one; and the view is derived. Each handler
keeps this of its server (`HearOK`), and `StepPosted` puts servers and links together.

### What is not proved

Only model-checked: `RestIsCaughtUp` and `OneBlockInFlight` of UdbSync; UdbBlock with its
refinement; `RestAgrees` of UdbOcl; `Recoverable` of UdbJournal; and every liveness property
(liveness and ENABLED are out of the prover's reach). `RestIsCaughtUp` and `RestAgrees` are about states in
which nothing is left to happen: they are liveness in the form of an invariant, and their proof
would have to say of every phase of a round who is to move next. `OneBlockInFlight` counts blocks on the link by the number of
their round, and anti-entropy asks for rounds of one number only, so its second part holds
in SyncTail, where no check is asked for, and not for all constants. UdbBlock builds its
trees with folds, about which there are no lemmas yet. Of the journal, `Recoverable` holds only as long as faults of one kind happen (section 6), which is a
condition on runs and not on the constants.

## 5. Not modelled, and why

* The crash window of the first provisioning of a store: the directory is
  created once, by an operator's choice.
* A failing condition variable in the writer (`udb_storage_engine_wait`), and
  draining stops: no caller asks for one.
* `module_revision`: it is 1 for the life of an engine.
* In UdbReceive, mutations and shutdown (UdbWriter has them), and the replay tail
  (UdbSync has it): READY is restored there at the receipt of the promotion.
* In UdbSync, chains of more than two servers, the choice among several configured
  propagators, and the diagnostic status; another authority is one that holds the
  same stream under a numbering of its own. Local BIND: a node that becomes its own
  authority is not a replica any more. A replayed mutation whose job is refused aborts the
  round (`udb_native_receive.c.inc:436-440`), as refused stage jobs do (194-195, 326-327):
  UdbReceive has this of the stage jobs, and in UdbSync a deadline that passes too early
  has the same effect.
* In UdbOcl, the subscription of services to the derived view, U-lined servers and the
  limits on names and counts.
* The external sort, fragments, the pages of a run and the catalog: sequential code on
  private pages that UdbBlock takes for granted; the reclaimer's page maps.
* EXPIRE's comparison is an outcome in UdbJobs; the sweep that submits it is not
  modelled.
* Effects on clients, channels, addresses and bans, authentication, clone counting:
  what can go wrong there depends on the order in which the IRC daemon calls its
  hooks, and the daemon is not in this repository.
* Contents of rows, encodings and paths, configuration, queries: stateless, or a
  single decision on one input.

## 6. Findings

*A kill followed by a power loss can make the store unopenable* (`JournalMixed`).
`src/README.md:33` promises "Six-root durability through one global WAL and two
checkpoint slots." Recovery takes what it reads for durable. If a process is
killed between the write of a slot and its flush, the next process finds that
slot newest, adopts it, and its start-up checkpoint rewrites the *other* slot, the
only one that is durable. Power lost then may tear both. The store fails closed
(`NoLostAck` still holds), but what was acknowledged is out of reach. Flushing
what recovery adopts, before the start-up checkpoint, would close the window.

*A mutation a replica cannot take is lost in silence* (`SyncRefused`).
`src/doc/udb_technical_en.md:686` says that if persisting an in-order mutation fails the
node "marks sync health `DEGRADED` and initiates reconciliation pull, ensuring local storage
failures cannot cause silent network divergence." It does when the writer fails. When
`udb_native_mutation_ingress` has no memory (`udb_mutation.c.inc:343-346`, `430-435`), no
queue room (`446-447`) or the writer admits no job (`450-454`), the caller answers `ERR INS`
and that is all: the ERR starts nothing at the other end, and the replica stays READY and one
mutation behind, with neither a round nor a retry. The next mutation shows the gap
(`SyncTail`), and so does the next anti-entropy, 1800 s later by default (`SyncRecovers`).
A replica that is importing a snapshot then becomes READY without the mutation, as in the
trace. Asking for a round there, as the gaps do, would close the window.

Worth knowing, and by design: a stage that expires at a relay leaves the servers
behind it with the inventory before, until the origin publishes again (`RestAgrees`
excepts it); once the retries of a reconciliation ran out a replica waits for an
event from outside (`RestIsCaughtUp` and `Recovers` except it); a mutation that an authority
cannot write out or fit into a line is relayed to nobody and the authority stays READY
(`udb_mutation.c.inc:597-606`), which only a later mutation or anti-entropy makes good; a log that
ends in a whole page of garbage, as a power loss may leave it, is refused although the page
holds nothing that was acknowledged (`udb_storage_journal.c.inc:379-387`). Besides,
`src/doc/udb_technical_en.md:1009` says that an unavailable propagator "does **not** by itself
degrade a READY node", while `udb_propagator_policy_changed` (`udb_sync.c.inc:687-691`) withdraws
READY and sets DEGRADED whenever the selection changes to anything but the node itself, as the
loss of the link to the selected propagator makes it; the model follows the code (`Reselect`).

## 7. Plan

What is left, in this order:

1. `UdbReclaim`: page maps and fragments under the inventory of reusable extents.
2. A chain of three servers in UdbSync, in which the middle one relays and follows.
3. `UdbExpiry`: the expiry sweep against renewals.
4. Theorems on `RestIsCaughtUp` and `RestAgrees`, from invariants that name, for each phase, the
   step or the timer that is still to come.
