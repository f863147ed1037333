------------------------------- MODULE UdbSync -------------------------------
(* An authority and the replica that selected it.  The authority relays its     *)
(* mutations and offers snapshots of a pinned generation; the replica compares, *)
(* imports block by block, replays the mutations that came meanwhile and is     *)
(* READY when all of that is durable.  A frame is handled to its end, and so is *)
(* a turn of the completion event; the writer and the link run between them.    *)
(*                                                                             *)
(* A block is told by the last mutation that touched it, which also stands for  *)
(* its digest.  BEGIN, the PUTs and END of a block are one frame SNAP here, and *)
(* a job of the writer succeeds or fails at once: UdbReceive and UdbWriter have *)
(* the sessions and the groups.  ERRs of the replica change nothing at the      *)
(* authority and are not sent.                                                 *)
EXTENDS Naturals, Sequences, FiniteSets, SequencesExt

CONSTANTS
    Blocks,      \* a set of naturals: the order the sender serves them in
    Touch,       \* the block each mutation of the authority touches
    RetryMax,    \* UDB_RECONCILE_RETRY_MAX
    MaxOffer,    \* bound: rounds the authority numbers itself
    RequestId,   \* the number of the round a MANIFEST REQ asks for
    Budget       \* bound: how often each kind of fault happens

VARIABLES
    auth,        \* the authority: ready, committed and relayed mutations, its round
    node,        \* the replica: udb_reconcile, deliveries, the writer's queue, its root
    down, up,    \* the frames under way to the replica, and to the authority
    linked,      \* the SERVER link is up
    spent,       \* bound: faults so far
    missed       \* history: the mutations that the replica lost in silence

vars == <<auth, node, down, up, linked, spent, missed>>

\* A round has a number, and 0 stands for none.  The authority starts with a mutation.
ASSUME SyncAssumption ==
    /\ Blocks \subseteq Nat /\ Blocks # {} /\ IsFiniteSet(Blocks)
    /\ Touch \in Seq(Blocks) /\ Touch # <<>>
    /\ RetryMax \in Nat /\ RequestId \in Nat \ {0}

MaxSeq == Len(Touch)
LastOf(S) == CHOOSE n \in S : \A k \in S : k <= n
FirstOf(S) == CHOOSE n \in S : \A k \in S : n <= k

\* What the authority's block b holds after n mutations.
Content(b, n) == LastOf({0} \cup {k \in 1..n : Touch[k] = b})
Root(n) == [seq |-> n, blocks |-> [b \in Blocks |-> Content(b, n)]]

-----------------------------------------------------------------------------
(* The authority.                                                            *)

Snapshot(id, n) == [id |-> id, gen |-> n, requested |-> {}, sent |-> {}, acked |-> {}]
NoRound == Snapshot(0, 0)

Inf(id, n, b) == [m |-> "INF", id |-> id, b |-> b, w |-> n, d |-> Content(b, n)]
Snap(id, n, b) == [m |-> "SNAP", id |-> id, b |-> b, w |-> n, d |-> Content(b, n)]
Ascending(S) == {s \in [1 .. Cardinality(S) -> S] : \A i, j \in DOMAIN s : i < j => s[i] < s[j]}
Inventory(id, n) == LET order == CHOOSE s \in Ascending(Blocks) : TRUE
                    IN  [i \in 1 .. Cardinality(Blocks) |-> Inf(id, n, order[i])]
Err(id) == [m |-> "ERR", id |-> id]

\* A MANIFEST REQ is answered with an ACK before each INF, or with an ERR of its own.
ManifestAck(f) == [f EXCEPT !.m = "MANIFEST ACK"]
Manifest(id, n) ==
    LET infs == Inventory(id, n)
    IN  [i \in 1 .. 2 * Len(infs) |-> IF i % 2 = 1 THEN ManifestAck(infs[(i + 1) \div 2]) ELSE infs[i \div 2]]
ManifestErr == [m |-> "MANIFEST ERR"]

\* udb_native_sync_offer_round: the published generation is pinned, whatever round the
\* peer had is replaced, and all six INF go out.
Offer(a, id, n) == [a EXCEPT !.round = Snapshot(id, n)]

\* What the authority does with a frame, given what it becomes and what it sends.
Answers(a, frames) ==
    /\ up' = Tail(up) /\ auth' = a /\ down' = down \o frames
    /\ UNCHANGED <<node, linked, spent, missed>>

\* A HEL that selects this server: the explicit trigger of an offer.
HearHello ==
    /\ up # <<>> /\ Head(up).m = "HEL"
    /\ IF auth.ready /\ auth.next < MaxOffer
       THEN Answers([Offer(auth, auth.next + 1, auth.seq) EXCEPT !.next = @ + 1],
                    Inventory(auth.next + 1, auth.seq))
       ELSE ~auth.ready /\ Answers(auth, <<>>)

HearManifest ==
    /\ up # <<>> /\ Head(up).m = "MANIFEST"
    /\ IF auth.ready
       THEN Answers(Offer(auth, RequestId, auth.seq), Manifest(RequestId, auth.seq))
       ELSE Answers(auth, <<ManifestErr>>)

Serving(id) == auth.ready /\ id # 0 /\ auth.round.id = id

HearRes ==
    /\ up # <<>> /\ Head(up).m = "RES"
    /\ LET f == Head(up)
       IN  IF Serving(f.id) /\ f.b \notin auth.round.requested
           THEN Answers([auth EXCEPT !.round.requested = @ \cup {f.b}], <<>>)
           ELSE Answers(auth, <<Err(f.id)>>)

HearAck ==
    /\ up # <<>> /\ Head(up).m = "ACK"
    /\ LET f == Head(up)
       IN  IF /\ Serving(f.id) /\ f.b \in auth.round.sent \ auth.round.acked
              /\ f.w = auth.round.gen /\ f.d = Content(f.b, auth.round.gen)
           THEN Answers([auth EXCEPT !.round.acked = @ \cup {f.b}], <<>>)
           ELSE Answers(auth, <<>>)

\* Fault: the next block does not wait for the ACK of the last.
CreditAlways(r) == TRUE

\* END only queues the rebuild of the receiver: no next block before its ACK.
Credit(r) == r.sent \subseteq r.acked

Sendable == /\ auth.ready /\ auth.round.id # 0 /\ Credit(auth.round)
            /\ auth.round.requested \ auth.round.sent # {}

SendBlock ==
    /\ Sendable
    /\ LET b == FirstOf(auth.round.requested \ auth.round.sent)
       IN  /\ down' = Append(down, Snap(auth.round.id, auth.round.gen, b))
           /\ auth' = [auth EXCEPT !.round.sent = @ \cup {b}]
    /\ UNCHANGED <<node, up, linked, spent, missed>>

Spend(what) == spent[what] < Budget[what] /\ spent' = [spent EXCEPT ![what] = @ + 1]

\* A block cannot be read or written out: the peer is told and the round dropped.
SendFails ==
    /\ Sendable /\ Spend("fail")
    /\ down' = Append(down, Err(auth.round.id))
    /\ auth' = [auth EXCEPT !.round = NoRound]
    /\ UNCHANGED <<node, up, linked, missed>>

\* The pump drops what it may no longer serve, or what has been idle for too long.
DropRound ==
    /\ auth.round.id # 0 /\ (auth.ready /\ linked => Spend("timeout"))
    /\ (~(auth.ready /\ linked) => UNCHANGED spent)
    /\ auth' = [auth EXCEPT !.round = NoRound]
    /\ UNCHANGED <<node, down, up, linked, missed>>

\* A mutation is published before its receipt is handled, which relays it.
Mutate ==
    /\ auth.seq < MaxSeq
    /\ auth' = [auth EXCEPT !.seq = @ + 1]
    /\ UNCHANGED <<node, down, up, linked, spent, missed>>

Relay ==
    /\ auth.relayed < auth.seq
    /\ auth' = [auth EXCEPT !.relayed = @ + 1]
    /\ down' = IF linked THEN Append(down, [m |-> "INS", n |-> auth.relayed + 1]) ELSE down
    /\ UNCHANGED <<node, up, linked, spent, missed>>

\* No memory to relay: the frame is lost and the authority withdraws its own READY.
RelayFails ==
    /\ auth.relayed < auth.seq /\ Spend("fail")
    /\ auth' = [auth EXCEPT !.relayed = @ + 1, !.ready = FALSE]
    /\ UNCHANGED <<node, down, up, linked, missed>>

\* A row that cannot be written out, or a frame that fits no line: the mutation is relayed
\* to nobody, and the authority stays READY.
RelaySkips ==
    /\ auth.relayed < auth.seq /\ Spend("authority")
    /\ auth' = [auth EXCEPT !.relayed = @ + 1]
    /\ missed' = missed \cup {auth.relayed + 1}
    /\ UNCHANGED <<node, down, up, linked>>

\* The authority follows another one itself and loses it, or compares with it.
Unready ==
    /\ auth.ready /\ Spend("authority")
    /\ auth' = [auth EXCEPT !.ready = FALSE]
    /\ UNCHANGED <<node, down, up, linked, missed>>

\* Once it is READY again, its root may have moved with no mutation to relay, and it
\* offers the root to its downstreams.  An authority that follows no other binds a new
\* epoch then and counts from 0 again (udb_native_local_bind); here the stream goes on.
BecomeReady ==
    /\ ~auth.ready /\ auth.relayed = auth.seq
    /\ \E n \in auth.seq..MaxSeq :
          LET a == [auth EXCEPT !.ready = TRUE, !.seq = n, !.relayed = n]
          IN  IF linked
              THEN /\ auth.next < MaxOffer
                   /\ auth' = [Offer(a, a.next + 1, n) EXCEPT !.next = @ + 1]
                   /\ down' = down \o Inventory(a.next + 1, n)
              ELSE auth' = a /\ UNCHANGED down
    /\ UNCHANGED <<node, up, linked, spent, missed>>

-----------------------------------------------------------------------------
(* The replica: every operator below takes the node and gives what it becomes; *)
(* `out` collects the frames it sends.                                         *)

\* Of udb_anti_entropy: whether a request is pending, the watermark and the blocks
\* acknowledged.
Calm == [pending |-> FALSE, acked |-> {}, wm |-> 0]

Fresh == [ready |-> FALSE, active |-> 0, wm |-> 0,
          inv |-> {}, spec |-> [b \in Blocks |-> 0], pend |-> {}, durable |-> {}, promo |-> "no",
          retry |-> 0, armed |-> FALSE,
          dels |-> <<>>, jobs |-> <<>>, done |-> <<>>,
          root |-> Root(0), stage |-> [b \in Blocks |-> 0], applied |-> 0,
          ae |-> Calm, out |-> <<>>, accepted |-> 0, exhausted |-> FALSE]

Send(r, f) == [r EXCEPT !.out = Append(@, f)]
Hello == [m |-> "HEL"]

\* A job of the round: `mine` while the owner it was submitted for is not abandoned,
\* `live` while neither a cancel nor a revision of the authority withdrew it.
StageJob(r, kind, b) ==
    [k |-> kind, id |-> r.active, b |-> b, d |-> r.spec[b], n |-> r.wm, mine |-> TRUE, live |-> TRUE]
MutationJob(n) ==
    [k |-> "MUTATION", id |-> 0, b |-> Touch[n], d |-> n, n |-> n, mine |-> TRUE, live |-> TRUE]

Submit(r, j) == [r EXCEPT !.jobs = Append(@, j)]

OfRound(j) == j.k # "MUTATION"

\* The part of the list s that is in S, in its order.
Only(s, S) ==
    LET kept[i \in 0 .. Len(s)] == IF i = 0 THEN <<>>
                                  ELSE IF s[i] \in S THEN Append(kept[i - 1], s[i]) ELSE kept[i - 1]
    IN  kept[Len(s)]

\* Deliveries: the copied mutation, whether it is part of a replay, submitted, cancelled.
Waiting(r, replay) == Only(r.dels, {d \in Range(r.dels) : ~d.dead /\ d.replay = replay})

\* udb_native_mutation_abort of the deliveries `which`: what the writer has is cancelled,
\* the rest forgotten.
Withdraw(r, which) ==
    LET kept == Only(r.dels, {d \in Range(r.dels) : d.sub \/ d \notin which})
    IN  [r EXCEPT !.dels = [i \in DOMAIN kept |-> [kept[i] EXCEPT !.dead = @ \/ kept[i] \in which]],
                  !.jobs = [i \in DOMAIN @ |->
                               IF @[i].k = "MUTATION" /\ \E d \in which : d.sub /\ d.n = @[i].n
                               THEN [@[i] EXCEPT !.live = FALSE] ELSE @[i]]]

\* udb_storage_engine_authority: nothing submitted before commits any more.
Revoke(r) == [r EXCEPT !.jobs = [i \in DOMAIN @ |-> [@[i] EXCEPT !.live = FALSE]]]

RetriesLeft(r) == r.retry < RetryMax

\* Fault: a round that was aborted is not tried again.
NeverAgain(r) == r

\* Half of udb_reconcile_abort: the retry, until there have been too many.
Retry(r) ==
    IF RetriesLeft(r) THEN [r EXCEPT !.retry = @ + 1, !.armed = TRUE]
    ELSE [r EXCEPT !.retry = 0, !.armed = FALSE, !.exhausted = TRUE]

\* The jobs and receipts of an owner that is abandoned.
Forsaken(jobs) == [i \in DOMAIN jobs |-> [jobs[i] EXCEPT !.mine = @ /\ ~OfRound(jobs[i])]]
Withdrawn(jobs) == [i \in DOMAIN jobs |-> [jobs[i] EXCEPT !.live = @ /\ ~OfRound(jobs[i])]]

Idle(r) == [r EXCEPT !.active = 0, !.wm = 0, !.inv = {}, !.pend = {}, !.durable = {}, !.promo = "no"]

\* udb_reconcile_abort, which abandons the owner, its sessions and its replay tail.
Abort(r, again) ==
    LET s == Withdraw(r, {d \in Range(r.dels) : d.replay})
        t == [s EXCEPT !.jobs = Withdrawn(Forsaken(@)), !.done = Forsaken(@)]
    IN  Idle(IF again THEN Retry(t) ELSE [t EXCEPT !.retry = 0, !.armed = FALSE])

AbortActive(r) == IF r.active = 0 THEN r ELSE Abort(r, TRUE)

\* Fault: a gap is noted and nobody is asked.
GapQuietly(r) == [r EXCEPT !.ready = FALSE]

\* udb_mutation_trigger_gap_recovery
Gap(r) == Send([r EXCEPT !.ready = FALSE, !.armed = TRUE], Hello)

-----------------------------------------------------------------------------
(* Mutations at the replica.                                                  *)

\* udb_native_mutation_replay, all that is bound to the round.  That a job is refused, which
\* aborts the round, is in UdbReceive; here a Timeout has the same effect.
Replay(r) ==
    LET fresh == Only(r.dels, {d \in Range(r.dels) : d.replay /\ ~d.sub /\ ~d.dead})
    IN  [r EXCEPT !.jobs = @ \o [i \in DOMAIN fresh |-> MutationJob(fresh[i].n)],
                  !.dels = [i \in DOMAIN @ |-> IF @[i].replay THEN [@[i] EXCEPT !.sub = TRUE] ELSE @[i]]]

\* Fault: READY does not wait for the tail.
PumpEarly(r) ==
    IF r.active = 0 \/ r.promo # "done" THEN r
    ELSE [Idle(Replay(r)) EXCEPT !.ready = TRUE, !.retry = 0, !.armed = FALSE]

\* udb_native_receive_replay_pump: READY once the tail is durable.
Pump(r) ==
    IF r.active = 0 \/ r.promo # "done" THEN r
    ELSE LET s == Replay(r)
         IN  IF Waiting(s, TRUE) # <<>> THEN s
             ELSE [Idle(s) EXCEPT !.ready = TRUE, !.retry = 0, !.armed = FALSE]

\* udb_native_mutation_ingress
Ingress(r, n) ==
    LET replay == r.active # 0 \/ ~r.ready
        floor == IF ~replay THEN r.applied ELSE IF r.active # 0 THEN r.wm ELSE n - 1
        queue == Waiting(r, replay)
        expected == IF queue = <<>> THEN floor ELSE queue[Len(queue)].n
        item == [n |-> n, replay |-> replay, sub |-> ~replay, dead |-> FALSE]
        kept == [r EXCEPT !.dels = Append(@, item), !.accepted = n]
    IN  IF n <= floor THEN r
        ELSE IF n # expected + 1 THEN Gap(r)
        ELSE IF ~replay THEN Submit(kept, MutationJob(n))
        ELSE Pump(kept)

\* udb_native_mutation_round_begin and udb_reconcile_begin: of what was under way only
\* the provisional tail survives.
Begin(r, id) ==
    LET s == Withdraw(Revoke(r), {d \in Range(r.dels) : d.sub \/ ~d.replay})
    IN  [Idle(s) EXCEPT !.active = id, !.ready = FALSE, !.armed = FALSE]

\* udb_native_mutation_bind: what the snapshot covers leaves the tail ...
Bind(r) ==
    [r EXCEPT !.dels = Only(@, {d \in Range(r.dels) : ~(d.replay /\ ~d.dead /\ ~d.sub /\ d.n <= r.wm)})]

\* ... and the rest must follow it without a hole.
Bound(r) == LET tail == Waiting(r, TRUE) IN \A i \in DOMAIN tail : tail[i].n = r.wm + i

-----------------------------------------------------------------------------
(* Rounds at the replica.                                                     *)

Full(mask) == mask = Blocks

\* udb_native_receive_promote
Check(r) ==
    IF Full(r.inv) /\ Full(r.durable) /\ r.promo = "no" /\ r.pend = {} /\ r.active # 0
    THEN [Submit(r, StageJob(r, "PROMOTE", FirstOf(Blocks))) EXCEPT !.promo = "asked"]
    ELSE r

\* The block is compared with the published root.
Compare(r, f) ==
    LET s == [r EXCEPT !.inv = @ \cup {f.b}, !.spec[f.b] = f.d]
    IN  IF s.root.blocks[f.b] = f.d
        THEN Check(Submit(s, StageJob(s, "REUSE", f.b)))
        ELSE Send([s EXCEPT !.pend = @ \cup {f.b}], [m |-> "RES", id |-> f.id, b |-> f.b])

\* udb_native_receive_inf and what the handler does with its errors: a second abort
\* when the first came from within.
HearInf(r, f) ==
    IF r.active # 0 /\ f.id < r.active THEN Abort(r, TRUE)
    ELSE LET begins == r.active # f.id
             over == IF begins /\ r.active # 0 THEN Abort(r, FALSE) ELSE r
             s == IF begins THEN [Begin(over, f.id) EXCEPT !.wm = f.w] ELSE r
             t == Bind(s)
         IN  IF s.wm # f.w THEN Abort(Abort(s, TRUE), TRUE)
             ELSE IF ~Bound(t) \/ f.b \in s.inv THEN Abort(t, TRUE)
             ELSE Compare(t, f)

\* The whole block: refused without an effect unless it was asked for as announced.
HearSnap(r, f) ==
    IF r.active = f.id /\ f.b \in r.pend /\ f.w = r.wm /\ f.d = r.spec[f.b]
    THEN Submit(r, StageJob(r, "END", f.b)) ELSE r

HearErr(r, f) == IF r.active = f.id THEN Abort(r, TRUE) ELSE r

\* udb_anti_entropy_record_ack: diagnostic, but for an ACK that contradicts another.
HearManifestAck(r, f) ==
    LET acked == r.ae.acked \cup {f.b}
    IN  IF ~r.ae.pending \/ f.b \in r.ae.acked THEN r
        ELSE IF r.ae.acked # {} /\ r.ae.wm # f.w THEN Abort([r EXCEPT !.ae = Calm], TRUE)
        ELSE [r EXCEPT !.ae = IF Full(acked) THEN Calm ELSE [pending |-> TRUE, acked |-> acked, wm |-> f.w]]

Hear(r, f) ==
    CASE f.m = "INF" -> HearInf(r, f)
      [] f.m = "SNAP" -> HearSnap(r, f)
      [] f.m = "ERR" -> HearErr(r, f)
      [] f.m = "INS" -> Ingress(r, f.n)
      [] f.m = "MANIFEST ACK" -> HearManifestAck(r, f)
      [] f.m = "MANIFEST ERR" -> [r EXCEPT !.ae = Calm]

-----------------------------------------------------------------------------
(* Receipts.                                                                  *)

Submitted(r) == {k \in DOMAIN r.dels : r.dels[k].sub}
DropFirstSubmitted(r) == [r EXCEPT !.dels = RemoveAt(@, FirstOf(Submitted(r)))]

\* udb_native_mutation_complete.  It finds the delivery by its owner and job, and that is the
\* first one submitted: the writer keeps the order of its jobs.
MutationReceipt(r, j) ==
    LET d == r.dels[FirstOf(Submitted(r))]
        s == IF j.ok THEN [r EXCEPT !.applied = j.n] ELSE r
        broken == Gap(AbortActive(Withdraw([s EXCEPT !.ready = FALSE], Range(s.dels))))
    IN  IF Submitted(r) = {} THEN r
        ELSE DropFirstSubmitted(IF (j.ok /\ d.dead) \/ (~j.ok /\ ~d.dead) THEN broken ELSE s)

\* Fault: a promotion of an abandoned round passes for one of the active round.
PromotionLoose(r, j) == Pump([r EXCEPT !.applied = j.n, !.promo = "done"])

\* A promotion is durable whatever became of its round: it is applied in its order, but
\* only the round it belongs to may go on to READY.  The round it aborts is told by
\* its number alone.
PromotionReceipt(r, j) ==
    LET s == [r EXCEPT !.applied = j.n]
    IN  IF j.mine THEN Pump([s EXCEPT !.promo = "done"])
        ELSE LET t == [s EXCEPT !.ready = FALSE]
             IN  IF t.active # 0 /\ t.active = j.id THEN Abort(t, TRUE) ELSE t

\* udb_native_receive_complete
RoundReceipt(r, j) ==
    IF j.k = "PROMOTE" /\ j.ok THEN PromotionReceipt(r, j)
    ELSE IF ~j.mine THEN r
    ELSE IF ~j.ok THEN Abort(r, TRUE)
    ELSE LET s == [r EXCEPT !.durable = @ \cup {j.b}, !.pend = @ \ {j.b}]
         IN  Check(IF j.k = "REUSE" THEN s
                   ELSE Send(s, [m |-> "ACK", id |-> j.id, b |-> j.b, w |-> j.n, d |-> j.d]))

Receipt(r) ==
    LET j == Head(r.done)
        s == [r EXCEPT !.done = Tail(@)]
    IN  IF r.done = <<>> THEN r
        ELSE IF OfRound(j) THEN RoundReceipt(s, j) ELSE MutationReceipt(s, j)

\* The receipts that are there, each with all it entails, and then the tail.
Completions(r) ==
    LET after[i \in 0 .. Len(r.done)] == IF i = 0 THEN r ELSE Receipt(after[i - 1])
    IN  Pump(after[Len(r.done)])

-----------------------------------------------------------------------------
(* Steps of the replica.                                                      *)

\* The node becomes r, and what it sends goes out.  (The singleton has TLC compute r once.)
Becomes(r) ==
    \E q \in {r} :
        /\ node' = [q EXCEPT !.out = <<>>]
        /\ up' = IF linked THEN up \o q.out ELSE up

Receive ==
    /\ down # <<>> /\ down' = Tail(down)
    /\ Becomes(Hear(node, Head(down)))
    /\ UNCHANGED <<auth, linked, spent, missed>>

\* udb_native_mutation_ingress without memory for the mutation, for its delivery or for
\* the writer's job, or at the limit of deliveries: the mutation is gone, and READY,
\* the round and the timers stay as they are.
Refuse ==
    /\ down # <<>> /\ Head(down).m = "INS" /\ Spend("fail")
    /\ down' = Tail(down)
    /\ missed' = missed \cup {Head(down).n}
    /\ UNCHANGED <<auth, node, up, linked>>

Tick ==
    /\ node.done # <<>>
    /\ Becomes(Completions(node))
    /\ UNCHANGED <<auth, down, linked, spent, missed>>

\* What job j makes of the root and of the pending roots, if it succeeds.
Succeeds(r, j) ==
    CASE j.k = "MUTATION" -> j.n = r.root.seq + 1
      [] j.k = "REUSE" -> r.root.blocks[j.b] = j.d
      [] OTHER -> TRUE

Executed(r, j) ==
    CASE j.k = "MUTATION" -> [r EXCEPT !.root = [seq |-> j.n, blocks |-> [@.blocks EXCEPT ![j.b] = j.n]]]
      [] j.k = "PROMOTE" -> [r EXCEPT !.root = [seq |-> j.n, blocks |-> r.stage]]
      [] OTHER -> [r EXCEPT !.stage[j.b] = j.d]

Receipted(j, ok) == [k |-> j.k, id |-> j.id, b |-> j.b, d |-> j.d, n |-> j.n, mine |-> j.mine, ok |-> ok]

\* The writer takes the next job; one that was withdrawn commits nothing.
Write ==
    /\ node.jobs # <<>>
    /\ LET j == Head(node.jobs)
           ok == j.live /\ Succeeds(node, j)
           r == IF ok THEN Executed(node, j) ELSE node
       IN  node' = [r EXCEPT !.jobs = Tail(@), !.done = Append(@, Receipted(j, ok))]
    /\ UNCHANGED <<auth, down, up, linked, spent, missed>>

\* No memory, no disk, or a row that a validator refuses.
WriteFails ==
    /\ node.jobs # <<>> /\ Head(node.jobs).live /\ Spend("fail")
    /\ node' = [node EXCEPT !.jobs = Tail(@), !.done = Append(@, Receipted(Head(node.jobs), FALSE))]
    /\ UNCHANGED <<auth, down, up, linked, missed>>

\* Nothing moves: only a deadline can.
Quiet == up = <<>> /\ down = <<>> /\ node.jobs = <<>> /\ node.done = <<>> /\ ~Sendable

\* A deadline passes for want of news, or although there would have been some.
Expired == IF Quiet THEN UNCHANGED spent ELSE Spend("timeout")

Timeout ==
    /\ node.active # 0
    /\ Expired
    /\ Becomes(Abort(node, TRUE))
    /\ UNCHANGED <<auth, down, linked, missed>>

\* The retry of udb_sync_timeout_event: with no authority to ask it lapses.
RetryDue ==
    /\ node.active = 0 /\ node.armed
    /\ Expired
    /\ Becomes(IF ~linked THEN [node EXCEPT !.armed = FALSE]
               ELSE IF RetriesLeft(node) THEN Send([node EXCEPT !.retry = @ + 1], Hello)
               ELSE Send([node EXCEPT !.armed = FALSE], Hello))
    /\ UNCHANGED <<auth, down, linked, missed>>

\* Nothing is left to happen but what a timer starts of itself.
AtRest == Quiet /\ linked /\ auth.ready /\ auth.relayed = auth.seq /\ node.active = 0 /\ ~node.armed

\* Anti-entropy of a healthy node, each time its interval is over: at rest as often as
\* time passes, elsewhere as often as the bound allows.
Verify ==
    /\ node.ready /\ linked /\ ~node.ae.pending /\ node.active = 0 /\ node.pend = {}
    /\ Budget["verify"] > 0
    /\ IF AtRest THEN UNCHANGED spent ELSE Spend("verify")
    /\ Becomes(Send([node EXCEPT !.ae.pending = TRUE], [m |-> "MANIFEST"]))
    /\ UNCHANGED <<auth, down, linked, missed>>

\* The answer is overdue: another request may follow.
VerifyExpires ==
    /\ node.ready /\ linked /\ node.ae.pending
    /\ Expired
    /\ Becomes([node EXCEPT !.ae = Calm])
    /\ UNCHANGED <<auth, down, linked, missed>>

\* udb_propagator_policy_changed with another selection, after udb_sync_server_quit.
Reselect(r) == [AbortActive(Withdraw(Revoke(r), Range(r.dels))) EXCEPT !.ready = FALSE]

LinkBreaks ==
    /\ linked /\ Spend("break")
    /\ linked' = FALSE /\ up' = <<>> /\ down' = <<>>
    /\ node' = [Reselect(node) EXCEPT !.ae = Calm]
    /\ auth' = [auth EXCEPT !.round = NoRound]
    /\ UNCHANGED missed

\* The link is back, or another server that holds the same stream takes over, and
\* with it a numbering of its own.  The handshake ends in a HEL that selects it.
LinkReturns ==
    /\ ~linked /\ linked' = TRUE
    /\ up' = <<Hello>>
    /\ node' = Reselect(node)
    /\ \E next \in {0, auth.next} : auth' = [auth EXCEPT !.next = next]
    /\ UNCHANGED <<down, spent, missed>>

-----------------------------------------------------------------------------
(* Properties.                                                                *)

Jobs == [k : {"MUTATION", "REUSE", "END", "PROMOTE"}, id : Nat, b : Blocks, d : 0..MaxSeq,
         n : 0..MaxSeq, mine : BOOLEAN, live : BOOLEAN]
Receipts == [k : {"MUTATION", "REUSE", "END", "PROMOTE"}, id : Nat, b : Blocks, d : 0..MaxSeq,
             n : 0..MaxSeq, mine : BOOLEAN, ok : BOOLEAN]
Deliveries == [n : 1..MaxSeq, replay : BOOLEAN, sub : BOOLEAN, dead : BOOLEAN]

SyncTypeOK ==
    /\ auth.seq \in 0..MaxSeq /\ auth.relayed \in 0..auth.seq
    /\ auth.round.acked \subseteq auth.round.sent /\ auth.round.sent \subseteq auth.round.requested
    /\ node.durable \subseteq node.inv /\ node.pend \subseteq node.inv /\ node.inv \subseteq Blocks
    /\ node.retry \in 0..RetryMax /\ node.ae.acked \subseteq Blocks /\ (node.ae.acked # {} => node.ae.pending)
    /\ node.promo \in {"no", "asked", "done"}
    /\ node.jobs \in Seq(Jobs) /\ node.done \in Seq(Receipts) /\ node.dels \in Seq(Deliveries)

\* Whatever is lost, late, cancelled or aborted, the replica's durable root is one
\* the authority had: no mutation is missing under a later one, and no snapshot mixes
\* two generations.
RootIsPrefix == node.root = Root(node.root.seq)

\* A replica that calls itself READY has, or has at the writer in its place, every
\* mutation it accepted: none fell between the snapshot and its tail.
ReadyHoldsAll ==
    node.ready =>
        /\ Waiting(node, TRUE) = <<>>
        /\ LET live == Waiting(node, FALSE)
           IN  node.accepted <= node.applied + Len(live)

\* When nothing is left to happen, the replica is READY on all the authority has: no
\* abort, gap or broken link leaves it behind with neither a round nor a retry, unless the
\* retries ran out.  What it may lack is a run of the latest mutations that were all lost
\* in silence: the first one to arrive after them shows the gap.
LackedAtMost(lost) == node.ready /\ node.root.seq + 1 .. auth.seq \subseteq lost
RestIsCaughtUp == AtRest => node.exhausted \/ LackedAtMost(missed)

\* doc/udb_technical_en.md:686: that a mutation cannot be persisted makes the node DEGRADED
\* and starts a round, so that storage failures "cannot cause silent network divergence".
\* udb_native_mutation_ingress answers with an ERR and goes on READY.
NoSilentDivergence == AtRest /\ node.ready => node.root = Root(auth.seq)

\* The sender has at most one block of a round under way or unacknowledged.
OneBlockInFlight ==
    /\ Cardinality(auth.round.sent \ auth.round.acked) <= 1
    /\ Cardinality({i \in DOMAIN down : down[i].m = "SNAP" /\ down[i].id = auth.round.id}) <= 1

-----------------------------------------------------------------------------
Init ==
    /\ auth = [ready |-> TRUE, seq |-> 1, relayed |-> 1, next |-> 0, round |-> NoRound]
    /\ node = Fresh
    /\ down = <<>> /\ up = <<Hello>> /\ linked = TRUE
    /\ spent = [w \in DOMAIN Budget |-> 0] /\ missed = {}

Hearing == HearHello \/ HearManifest \/ HearRes \/ HearAck

Next ==
    \/ HearHello \/ HearManifest \/ HearRes \/ HearAck
    \/ SendBlock \/ SendFails \/ DropRound
    \/ Mutate \/ Relay \/ RelayFails \/ RelaySkips \/ Unready \/ BecomeReady
    \/ Receive \/ Refuse \/ Tick \/ Write \/ WriteFails
    \/ Timeout \/ RetryDue \/ Verify \/ VerifyExpires
    \/ LinkBreaks \/ LinkReturns

Spec == Init /\ [][Next]_vars

\* What is under way goes on: frames are handled, the writer and the events run, a
\* deadline passes when nothing else can, the next anti-entropy is due at the latest when
\* all is at rest, a broken link returns and an authority becomes READY again.  Faults
\* need not happen, nor mutations.
Progress ==
    \/ Hearing \/ SendBlock \/ Relay \/ BecomeReady \/ Receive \/ Tick \/ Write
    \/ Quiet /\ (Timeout \/ RetryDue \/ VerifyExpires)
    \/ AtRest /\ Verify
    \/ LinkReturns

FairSpec == Spec /\ WF_vars(Progress)

\* Once the faults are over the replica holds all the authority has, for good, and is
\* READY on it but for the rounds of anti-entropy, unless the retries ran out: also what
\* was lost in silence is found.
Recovers ==
    /\ <>[](node.exhausted \/ node.root = Root(auth.seq))
    /\ []<>(node.exhausted \/ node.ready)
=============================================================================
