------------------------------ MODULE UdbReceive ------------------------------
(* The receiving side of a reconciliation: the main thread turns the           *)
(* inventory (INF) and the snapshot (BEGIN, PUT, END) of the authority into     *)
(* jobs of the writer, acknowledges a block when its pending root is durable,   *)
(* promotes when all are, and gives an abandoned round back to the writer with  *)
(* an ABORT it retries until the durable pending roots are gone.                *)
(*                                                                             *)
(* The peer follows the protocol; its frames may be lost or late.  An owner is  *)
(* one attempt at a round of the wire: an INF that comes after an abort opens   *)
(* another.  The ledger's history `revoked` is kept by UdbWriter's own runs.    *)
EXTENDS UdbWriter

CONSTANTS
    Announced,   \* per round of the wire, what the authority announces: src, seq, and
                 \* per block the number of rows and the digest
    OwnerLimit,  \* rounds the receiver keeps at a time (8 in the code)
    MaxWithdraw  \* bound: changes of policy, instance or link

(* What a head (UdbStorageStageHead) and a controller (UdbStorageStageOwner) may be. *)
Promised == {Announced[w].blocks[b].digest : w \in DOMAIN Announced, b \in Blocks}
Counts == {Announced[w].blocks[b].count : w \in DOMAIN Announced, b \in Blocks}
Lineages == {Lineage(Announced[w]) : w \in DOMAIN Announced}

\* Functions on some of the blocks.
Partly(S) == UNION {[B -> S] : B \in SUBSET Blocks}

Heads == [lineage : Lineages, roots : Partly(Promised)]
Specs == [count : Counts, digest : Promised]
Controllers == [lineage : Lineages, spec : Partly(Specs),
                rows : Partly(Nat), sealed : SUBSET Blocks, ready : SUBSET Blocks, failed : BOOLEAN]

\* A run has finitely many attempts at a round, numbered as they open; 0 is the number of
\* no round of the wire, and NoStage is neither a head nor a controller.
ASSUME ReceiveAssumption ==
    /\ IsFiniteSet(Owners) /\ Owners \subseteq Nat
    /\ 0 \notin DOMAIN Announced /\ NoStage \notin Heads \cup Controllers

VARIABLES
    rounds,     \* udb_native_receive_rounds, per owner
    reconcile,  \* udb_reconcile: the round of the wire that is active, or 0
    ready,      \* udb_ready
    view,       \* authority_sid, epoch and last_applied_seq: the lineage served
    tick,       \* the completion event is running
    withdrawn

receive == <<rounds, reconcile, ready, view, tick, withdrawn>>
allVars == <<vars, receive>>

-----------------------------------------------------------------------------
(* Progress of a block in a round: "none", "reuse" (equal, REUSE submitted),   *)
(* "res" (RES sent), "put" (session open), "end" (END submitted), "durable".    *)
Unborn == [phase |-> "unborn", wire |-> 0, rev |-> 0, step |-> [b \in Blocks |-> "none"],
           puts |-> [b \in Blocks |-> 0], promote |-> NoJob, abort |-> NoJob]

ReceiveInit ==
    /\ Init
    /\ rounds = [o \in Owners |-> Unborn]
    /\ reconcile = 0 /\ ready = FALSE /\ view = Lineage(EmptyRoot)
    /\ tick = FALSE /\ withdrawn = 0

Req(kind, o, w, b) ==
    [kind |-> kind, owner |-> o, block |-> b, src |-> Announced[w].src, seq |-> Announced[w].seq,
     count |-> Announced[w].blocks[b].count, digest |-> Announced[w].blocks[b].digest]

SomeBlock == CHOOSE b \in Blocks : TRUE

\* udb_native_receive_peer: the round still speaks for the selected authority.
Live(o) ==
    /\ rounds[o].phase = "live" /\ reconcile = rounds[o].wire
    /\ rounds[o].rev = authority /\ ~failed /\ ~stopping

\* udb_storage_engine_submit accepts a job prepared under revision rev.
Submittable(rev) == Admitting /\ rev = authority /\ queue + 1 <= QueueLimit

\* Fault: the charge of a job is forgotten.
SubmitFree(r, rev) ==
    /\ job' = Append(job, NewJob(r, rev))
    /\ pending' = Append(pending, Len(job) + 1)
    /\ UNCHANGED queue

Submit(r, rev) ==
    /\ job' = Append(job, NewJob(r, rev))
    /\ pending' = Append(pending, Len(job) + 1)
    /\ queue' = queue + 1

\* The owners of the active round; there may be one the revision left behind.
Active(o) == rounds[o].phase = "live" /\ rounds[o].wire = reconcile

ActiveJobs == {id \in Withdrawable : Active(job[id].req.owner)}

Abandoned == [o \in Owners |-> IF Active(o) THEN [rounds[o] EXCEPT !.phase = "abandoned"] ELSE rounds[o]]

\* udb_reconcile_abort: the active round is abandoned and its jobs cancelled.
GiveUp ==
    /\ job' = Cancelled(ActiveJobs)
    /\ rounds' = Abandoned
    /\ reconcile' = 0

-----------------------------------------------------------------------------
(* Frames of the authority.                                                   *)

Equal(w, b) == generations[current].root.blocks[b] = Announced[w].blocks[b].digest

\* An INF within the active round: compare with the published block.
Inf(o, b) ==
    /\ ~tick /\ Live(o) /\ rounds[o].step[b] = "none"
    /\ IF ~Equal(rounds[o].wire, b)
       THEN /\ rounds' = [rounds EXCEPT ![o].step[b] = "res"]
            /\ UNCHANGED <<job, pending, queue, reconcile>>
       ELSE IF Submittable(rounds[o].rev)
       THEN /\ Submit(Req("REUSE", o, rounds[o].wire, b), rounds[o].rev)
            /\ rounds' = [rounds EXCEPT ![o].step[b] = "reuse"]
            /\ UNCHANGED reconcile
       ELSE GiveUp /\ UNCHANGED <<pending, queue>>
    /\ UNCHANGED <<pc, writer, completed, detached, pins, buffered, envelopes, delivery, authority,
                   flags, revoked, polled, ready, view, tick, withdrawn>>

Kept == {o \in Owners : rounds[o].phase \in {"live", "abandoned"}}

\* udb_reconcile_begin takes READY back.
StillReady(begins) == ready /\ ~begins

\* The first INF of owner o, for round w of the wire.  If w is not the active round it
\* ends the one that is, and withdraws the authority of everything submitted and READY
\* with it; if it is, the revision moved and left its owner behind.  Then the block is
\* compared; what fails here gives the round up at once.
FirstInf(o, w, b) ==
    /\ ~tick /\ rounds[o].phase = "unborn" /\ \A p \in Owners : p < o => rounds[p].phase # "unborn"
    /\ w >= reconcile /\ \A p \in Owners : ~Live(p) \/ rounds[p].wire # w
    /\ LET begins == w # reconcile
           jobs == IF begins THEN Cancelled(ActiveJobs) ELSE job
           others == IF begins THEN Abandoned ELSE rounds
           rev == IF begins THEN authority + 1 ELSE authority
           born == [Unborn EXCEPT !.phase = "live", !.wire = w, !.rev = rev,
                                  !.step[b] = IF Equal(w, b) THEN "reuse" ELSE "res"]
           keeps == Cardinality(Kept) < OwnerLimit
           submits == Equal(w, b) /\ Admitting /\ queue + 1 <= QueueLimit
           accepted == keeps /\ ~failed /\ ~stopping /\ (Equal(w, b) => submits)
       IN  /\ IF accepted
              THEN rounds' = [others EXCEPT ![o] = born] /\ reconcile' = w
              ELSE /\ rounds' = [p \in Owners |->
                          IF p = o THEN [born EXCEPT !.phase = IF keeps THEN "abandoned" ELSE "gone"]
                          ELSE Abandoned[p]]
                   /\ reconcile' = 0
           /\ IF accepted /\ submits
              THEN /\ job' = Append(jobs, NewJob(Req("REUSE", o, w, b), rev))
                   /\ pending' = Append(pending, Len(job) + 1) /\ queue' = queue + 1
              ELSE /\ job' = IF accepted THEN jobs ELSE Cancelled(ActiveJobs)
                   /\ UNCHANGED <<pending, queue>>
           /\ authority' = rev
           /\ ready' = StillReady(begins)
    /\ UNCHANGED <<pc, writer, completed, detached, pins, buffered, envelopes, delivery, flags,
                   revoked, polled, view, tick, withdrawn>>

\* A frame that asks the writer for something; refused admission is an ERR to the
\* peer and leaves the round as it was.
Frame(o, b, r, from, next) ==
    /\ ~tick /\ Live(o) /\ rounds[o].step[b] = from
    /\ Submittable(rounds[o].rev)
    /\ Submit(r, rounds[o].rev)
    /\ rounds' = [rounds EXCEPT ![o] = next]
    /\ UNCHANGED <<pc, writer, completed, detached, pins, buffered, envelopes, delivery, authority,
                   flags, revoked, polled, reconcile, ready, view, tick, withdrawn>>

BeginBlock(o, b) ==
    Frame(o, b, Req("BEGIN", o, rounds[o].wire, b), "res", [rounds[o] EXCEPT !.step[b] = "put"])

PutRow(o, b) ==
    /\ Live(o) /\ rounds[o].puts[b] < Announced[rounds[o].wire].blocks[b].count
    /\ Frame(o, b, Req("PUT", o, rounds[o].wire, b), "put", [rounds[o] EXCEPT !.puts[b] = @ + 1])

EndBlock(o, b) ==
    /\ Live(o) /\ rounds[o].puts[b] = Announced[rounds[o].wire].blocks[b].count
    /\ Frame(o, b, Req("END", o, rounds[o].wire, b), "put", [rounds[o] EXCEPT !.step[b] = "end"])

-----------------------------------------------------------------------------
(* Ends of a round.                                                           *)

\* A deadline of the inventory, of a RES or of a session; an ERR of the peer.
Timeout ==
    /\ ~tick /\ reconcile # 0
    /\ GiveUp
    /\ UNCHANGED <<pc, pending, writer, completed, detached, pins, room, authority, flags, revoked,
                   polled, ready, view, tick, withdrawn>>

\* Another policy, another instance of a peer, a lost link: the revision moves, and
\* the active round ends unless the change was none of its own.
Withdraw ==
    /\ ~tick /\ withdrawn < MaxWithdraw
    /\ withdrawn' = withdrawn + 1
    /\ authority' = authority + 1
    /\ ready' \in {ready, FALSE}
    /\ \/ reconcile # 0 /\ GiveUp
       \/ UNCHANGED <<rounds, reconcile, job>>
    /\ UNCHANGED <<pc, pending, writer, completed, detached, pins, room, flags, revoked, polled, view,
                   tick>>

-----------------------------------------------------------------------------
(* The completion event.                                                      *)

\* Abandoned rounds with no ABORT under way.
Asking == {o \in Owners : rounds[o].phase = "abandoned" /\ rounds[o].abort = NoJob}

\* It runs every so often; a run with nothing to do is a stutter.
TickBegin ==
    /\ ~tick /\ tick' = TRUE
    /\ \/ completed # <<>>
       \/ ~Admitting /\ (ready \/ reconcile # 0)
       \/ Asking # {}
    /\ UNCHANGED <<vars, rounds, reconcile, ready, view, withdrawn>>

Done(o) == [rounds EXCEPT ![o].phase = "gone"]

\* The next receipt is polled, handled and freed.
Receipt(id, o) ==
    /\ tick /\ completed # <<>> /\ id = Head(completed) /\ o = job[id].req.owner
    /\ completed' = Tail(completed) /\ polled' = Reported(id)
    /\ generations' = DropAll(generations, Receipts(id))
    /\ UNCHANGED <<pc, writer, detached, current, readers, buffered, envelopes, delivery, authority,
                   flags, revoked, tick, withdrawn>>

Quiet == UNCHANGED <<job, pending, reconcile, ready, view>> /\ queue' = queue - 1

\* Fault: any answer ends the round.
Answers(id) == job[id].result # "none"

AbortTook(id) == job[id].result \in {"OK", "STAGED"}

\* Fault: an ABORT that was turned away is not asked for again.
NoRetry(o) == rounds

Retry(o) == [rounds EXCEPT ![o].abort = NoJob]

\* An ABORT took: the round is over.  It did not: it is submitted again.
AbortReceipt(id, o) ==
    /\ Receipt(id, o) /\ job[id].req.kind = "ABORT"
    /\ rounds' = IF rounds[o].phase = "abandoned" /\ rounds[o].abort = id
                 THEN IF AbortTook(id) THEN Done(o) ELSE Retry(o)
                 ELSE rounds
    /\ Quiet

\* Fault: what was prepared is taken for durable although its group was turned away.
Prepared(id) == job[id].result # "STAGED"

\* A durable receipt, and not a result that promises nothing.
Durably(id) == job[id].result = "OK"

\* A durable promotion is published even if its round has since vanished; only a live
\* one restores READY.
PromoteReceipt(id, o) ==
    /\ Receipt(id, o) /\ job[id].req.kind = "PROMOTE" /\ job[id].result = "OK"
    /\ rounds[o].promote = id
    /\ view' = Lineage(job[id].after)
    /\ IF Live(o)
       THEN rounds' = Done(o) /\ reconcile' = 0 /\ ready' = TRUE /\ UNCHANGED job
       ELSE /\ ready' = FALSE
            /\ IF reconcile = rounds[o].wire
               THEN GiveUp
               ELSE /\ rounds' = [rounds EXCEPT ![o].phase = "abandoned"]
                    /\ UNCHANGED <<job, reconcile>>
    /\ queue' = queue - 1
    /\ UNCHANGED pending

\* A late receipt, or one of a preparation that promised nothing durable.
StaleReceipt(id, o) ==
    /\ Receipt(id, o) /\ job[id].req.kind # "ABORT"
    /\ \/ ~Live(o) /\ ~(job[id].req.kind = "PROMOTE" /\ job[id].result = "OK")
       \/ Live(o) /\ job[id].req.kind \in {"BEGIN", "PUT"} /\ job[id].result = "STAGED"
    /\ UNCHANGED rounds /\ Quiet

\* A live round whose job failed.
FailedReceipt(id, o) ==
    /\ Receipt(id, o) /\ Live(o) /\ job[id].req.kind # "ABORT"
    /\ ~Durably(id) /\ job[id].result # "STAGED"
    /\ GiveUp
    /\ queue' = queue - 1
    /\ UNCHANGED <<pending, ready, view>>

\* Fault: READY belongs to the admission of the promotion.
ReadyAtAdmission == ready' = TRUE

\* READY belongs to the durable completion of the promotion, never to its admission.
PromotionAdmitted == UNCHANGED ready

\* A pending root is durable: ACK, and PROMOTE once it was the last.
BlockReceipt(id, o) ==
    /\ Receipt(id, o) /\ Live(o)
    /\ job[id].req.kind \in {"END", "REUSE"} /\ Durably(id)
    /\ LET acked == [rounds EXCEPT ![o].step[job[id].req.block] = "durable"]
           last == \A b \in Blocks : acked[o].step[b] = "durable"
       IN  IF ~last
           THEN /\ rounds' = acked /\ queue' = queue - 1
                /\ UNCHANGED <<job, pending, reconcile, ready>>
           ELSE IF Submittable(rounds[o].rev)
           THEN /\ rounds' = [acked EXCEPT ![o].promote = Len(job) + 1]
                /\ job' = Append(job, NewJob(Req("PROMOTE", o, rounds[o].wire, SomeBlock), rounds[o].rev))
                /\ pending' = Append(pending, Len(job) + 1)
                /\ PromotionAdmitted
                /\ UNCHANGED <<queue, reconcile>>
           ELSE GiveUp /\ queue' = queue - 1 /\ UNCHANGED <<pending, ready>>
    /\ UNCHANGED view

\* The owners of S, newest first.
NewestFirst(S) == {s \in [1 .. Cardinality(S) -> S] : \A i, j \in DOMAIN s : i < j => s[i] > s[j]}

\* The receipts are read.  Abandoned rounds ask for their ABORT, newest first and as
\* far as the queue has room; a failed writer has no use for one.
TickEnd ==
    /\ tick /\ completed = <<>> /\ tick' = FALSE
    /\ IF ~Admitting
       THEN /\ ready' = FALSE /\ reconcile' = 0
            /\ job' = Cancelled(ActiveJobs)
            /\ rounds' = [o \in Owners |->
                            IF Abandoned[o].phase = "abandoned" /\ rounds[o].abort = NoJob
                            THEN [rounds[o] EXCEPT !.phase = "gone"] ELSE rounds[o]]
            /\ UNCHANGED <<pending, queue>>
       ELSE /\ \E order \in NewestFirst(Asking) :
                 LET n == IF Len(order) <= QueueLimit - queue THEN Len(order) ELSE QueueLimit - queue
                     number(o) == Len(job) + CHOOSE i \in 1 .. n : order[i] = o
                     asked == {order[i] : i \in 1 .. n}
                 IN  /\ job' = job \o [i \in 1 .. n |->
                                        NewJob(Req("ABORT", order[i], rounds[order[i]].wire, SomeBlock), authority)]
                     /\ pending' = pending \o [i \in 1 .. n |-> Len(job) + i]
                     /\ queue' = queue + n
                     /\ rounds' = [o \in Owners |->
                                     IF o \in Asking
                                     THEN [rounds[o] EXCEPT !.rev = authority,
                                                            !.abort = IF o \in asked THEN number(o) ELSE NoJob]
                                     ELSE rounds[o]]
            /\ UNCHANGED <<reconcile, ready>>
    /\ UNCHANGED <<pc, writer, completed, detached, pins, buffered, envelopes, delivery, authority,
                   flags, revoked, polled, view, withdrawn>>

-----------------------------------------------------------------------------
Tick == \/ TickBegin \/ TickEnd
        \/ \E id \in DOMAIN job, o \in Owners :
              \/ AbortReceipt(id, o) \/ PromoteReceipt(id, o) \/ StaleReceipt(id, o)
              \/ FailedReceipt(id, o) \/ BlockReceipt(id, o)

Frames == \E o \in Owners, b \in Blocks :
              \/ Inf(o, b) \/ \E w \in DOMAIN Announced : FirstInf(o, w, b)
              \/ BeginBlock(o, b) \/ PutRow(o, b) \/ EndBlock(o, b)

ReceiveNext ==
    \/ (Works \/ Breaks) /\ UNCHANGED receive
    \/ Tick \/ Frames \/ Timeout \/ Withdraw

ReceiveSpec == ReceiveInit /\ [][ReceiveNext]_allVars

\* The writer thread and the completion event of the main loop are scheduled, and the
\* absolute deadline of a round, which no traffic refreshes, passes.
ReceiveFairSpec ==
    /\ ReceiveSpec
    /\ WF_allVars((Works \/ Breaks) /\ UNCHANGED receive) /\ WF_allVars(Tick) /\ WF_allVars(Timeout)

-----------------------------------------------------------------------------
(* What makes the receiver correct.                                           *)

Phases == {"unborn", "live", "abandoned", "gone"}
Steps == {"none", "reuse", "res", "put", "end", "durable"}

\* Types of the receiver's state, and the active round is a live one.
ReceiveTypeOK ==
    /\ \A o \in Owners :
          /\ rounds[o].phase \in Phases /\ rounds[o].rev \in 0 .. authority
          /\ \A b \in Blocks : rounds[o].step[b] \in Steps
                               /\ rounds[o].puts[b] \in Nat
          /\ {rounds[o].promote, rounds[o].abort} \subseteq DOMAIN job \cup {NoJob}
    /\ reconcile # 0 => \E o \in Owners : Active(o)
    /\ {ready, tick} \subseteq BOOLEAN
    /\ queue = Len(pending) + Len(group) + Len(completed) /\ queue <= QueueLimit

\* What the controllers of the writer believe to be durable is: the blocks a round is
\* ready with are the blocks of its pending roots, even after its group was refused.
StagesAgree ==
    pc = "wait" /\ ~failed => \A o \in Owners :
        own[o] # NoStage /\ ~own[o].failed => own[o].ready = Mask(durable.stages[o])

AnnouncedBlocks(w) == [b \in Blocks |-> Announced[w].blocks[b].digest]

\* Six roots at once: the active blocks and the lineage move only at a promotion, and
\* then together, to exactly what one round announced, leaving no pending root of it.
PromotionExact ==
    \A id \in ToSet(Durable) :
        LET j == job[id]
            o == j.req.owner
            w == rounds[o].wire
        IN  IF j.req.kind = "PROMOTE"
            THEN /\ j.after.blocks = AnnouncedBlocks(w) /\ Lineage(j.after) = Lineage(Announced[w])
                 /\ j.after.stages[o] = NoStage
            ELSE j.after.blocks = j.before.blocks /\ Lineage(j.after) = Lineage(j.before)

\* An acknowledged block stays durable, with the contents that were announced, until
\* the round is promoted or given up.
AckedDurable ==
    \A o \in Owners, b \in Blocks :
        rounds[o].phase = "live" /\ rounds[o].step[b] = "durable" /\ rounds[o].promote \notin ToSet(Durable) =>
            /\ durable.stages[o] # NoStage /\ b \in Mask(durable.stages[o])
            /\ durable.stages[o].roots[b] = Announced[rounds[o].wire].blocks[b].digest

\* A round that is over has left nothing behind: no durable pending root, no controller.
NoOrphanRoots ==
    ~failed => \A o \in Owners :
        rounds[o].phase = "gone" => durable.stages[o] = NoStage /\ own[o] = NoStage

\* READY is served from exactly one complete round: its lineage and its blocks.
ReadyExact ==
    ready => /\ view = Lineage(durable)
             /\ \E o \in Owners : /\ rounds[o].phase = "gone"
                                  /\ view = Lineage(Announced[rounds[o].wire])
                                  /\ durable.blocks = AnnouncedBlocks(rounds[o].wire)

\* Every round ends, in READY or with its pending roots taken back, however often its
\* ABORT is turned away.
RoundsEnd == \A o \in Owners : o \in Kept ~> o \notin Kept
=============================================================================
