------------------------------ MODULE UdbWriter ------------------------------
(* The engine of the native store: one writer thread that takes submitted     *)
(* jobs in groups, prepares them one after the other on a private candidate,  *)
(* rechecks them at the final barrier, commits the group to the journal and   *)
(* publishes it; and the main thread, which reserves queue room, submits,     *)
(* cancels, withdraws authority, pins, polls and shuts down.                  *)
(*                                                                            *)
(* Every section under engine->mutex is one step.  What the writer does in    *)
(* between is private to it and belongs to the step that precedes the next    *)
(* section, except preparation and the journal commit, which take long and    *)
(* are steps of their own.  The journal is UdbJournal seen from here: a       *)
(* commit is durable or the engine has failed.                                *)
EXTENDS UdbJobs, Sequences, SequencesExt

CONSTANTS
    Requests,      \* what the main thread may ask for
    GroupMax,      \* UDB_STORAGE_GROUP_BYTES, in jobs
    QueueLimit,    \* UDB_STORAGE_QUEUE_LIMIT, in jobs and envelopes
    Readers,       \* readers that may hold a pin
    MaxJobs,       \* bound: jobs submitted
    MaxAuthority,  \* bound: changes of the authority revision
    MaxContinue,   \* bound: times a preparation is continued
    MaxFail        \* bound: failures of I/O or memory

ASSUME WriterAssumption ==
    /\ GroupMax \in Nat \ {0}
    /\ IsFiniteSet(Readers)
    /\ \A r \in Requests : r.kind \in Mutations => r.src \in Sources /\ r.block \in Blocks
    /\ QueueLimit \in Nat /\ MaxJobs \in Nat /\ MaxAuthority \in Nat
    /\ MaxContinue \in Nat /\ MaxFail \in Nat

VARIABLES
    pc,         \* where the writer thread is
    pending,    \* jobs submitted and not yet taken
    group,      \* engine->active: the jobs being worked on
    at,         \* the one being prepared
    spins,      \* how often its preparation was continued
    candidate,  \* the private root set of the group
    outcome,    \* result of the group
    durable,    \* journal->state
    own,        \* controllers of the rounds (engine->stages)
    job,        \* per job identity: request, revision, flags, result, receipts
    completed,  \* jobs done and not polled
    detached,   \* the job the main thread has polled and not freed
    generations,  \* live generations: root set and references
    current,    \* the published one
    readers,    \* per reader, the generation it pins
    buffered,   \* deliveries with an envelope and the credit for their job
    envelopes,  \* jobs of deliveries that still hold their envelope
    queue,      \* engine->queue_bytes
    delivery,   \* engine->delivery_bytes
    authority,  \* engine->authority_revision
    admission, failed, stopping,
    life,       \* the main thread: "up", "stopping", "closed", or "abort"
    fails,      \* failures so far
    revoked,    \* history: jobs withdrawn before the barrier
    polled      \* history: jobs reported: the durable ones in order, and the others

writer == <<group, at, spins, candidate, outcome, durable, own>>
pins == <<generations, current, readers>>
room == <<buffered, envelopes, queue, delivery>>
flags == <<admission, failed, stopping, life, fails>>
vars == <<pc, pending, writer, job, completed, detached, pins, room, authority, flags, revoked, polled>>

-----------------------------------------------------------------------------
NoGen == <<"none", 0>>
NoJob == 0
Gen(log) == <<"current", Len(log)>>
Before(id) == <<"before", id>>
After(id) == <<"after", id>>

NewJob(r, rev) == [req |-> r, rev |-> rev, result |-> "none", cancelled |-> FALSE,
              committing |-> FALSE, before |-> EmptyRoot, after |-> EmptyRoot]

Init ==
    /\ pc = "wait" /\ pending = <<>> /\ group = <<>> /\ at = 1 /\ spins = 0
    /\ candidate = EmptyRoot /\ outcome = "OK" /\ durable = EmptyRoot /\ own = NoOwners
    /\ job = <<>> /\ completed = <<>> /\ detached = NoJob
    /\ current = Gen(<<>>)
    /\ generations = [g \in {Gen(<<>>)} |-> [root |-> EmptyRoot, refs |-> 1]]
    /\ readers = [r \in Readers |-> NoGen]
    /\ buffered = <<>> /\ envelopes = {} /\ queue = 0 /\ delivery = 0
    /\ authority = 1
    /\ admission = TRUE /\ failed = FALSE /\ stopping = FALSE /\ life = "up" /\ fails = 0
    /\ revoked = {} /\ polled = [told |-> <<>>, refused |-> {}]

-----------------------------------------------------------------------------
(* Generations.                                                              *)

\* Fault: a generation goes with its last reader but one.
DropEarly(gs, g) ==
    IF gs[g].refs <= 2
    THEN [h \in DOMAIN gs \ {g} |-> gs[h]]
    ELSE [gs EXCEPT ![g].refs = @ - 1]

\* generation_drop on the generations gs: one reference less, gone with the last.
Drop(gs, g) ==
    IF gs[g].refs = 1
    THEN [h \in DOMAIN gs \ {g} |-> gs[h]]
    ELSE [gs EXCEPT ![g].refs = @ - 1]

Hold(gs, g, root) ==
    [h \in DOMAIN gs \cup {g} |-> IF h = g THEN [root |-> root, refs |-> 1] ELSE gs[h]]

\* Fault: the revision a job was submitted under is not looked at again.
ValidUnlessCancelled(id) == ~job[id].cancelled /\ ~failed

Valid(id) == ~job[id].cancelled /\ job[id].rev = authority /\ ~failed

\* A failure of a write, a read or an allocation, up to the bound.
Fails == fails < MaxFail /\ fails' = fails + 1

GoodJobs == {i \in 1 .. Len(group) : job[group[i]].result = "OK"}

-----------------------------------------------------------------------------
(* The writer.                                                               *)

\* Fault: a writer that is stopping takes no more work, but does not end either.
TakeUnlessStopping ==
    /\ ~stopping
    /\ pc = "wait" /\ pending # <<>>
    /\ LET n == IF Len(pending) < GroupMax THEN Len(pending) ELSE GroupMax
       IN  group' = SubSeq(pending, 1, n) /\ pending' = SubSeq(pending, n + 1, Len(pending))
    /\ at' = 1 /\ spins' = 0
    /\ candidate' = durable /\ outcome' = "OK"
    /\ pc' = "check"
    /\ UNCHANGED <<durable, own, job, completed, detached, pins, room, authority, flags, revoked, polled>>

\* It waits until there is work, and up to 5 ms more for a larger group.
Take ==
    /\ pc = "wait" /\ pending # <<>>
    /\ LET n == IF Len(pending) < GroupMax THEN Len(pending) ELSE GroupMax
       IN  group' = SubSeq(pending, 1, n) /\ pending' = SubSeq(pending, n + 1, Len(pending))
    /\ at' = 1 /\ spins' = 0
    /\ candidate' = durable /\ outcome' = "OK"
    /\ pc' = "check"
    /\ UNCHANGED <<durable, own, job, completed, detached, pins, room, authority, flags, revoked, polled>>

\* Fault: it ends with jobs left.
EndAtOnce ==
    /\ pc = "wait" /\ stopping
    /\ pc' = "ended"
    /\ UNCHANGED <<pending, writer, job, completed, detached, pins, room, authority, flags, revoked, polled>>

End ==
    /\ pc = "wait" /\ pending = <<>> /\ stopping
    /\ pc' = "ended"
    /\ UNCHANGED <<pending, writer, job, completed, detached, pins, room, authority, flags, revoked, polled>>

\* Lifecycle and authority are checked before every piece of preparation.
Check ==
    /\ pc = "check" /\ at <= Len(group)
    /\ IF Valid(group[at])
       THEN pc' = "prepare" /\ UNCHANGED <<at, spins, own, job>>
       ELSE /\ job' = [job EXCEPT ![group[at]].result = "BUSY"]
            /\ own' = Finished(job[group[at]].req, "BUSY", own)
            /\ at' = at + 1 /\ spins' = 0
            /\ UNCHANGED pc
    /\ UNCHANGED <<pending, group, candidate, outcome, durable, completed, detached, pins, room,
                   authority, flags, revoked, polled>>

\* Bounded private work: come back after another check.
Continue ==
    /\ pc = "prepare" /\ spins < MaxContinue
    /\ spins' = spins + 1
    /\ pc' = "check"
    /\ UNCHANGED <<pending, group, at, candidate, outcome, durable, own, job, completed, detached,
                   pins, room, authority, flags, revoked, polled>>

\* Fault: a receipt starts from the root set of the group, not of the job.
GroupRoot == durable

\* The root set the job being prepared starts from.
StartRoot == candidate

\* The preparation ends.  A success moves the candidate and keeps the exact root
\* sets around this job as its receipts.
Prepare ==
    /\ pc = "prepare"
    /\ \E a \in Outcomes(job[group[at]].req, candidate, own, group[at]) :
          LET root == [a.root EXCEPT !.log = Append(candidate.log, group[at])]
          IN  /\ own' = IF a.result \in Negative
                        THEN Finished(job[group[at]].req, a.result, a.own) ELSE a.own
              /\ IF a.result = "OK"
                 THEN /\ candidate' = root
                      /\ job' = [job EXCEPT ![group[at]].result = "OK",
                                            ![group[at]].before = StartRoot,
                                            ![group[at]].after = root]
                 ELSE /\ job' = [job EXCEPT ![group[at]].result = a.result]
                      /\ UNCHANGED candidate
    /\ at' = at + 1 /\ spins' = 0
    /\ pc' = "check"
    /\ UNCHANGED <<pending, group, outcome, durable, completed, detached, pins, room,
                   authority, flags, revoked, polled>>

\* Memory runs out, or a file cannot be read or written.
PrepareFails ==
    /\ pc = "prepare" /\ Fails
    /\ \E result \in {"LIMIT", "ERROR"}, begun \in Begun(job[group[at]].req, own) :
          /\ job' = [job EXCEPT ![group[at]].result = result]
          /\ own' = Finished(job[group[at]].req, result, begun)
          /\ failed' = (failed \/ result = "ERROR")
          /\ admission' = (admission /\ result # "ERROR")
    /\ at' = at + 1 /\ spins' = 0
    /\ pc' = "check"
    /\ UNCHANGED <<pending, group, candidate, outcome, durable, completed, detached, pins, room,
                   authority, stopping, life, revoked, polled>>

\* The final barrier: one job withdrawn since its check turns the whole group away.
\* Changes that come later are ordered after the group.
Barrier ==
    /\ pc = "check" /\ at > Len(group)
    /\ IF GoodJobs = {}
       THEN pc' = "install" /\ UNCHANGED <<outcome, job>>
       ELSE IF \E i \in GoodJobs : ~Valid(group[i])
       THEN outcome' = "BUSY" /\ pc' = "install" /\ UNCHANGED job
       ELSE /\ job' = [id \in DOMAIN job |->
                          [job[id] EXCEPT !.committing = @ \/ \E i \in GoodJobs : group[i] = id]]
            /\ pc' = "commit"
            /\ UNCHANGED outcome
    /\ UNCHANGED <<pending, group, at, spins, candidate, durable, own, completed, detached, pins,
                   room, authority, flags, revoked, polled>>

\* No memory for the new generation: the group is turned away.
BarrierFails ==
    /\ pc = "check" /\ at > Len(group) /\ GoodJobs # {} /\ Fails
    /\ \A i \in GoodJobs : Valid(group[i])
    /\ outcome' = "LIMIT" /\ pc' = "install"
    /\ UNCHANGED <<pending, group, at, spins, candidate, durable, own, job, completed, detached, pins,
                   room, authority, admission, failed, stopping, life, revoked, polled>>

Commit ==
    /\ pc = "commit"
    /\ durable' = candidate
    /\ pc' = "install"
    /\ UNCHANGED <<pending, group, at, spins, candidate, outcome, own, job, completed, detached, pins,
                   room, authority, flags, revoked, polled>>

CommitFails ==
    /\ pc = "commit" /\ Fails
    /\ outcome' = "ERROR" /\ pc' = "install"
    /\ UNCHANGED <<pending, group, at, spins, candidate, durable, own, job, completed, detached, pins,
                   room, authority, admission, failed, stopping, life, revoked, polled>>


\* Publication of a durable group, or the news that it is none.
Install ==
    /\ pc = "install"
    /\ LET good == {group[i] : i \in GoodJobs}
           receipts == {Before(id) : id \in good} \cup {After(id) : id \in good}
           pinned == [g \in DOMAIN generations \cup receipts |->
                        IF g \in receipts
                        THEN [root |-> IF g[1] = "before" THEN job[g[2]].before ELSE job[g[2]].after,
                              refs |-> 1]
                        ELSE generations[g]]
       IN  /\ IF good # {} /\ outcome = "OK"
              THEN /\ current' = Gen(candidate.log)
                   /\ generations' = Drop(Hold(pinned, Gen(candidate.log), candidate), current)
              ELSE UNCHANGED <<current, generations>>
           /\ job' = [id \in DOMAIN job |->
                         IF id \notin good \/ outcome = "OK" THEN job[id]
                         ELSE [job[id] EXCEPT !.result = outcome, !.before = EmptyRoot,
                                              !.after = EmptyRoot]]
    /\ failed' = (failed \/ outcome = "ERROR")
    /\ admission' = (admission /\ outcome # "ERROR")
    /\ pc' = "complete"
    /\ UNCHANGED <<pending, writer, completed, detached, readers, room, authority, stopping, life,
                   fails, revoked, polled>>

\* The controllers after every job of the group has its result: it closes, spoils or
\* leaves the one of its round, and one that is closed stays so.
Settled ==
    LET ends(o) == {Finished(job[id].req, job[id].result, own)[o] : id \in ToSet(group)} \ {own[o]}
    IN  [o \in Owners |-> IF NoStage \in ends(o) THEN NoStage
                          ELSE IF ends(o) = {} THEN own[o] ELSE CHOOSE c \in ends(o) : TRUE]

\* The jobs are handed over; a log that has grown enough is checkpointed next.
Complete ==
    /\ pc = "complete"
    /\ own' = Settled
    /\ completed' = completed \o group
    /\ group' = <<>> /\ candidate' = durable
    /\ at' = 1 /\ spins' = 0 /\ outcome' = "OK"
    /\ pc' = "wait"
    /\ UNCHANGED <<pending, durable, job, detached, pins, room, authority, flags, revoked, polled>>

\* A controller cannot be closed, or the checkpoint fails.
CompleteFails ==
    /\ pc = "complete" /\ Fails
    /\ own' = Settled
    /\ completed' = completed \o group
    /\ group' = <<>> /\ candidate' = durable
    /\ at' = 1 /\ spins' = 0 /\ outcome' = "OK"
    /\ failed' = TRUE /\ admission' = FALSE
    /\ pc' = "wait"
    /\ UNCHANGED <<pending, durable, job, detached, pins, room, authority, stopping, life, revoked, polled>>

-----------------------------------------------------------------------------
(* The main thread.                                                          *)

Admitting == admission /\ ~failed /\ ~stopping
Started == Len(buffered) + Cardinality(DOMAIN job)

\* A delivery reserves room for its envelope and for the job it will become.
Reserve ==
    /\ life = "up" /\ Started < MaxJobs
    /\ Admitting /\ queue + 2 <= QueueLimit
    /\ \E r \in Requests :
          /\ r.kind \in Mutations
          /\ buffered' = Append(buffered, [req |-> r, rev |-> authority])
    /\ queue' = queue + 2 /\ delivery' = delivery + 2
    /\ UNCHANGED <<pc, pending, writer, job, completed, detached, pins, envelopes, authority, flags,
                   revoked, polled>>

\* The credit of the delivery becomes the charge of its job.
Transfer == delivery' = delivery - 1 /\ UNCHANGED queue

SubmitDelivery ==
    /\ life = "up" /\ Admitting /\ delivery >= 1 /\ queue <= QueueLimit
    /\ \E i \in DOMAIN buffered :
          /\ buffered[i].rev = authority
          /\ LET id == Cardinality(DOMAIN job) + 1
             IN  /\ job' = Append(job, NewJob(buffered[i].req, authority))
                 /\ pending' = Append(pending, id)
                 /\ envelopes' = envelopes \cup {id}
          /\ buffered' = RemoveAt(buffered, i)
    /\ Transfer
    /\ UNCHANGED <<pc, writer, completed, detached, pins, authority, flags, revoked, polled>>

DropDelivery ==
    /\ life = "up"
    /\ \E i \in DOMAIN buffered : buffered' = RemoveAt(buffered, i)
    /\ queue' = queue - 2 /\ delivery' = delivery - 2
    /\ UNCHANGED <<pc, pending, writer, job, completed, detached, pins, envelopes, authority, flags,
                   revoked, polled>>

\* Jobs the writer has not carried past the barrier.
Withdrawable == {id \in ToSet(pending) \cup ToSet(group) : ~job[id].committing}

Cancelled(ids) == [id \in DOMAIN job |-> IF id \in ids THEN [job[id] EXCEPT !.cancelled = TRUE]
                                                        ELSE job[id]]

\* A delivery is abandoned while its job is on the way (cancel_owner).
Cancel ==
    /\ life = "up"
    /\ \E id \in Withdrawable \cap envelopes :
          /\ ~job[id].cancelled
          /\ job' = Cancelled({id})
          /\ revoked' = revoked \cup {id}
    /\ UNCHANGED <<pc, pending, writer, completed, detached, pins, room, authority, flags, polled>>

\* The authority of every job submitted so far ends; part of a provisional tail from
\* the peer that stays selected is carried over.
Authority ==
    /\ life = "up" /\ authority <= MaxAuthority
    /\ authority' = authority + 1
    /\ revoked' = revoked \cup Withdrawable
    /\ \E carried \in SUBSET DOMAIN buffered :
          buffered' = [i \in DOMAIN buffered |->
                         IF i \in carried /\ buffered[i].rev = authority
                         THEN [buffered[i] EXCEPT !.rev = authority + 1] ELSE buffered[i]]
    /\ UNCHANGED <<pc, pending, writer, job, completed, detached, pins, envelopes, queue, delivery,
                   flags, polled>>

Pin ==
    /\ life = "up" /\ ~failed /\ ~stopping
    /\ \E r \in Readers :
          /\ readers[r] = NoGen
          /\ readers' = [readers EXCEPT ![r] = current]
    /\ generations' = [generations EXCEPT ![current].refs = @ + 1]
    /\ UNCHANGED <<pc, pending, writer, job, completed, detached, current, room, authority, flags,
                   revoked, polled>>

Release ==
    /\ life = "up"
    /\ \E r \in Readers :
          /\ readers[r] # NoGen
          /\ generations' = Drop(generations, readers[r])
          /\ readers' = [readers EXCEPT ![r] = NoGen]
    /\ UNCHANGED <<pc, pending, writer, job, completed, detached, current, room, authority, flags,
                   revoked, polled>>

\* What the submitter of job id is told.
Reported(id) ==
    IF job[id].result = "OK" THEN [polled EXCEPT !.told = Append(@, id)]
                             ELSE [polled EXCEPT !.refused = @ \cup {id}]

Poll ==
    /\ life = "up" /\ detached = NoJob /\ completed # <<>>
    /\ detached' = Head(completed) /\ completed' = Tail(completed)
    /\ polled' = Reported(Head(completed))
    /\ UNCHANGED <<pc, pending, writer, job, pins, room, authority, flags, revoked>>

Receipts(id) == IF job[id].result = "OK" THEN {Before(id), After(id)} ELSE {}

\* One reference less for each of the generations in `dropped`.
DropAll(gs, dropped) ==
    [g \in {h \in DOMAIN gs : h \in dropped => gs[h].refs # 1} |->
        IF g \in dropped THEN [gs[g] EXCEPT !.refs = @ - 1] ELSE gs[g]]

\* Fault: only the root set before the job is given back.
FreeBefore(id) == DropAll(generations, Receipts(id) \ {After(id)})

FreeReceipts(id) == DropAll(generations, Receipts(id))

\* The effects are applied, the envelope and then the job are given back.
JobFree ==
    /\ life = "up" /\ detached # NoJob
    /\ generations' = FreeReceipts(detached)
    /\ LET held == IF detached \in envelopes THEN 1 ELSE 0
       IN  queue' = queue - 1 - held /\ delivery' = delivery - held
    /\ envelopes' = envelopes \ {detached}
    /\ detached' = NoJob
    /\ UNCHANGED <<pc, pending, writer, job, completed, current, readers, buffered, authority, flags,
                   revoked, polled>>

\* The module is unloaded or rehashed: stop the writer without draining.
Shutdown ==
    /\ life = "up" /\ detached = NoJob
    /\ admission' = FALSE /\ stopping' = TRUE /\ life' = "stopping"
    /\ job' = Cancelled(Withdrawable)
    /\ revoked' = revoked \cup Withdrawable
    /\ UNCHANGED <<pc, pending, writer, completed, detached, pins, room, authority, failed, fails, polled>>

\* Fault: envelopes whose job was submitted are forgotten.
RoomOfBuffered == 2 * Len(buffered)

\* Room the deliveries still hold.
RoomHeld == 2 * Len(buffered) + Cardinality(envelopes)

Pinners(g) == {r \in Readers : readers[r] = g}

\* The generations once every reader has given its pin back.
Unpinned ==
    [g \in {h \in DOMAIN generations : generations[h].refs # Cardinality(Pinners(h))} |->
        [generations[g] EXCEPT !.refs = @ - Cardinality(Pinners(g))]]

\* The writer has been joined: pins, deliveries and completions are given back, and
\* whatever is left over makes engine_close fail and the daemon abort.
Close ==
    /\ life = "stopping" /\ pc = "ended"
    /\ LET held == RoomHeld
       IN  /\ generations' = DropAll(Unpinned, UNION {Receipts(id) : id \in ToSet(completed)})
           /\ delivery' = delivery - held
           /\ queue' = queue - held - Len(completed)
    /\ readers' = [r \in Readers |-> NoGen]
    /\ buffered' = <<>> /\ envelopes' = {} /\ completed' = <<>>
    /\ life' = IF queue' = 0 /\ DOMAIN generations' = {current} /\ generations'[current].refs = 1
               THEN "closed" ELSE "abort"
    /\ UNCHANGED <<pc, pending, writer, job, detached, current, authority, admission, failed,
                   stopping, fails, revoked, polled>>

-----------------------------------------------------------------------------
Works == Take \/ End \/ Check \/ Continue \/ Prepare \/ Barrier \/ Commit \/ Install \/ Complete
Breaks == PrepareFails \/ BarrierFails \/ CommitFails \/ CompleteFails
Main == Reserve \/ SubmitDelivery \/ DropDelivery \/ Cancel \/ Authority \/ Pin \/ Release
          \/ Poll \/ JobFree \/ Shutdown \/ Close

Next == Works \/ Breaks \/ Main

Spec == Init /\ [][Next]_vars

\* The writer thread is scheduled.
FairSpec == Spec /\ WF_vars(Works \/ Breaks)

-----------------------------------------------------------------------------
(* What makes the writer correct.                                            *)

Results == {"none", "OK", "STAGED", "NOT_FOUND"} \cup Negative

TypeOK ==
    /\ pc \in {"wait", "check", "prepare", "commit", "install", "complete", "ended"}
    /\ {pending, group, completed, polled.told} \subseteq Seq(DOMAIN job)
    /\ polled.refused \subseteq DOMAIN job
    /\ at \in Nat /\ spins \in 0 .. MaxContinue
    /\ outcome \in {"OK", "BUSY", "LIMIT", "ERROR"}
    /\ \A id \in DOMAIN job : job[id].req \in Requests /\ job[id].result \in Results
    /\ detached \in DOMAIN job \cup {NoJob}
    /\ current \in DOMAIN generations
    /\ \A g \in DOMAIN generations : generations[g].refs \in Nat \ {0}
    /\ \A r \in Readers : readers[r] \in DOMAIN generations \cup {NoGen}
    /\ envelopes \subseteq DOMAIN job /\ revoked \subseteq DOMAIN job
    /\ queue \in Nat /\ delivery \in Nat /\ authority \in 1 .. MaxAuthority + 1
    /\ {admission, failed, stopping} \subseteq BOOLEAN
    /\ life \in {"up", "stopping", "closed", "abort"}

Durable == durable.log
IsGood(id) == job[id].result = "OK"

\* Jobs whose receipts are reachable: published and not yet freed.
Unread == {id \in (ToSet(completed) \cup {detached}) \ {NoJob} : IsGood(id)}
             \cup (IF pc = "complete" THEN {id \in ToSet(group) : IsGood(id)} ELSE {})

Holders(g) ==
    (IF g = current THEN 1 ELSE 0)
    + Cardinality(Pinners(g))
    + Cardinality({id \in Unread : g \in {Before(id), After(id)}})

\* Every reference of a generation has its holder and every holder its reference.
RefsExact ==
    /\ DOMAIN generations = {current} \cup {readers[r] : r \in {q \in Readers : readers[q] # NoGen}}
                              \cup UNION {Receipts(id) : id \in Unread}
    /\ \A g \in DOMAIN generations : generations[g].refs = Holders(g)

\* The queue bound is what the envelopes, credits and jobs hold of it.
QueueExact ==
    /\ queue <= QueueLimit
    /\ delivery = 2 * Len(buffered) + Cardinality(envelopes)
    /\ queue = delivery + Len(pending) + Len(group) + Len(completed)
                 + (IF detached = NoJob THEN 0 ELSE 1)

\* Both accounts balance through submission, completion, polling, cancellation and shutdown:
\* nothing a reader or an unread receipt can reach is ever given to the reclaimer and nothing
\* stays pinned for good; the queue is never overdrawn and no room in it is lost.
Accounts == RefsExact /\ QueueExact

\* Receipts tile the history of the store: each durable job starts from exactly the
\* root set the one before it ended with, whatever group either was in; a numbered
\* mutation is the next of its lineage.
ReceiptsTile ==
    \A i \in 1 .. Len(Durable) :
        LET j == job[Durable[i]]
        IN  j.committing =>
              /\ j.before = (IF i = 1 THEN EmptyRoot ELSE job[Durable[i - 1]].after)
              /\ i = Len(Durable) => j.after = durable
              /\ j.req.kind \in Mutations \ {"BIND"} =>
                    /\ j.req.src = j.before.src /\ j.after.seq = j.before.seq + 1
                    /\ j.req.kind # "EXPIRE" => j.req.seq = j.after.seq

\* A shutdown finds nothing left over.
NeverAborts == life # "abort"

\* Every submitted job gets its result, whatever was cancelled, failed or stopped.
Answered == \A id \in 1 .. MaxJobs :
                id \in DOMAIN job ~> id \in DOMAIN job /\ id \notin ToSet(pending \o group)

\* A shutdown is never stuck behind the writer.
Joins == stopping ~> pc = "ended"

Ledger == INSTANCE UdbLedger
    WITH log <- Durable, told <- polled.told, refused <- polled.refused

\* The writer keeps the ledger: authority withdrawn before the barrier keeps a job
\* out, groups are whole, and successes are told in order.
ImplementsLedger == Ledger!Spec
=============================================================================
