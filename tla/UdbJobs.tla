------------------------------- MODULE UdbJobs -------------------------------
(* What one job of the native store does to a root set: the mutations of a    *)
(* lineage (BIND, POINT, PREFIX, DROP, EXPIRE) and the snapshot jobs of a      *)
(* reconciliation round (BEGIN, PUT, END, REUSE, PROMOTE, ABORT).              *)
(* Contents of a block are a digest; a row is counted, not kept.               *)
EXTENDS Integers, FiniteSets

CONSTANTS
    Blocks,     \* the six blocks N, C, I, S, L, K
    Owners,     \* rounds: each has an owner identity of its own
    Sources,    \* (SID, epoch) of the servers that may number mutations
    NoSource,   \* the source of a store that was never bound
    NoStage     \* no head, no controller

(* A request: kind, owner and block where they apply; src and seq, the source   *)
(* and wire sequence of a mutation or the watermark of a round; count and       *)
(* digest, what a snapshot block announces.                                     *)
Mutations == {"BIND", "POINT", "PREFIX", "DROP", "EXPIRE"}
StageKinds == {"BEGIN", "PUT", "END", "REUSE", "PROMOTE", "ABORT"}

(* A root set.  `stages` is the durable catalog of pending roots: per owner the *)
(* head (lineage of the round) and the digests of the blocks its mask names.    *)
(* `log` is a history variable: the jobs this root set is the result of.        *)
EmptyRoot == [src |-> NoSource, seq |-> 0, blocks |-> [b \in Blocks |-> 0],
              stages |-> [o \in Owners |-> NoStage], log |-> <<>>]

NoOwners == [o \in Owners |-> NoStage]

Lineage(r) == [src |-> r.src, seq |-> r.seq]

Mask(head) == IF head = NoStage THEN {} ELSE DOMAIN head.roots

-----------------------------------------------------------------------------
(* Mutations.                                                                *)

\* The sequence the mutation r takes on base, or -1 when its header is refused:
\* another source, or not the next of the lineage.  Local expiry carries none.
WireSequence(r, base) ==
    IF /\ r.src = base.src
       /\ IF r.kind = "EXPIRE" THEN r.seq = 0 ELSE r.seq = base.seq + 1
    THEN base.seq + 1 ELSE -1

Answer(result, root, own) == [result |-> result, root |-> root, own |-> own]

\* What a mutation may come to.  A validator may refuse the row; the expiry it
\* compares may be another one, which consumes neither root nor sequence.
MutationOutcomes(r, base, own, id) ==
    IF r.kind = "BIND"
    THEN {Answer("OK", [base EXCEPT !.src = r.src, !.seq = 0], own)}
    ELSE IF WireSequence(r, base) = -1 THEN {Answer("REJECTED", base, own)}
    ELSE {Answer("OK", [base EXCEPT !.seq = WireSequence(r, base),
                                    !.blocks[r.block] = id], own)}
         \cup (IF r.kind = "DROP" THEN {} ELSE {Answer("REJECTED", base, own)})
         \cup (IF r.kind = "EXPIRE" THEN {Answer("STAGED", base, own)} ELSE {})

-----------------------------------------------------------------------------
(* The durable catalog of pending roots.                                     *)

\* udb_storage_stage_save: one more block of the round, never twice, and never
\* under another lineage.
Savable(base, o, lineage, b) ==
    base.stages[o] # NoStage => base.stages[o].lineage = lineage /\ b \notin Mask(base.stages[o])

Saved(base, o, lineage, b, digest) ==
    LET kept == Mask(base.stages[o])
    IN  [base EXCEPT !.stages[o] =
            [lineage |-> lineage,
             roots |-> [c \in kept \cup {b} |-> IF c = b THEN digest ELSE base.stages[o].roots[c]]]]

Dropped(base, o) == [base EXCEPT !.stages[o] = NoStage]

\* Fault: an empty pending root is taken for one that is not there.
PromotedPartly(base, o) ==
    LET roots == base.stages[o].roots
    IN  [Dropped(base, o) EXCEPT
            !.blocks = [b \in Blocks |-> IF roots[b] = 0 THEN base.blocks[b] ELSE roots[b]],
            !.src = base.stages[o].lineage.src,
            !.seq = base.stages[o].lineage.seq]

\* udb_storage_stage_promote: all six roots and the lineage change at once.
Promoted(base, o) ==
    [Dropped(base, o) EXCEPT !.blocks = base.stages[o].roots,
                             !.src = base.stages[o].lineage.src,
                             !.seq = base.stages[o].lineage.seq]

-----------------------------------------------------------------------------
(* The controllers of the writer.                                            *)

Controller(r) == [lineage |-> Lineage(r), spec |-> <<>>, rows |-> <<>>,
                  sealed |-> {}, ready |-> {}, failed |-> FALSE]

Admits(own, r) ==
    own[r.owner] # NoStage =>
        /\ ~own[r.owner].failed
        /\ own[r.owner].lineage = Lineage(r)

\* The controller of r's owner, made if there is none.
Admitted(own, r) ==
    IF own[r.owner] = NoStage THEN [own EXCEPT ![r.owner] = Controller(r)] ELSE own

\* What a preparation that ran out of memory or disk may leave behind.
Begun(r, own) ==
    {own} \cup (IF r.kind \in {"BEGIN", "REUSE"} /\ Admits(own, r) THEN {Admitted(own, r)} ELSE {})

With(f, b, x) == [c \in DOMAIN f \cup {b} |-> IF c = b THEN x ELSE f[c]]

Spoiled(own, o) == IF own[o] = NoStage THEN own ELSE [own EXCEPT ![o].failed = TRUE]

\* A failing preparation marks the controller; the base is never touched.
Failing(result, base, own, o) == {Answer(result, base, Spoiled(own, o))}

BeginOutcomes(r, base, own) ==
    IF ~Admits(own, r) THEN Failing("REJECTED", base, own, r.owner)
    ELSE LET made == Admitted(own, r)
             c == made[r.owner]
             next == [made EXCEPT ![r.owner].spec = With(c.spec, r.block, [count |-> r.count, digest |-> r.digest])]
         IN  IF r.block \in DOMAIN c.spec THEN Failing("REJECTED", base, made, r.owner)
             ELSE IF r.kind = "BEGIN"
             THEN {Answer("STAGED", base, [next EXCEPT ![r.owner].rows = With(c.rows, r.block, 0)])}
             ELSE IF base.blocks[r.block] # r.digest \/ ~Savable(base, r.owner, c.lineage, r.block)
             THEN Failing("REJECTED", base, next, r.owner)
             ELSE {Answer("OK", Saved(base, r.owner, c.lineage, r.block, r.digest),
                          [next EXCEPT ![r.owner].ready = @ \cup {r.block}])}

PutOutcomes(r, base, own) ==
    LET c == own[r.owner]
    IN  IF \/ c = NoStage
           \/ c.failed \/ r.block \notin DOMAIN c.rows \/ r.block \in c.sealed
           \/ c.rows[r.block] >= c.spec[r.block].count
        THEN Failing("REJECTED", base, own, r.owner)
        ELSE {Answer("STAGED", base, [own EXCEPT ![r.owner].rows[r.block] = @ + 1])}

\* The rows may not add up to the digest that was announced.
EndOutcomes(r, base, own) ==
    LET c == own[r.owner]
    IN  IF \/ c = NoStage
           \/ c.failed \/ r.block \notin DOMAIN c.rows \/ r.block \in c.sealed
           \/ c.rows[r.block] # c.spec[r.block].count
        THEN Failing("REJECTED", base, own, r.owner)
        ELSE LET sealed == [own EXCEPT ![r.owner].sealed = @ \cup {r.block}]
             IN  Failing("REJECTED", base, sealed, r.owner) \cup
                 (IF Savable(base, r.owner, c.lineage, r.block)
                  THEN {Answer("OK", Saved(base, r.owner, c.lineage, r.block, c.spec[r.block].digest),
                               [sealed EXCEPT ![r.owner].ready = @ \cup {r.block}])}
                  ELSE {})

PromoteOutcomes(r, base, own) ==
    LET c == own[r.owner]
    IN  IF \/ c = NoStage
           \/ c.failed \/ c.ready # Blocks
        THEN Failing("REJECTED", base, own, r.owner)
        ELSE IF base.stages[r.owner] = NoStage THEN {Answer("NOT_FOUND", base, own)}
        ELSE IF Mask(base.stages[r.owner]) # Blocks THEN Failing("REJECTED", base, own, r.owner)
        ELSE {Answer("OK", Promoted(base, r.owner), own)}

AbortOutcomes(r, base, own) ==
    IF base.stages[r.owner] = NoStage THEN {Answer("STAGED", base, own)}
    ELSE {Answer("OK", Dropped(base, r.owner), own)}

StageOutcomes(r, base, own) ==
    CASE r.kind \in {"BEGIN", "REUSE"} -> BeginOutcomes(r, base, own)
      [] r.kind = "PUT" -> PutOutcomes(r, base, own)
      [] r.kind = "END" -> EndOutcomes(r, base, own)
      [] r.kind = "PROMOTE" -> PromoteOutcomes(r, base, own)
      [] r.kind = "ABORT" -> AbortOutcomes(r, base, own)

-----------------------------------------------------------------------------
\* Every outcome the preparation of request r, as job id, may have on base.
Outcomes(r, base, own, id) ==
    IF r.kind \in Mutations THEN MutationOutcomes(r, base, own, id) ELSE StageOutcomes(r, base, own)

Negative == {"REJECTED", "BUSY", "LIMIT", "ERROR"}

\* Fault: a job that was ready is not spoiled when its group is turned away.
FinishedKindly(r, result, own) ==
    IF r.kind \in Mutations \/ own[r.owner] = NoStage THEN own
    ELSE IF r.kind \in {"PROMOTE", "ABORT"} /\ result \in {"OK", "STAGED"}
    THEN [own EXCEPT ![r.owner] = NoStage]
    ELSE own

\* udb_storage_jobs_finish: the controllers once the result of r is final.
Finished(r, result, own) ==
    IF r.kind \in Mutations \/ own[r.owner] = NoStage THEN own
    ELSE IF r.kind \in {"PROMOTE", "ABORT"} /\ result \in {"OK", "STAGED"}
    THEN [own EXCEPT ![r.owner] = NoStage]
    ELSE IF result \in Negative THEN Spoiled(own, r.owner)
    ELSE own
=============================================================================
