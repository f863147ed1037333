------------------------------- MODULE UdbBlock -------------------------------
(* Blocks of rows as the writer changes them: radix trees over the hashes of the     *)
(* keys, whose leaves name immutable runs.  A mutation works on a private root, in    *)
(* many steps, and publishes it or nothing.                                          *)
(*                                                                                 *)
(* The shape of a tree, and with it the digest that servers compare, has to depend    *)
(* on the rows alone.  A digest stands here for what it covers: the leaves' places    *)
(* and rows, empty ones included.  Rebuilds write their leaves in one step, and the   *)
(* catalog is a function; both are private until the root is published.  The blocks'  *)
(* roots are one record, told apart by the partitions.                                *)
EXTENDS Integers, Sequences, FiniteSets, SequencesExt, FiniteSetsExt

CONSTANTS
    Blocks,
    Keys,        \* a block and a path of components
    Forbids,     \* keys whose row clears its entity (N, forbid)
    EntityDepth, \* of each block, the components that choose the partition: 2 for K, else 1
    Partition,   \* of each entity, in its block
    Hash,        \* of each key: the bits that lead to its leaf
    Depth,       \* their number
    Values,
    Weight,      \* of a row, by its value
    LeafMax,     \* UDB_STORAGE_LEAF_WEIGHT_MAX
    RunsMax,     \* UDB_STORAGE_MAX_RUNS + 1
    MaxSeq       \* bound: sequences given out

VARIABLES
    root,        \* the published root
    seq, next,   \* the state's sequence and next_object
    work         \* the mutation being prepared

vars == <<root, seq, next, work>>

ASSUME BlockAssumption ==
    /\ EntityDepth \in [Blocks -> {1, 2}] /\ {LeafMax, RunsMax, Depth, MaxSeq} \subseteq Nat
    /\ \A v \in Values : Weight[v] \in 1 .. LeafMax
    /\ \A k \in Keys : k[1] \in Blocks /\ Len(Hash[k]) = Depth

-----------------------------------------------------------------------------
(* Places, rows and summaries.                                                *)

\* udb_storage_key_hash
Entity(key) == SubSeq(key, 1, 1 + EntityDepth[key[1]])
PartitionsOf(b) == {Partition[Entity(k)] : k \in {k \in Keys : k[1] = b}}
Partitions == UNION {PartitionsOf(b) : b \in Blocks}
Bits == UNION {[1 .. n -> {0, 1}] : n \in 0 .. Depth}
Positions == Partitions \X Bits

Within(p, q) == p[1] = q[1] /\ IsPrefix(q[2], p[2])
Parent(p) == <<p[1], Front(p[2])>>
Child(p, bit) == <<p[1], Append(p[2], bit)>>
Top(part) == <<part, <<>>>>

\* udb_storage_logical_contains
Leads(p, key) == Within(<<Partition[Entity(key)], Hash[key]>>, p)

At(p, R) == {r \in R : Leads(p, r.key)}
WeightOf(R) == MapThenSumSet(LAMBDA r : Weight[r.val], R)
RowsOf(R) == {<<r.key, r.val>> : r \in R}

Heavy(weight) == weight > LeafMax

EmptySum(p) == [leaves |-> {<<p, {}>>}, weight |-> 0]
LeafSum(p, R) == [leaves |-> {<<p, RowsOf(R)>>}, weight |-> WeightOf(R)]
Joined(left, right) == [leaves |-> left.leaves \cup right.leaves, weight |-> left.weight + right.weight]

\* A missing node is an empty leaf.
EmptyLeaf(p) == [kind |-> "LEAF", runs |-> {}, sum |-> EmptySum(p)]
Crowded(node) == Cardinality(node.runs) = RunsMax

NodeAt(rt, p) == IF p \in DOMAIN rt.nodes THEN rt.nodes[p] ELSE EmptyLeaf(p)

\* udb_storage_logical_block
BlockDigest(rt, b) == UNION {NodeAt(rt, Top(part)).sum.leaves : part \in PartitionsOf(b)}
Summarised(rt, b) == [rt EXCEPT !.digest[b] = BlockDigest(rt, b)]

EmptyRoot == [nodes |-> <<>>, runs |-> <<>>, prefixes |-> <<>>,
              digest |-> [b \in Blocks |-> {<<Top(part), {}>> : part \in PartitionsOf(b)}]]

-----------------------------------------------------------------------------
(* Views: the runs of a leaf merged under the tombstones.                     *)

Records(rt, ids) == UNION {rt.runs[i] : i \in ids}

Newest(R) == {r \in R : \A q \in R : q.key = r.key => q.seq <= r.seq}

Covered(rt, r) ==
    \E i \in ToSet(rt.prefixes) : \E t \in rt.runs[i] : IsPrefix(t.key, r.key) /\ t.seq > r.seq

\* The stamps of the winners are kept.
View(rt, ids) == {r \in Newest(Records(rt, ids)) : ~Covered(rt, r)}

\* udb_storage_node_locate: the first place on the way that is no branch.
Locate(rt, key) ==
    LET way(n) == <<Partition[Entity(key)], SubSeq(Hash[key], 1, n)>>
        ends == {n \in 0 .. Depth : NodeAt(rt, way(n)).kind = "LEAF"}
    IN  way(CHOOSE n \in ends : \A m \in ends : n <= m)

\* udb_storage_block_lookup
Lookup(rt, key) == {r \in View(rt, NodeAt(rt, Locate(rt, key)).runs) : r.key = key}

\* udb_storage_block_iterator: every leaf whose summary is not empty.
Leaves(rt) == {p \in DOMAIN rt.nodes : rt.nodes[p].kind = "LEAF" /\ rt.nodes[p].sum.weight > 0}
Scan(rt, P) == UNION {View(rt, rt.nodes[p].runs) : p \in Leaves(rt) \cap P}

-----------------------------------------------------------------------------
(* udb_storage_rebuild: what is below p gives way to the canonical tree of R. *)

Restricted(f, S) == [x \in S |-> f[x]]

Below(p) == {q \in Positions : Within(q, p)}
Split(p, R) == {q \in Below(p) : Heavy(WeightOf(At(q, R)))}
Ends(p, R) == {q \in Below(p) : q \notin Split(p, R) /\ (q = p \/ Parent(q) \in Split(p, R))}

Rebuilt(rt, p, R, from) ==
    LET old == DOMAIN rt.nodes \cap Below(p)
        stale == UNION {rt.nodes[q].runs : q \in old}
        full == SetToSeq({q \in Ends(p, R) : At(q, R) # {}})
        id(q) == from - 1 + CHOOSE i \in DOMAIN full : full[i] = q
        branch(q) == [kind |-> "BRANCH", runs |-> {},
                      sum |-> [leaves |-> {<<e, RowsOf(At(e, R))>> : e \in Ends(p, R) \cap Below(q)},
                               weight |-> WeightOf(At(q, R))]]
        leaf(q) == [kind |-> "LEAF", runs |-> {id(q)}, sum |-> LeafSum(q, At(q, R))]
        kept == DOMAIN rt.nodes \ old
    IN  [root |->
            [rt EXCEPT
               !.nodes = [q \in kept \cup ToSet(full) \cup Split(p, R) |->
                            IF q \in kept THEN @[q] ELSE IF q \in Split(p, R) THEN branch(q) ELSE leaf(q)],
               !.runs = [i \in (DOMAIN @ \ stale) \cup {id(q) : q \in ToSet(full)} |->
                            IF i >= from THEN At(full[i - from + 1], R) ELSE @[i]]],
         next |-> from + Len(full)]

\* No more bits to tell two halves apart: UDB_STORAGE_LIMIT.
Splits(p, R) == \A q \in Split(p, R) : Len(q[2]) < Depth

WithNode(rt, p, node) ==
    [rt EXCEPT !.nodes = [q \in DOMAIN @ \cup {p} |-> IF q = p THEN node ELSE @[q]]]

WithRun(rt, id, R) == [rt EXCEPT !.runs = [i \in DOMAIN @ \cup {id} |-> IF i = id THEN R ELSE @[i]]]

-----------------------------------------------------------------------------
(* udb_storage_mutation_prepare: the changes a mutation is made of.           *)

Idle == [phase |-> "idle"]

Put(key, val) == [op |-> "PUT", key |-> key, val |-> val, seq |-> 0]
Clear(prefix) == [op |-> "PREFIX_DELETE", key |-> prefix, val |-> 0, seq |-> 0]

\* udb_native_mutation_normalize: the entity is cleared, but for its own row.
Normalized(key, val) ==
    IF key \in Forbids
    THEN LET parent == Front(key)
         IN  <<Clear(parent)>> \o SetToSeq({Put(parent, r.val) : r \in Lookup(root, parent)}) \o <<Put(key, val)>>
    ELSE <<Put(key, val)>>

Begin(todo) ==
    /\ work = Idle /\ seq + Len(todo) <= MaxSeq
    /\ work' = [phase |-> "next", todo |-> todo, root |-> root, seq |-> seq, next |-> next]
    /\ UNCHANGED <<root, seq, next>>

Point == \E key \in Keys, val \in Values : Begin(Normalized(key, val))

KeyPrefixes == UNION {{SubSeq(k, 1, n) : n \in 2 .. Len(k)} : k \in Keys}

Prefix == \E p \in KeyPrefixes : Begin(<<Clear(p)>>)

DropBlock(b) ==
    /\ work = Idle /\ seq < MaxSeq
    /\ LET kept == {p \in DOMAIN root.nodes : p[1] \notin PartitionsOf(b)}
           rt == [root EXCEPT !.nodes = Restricted(@, kept),
                              !.runs = Restricted(@, UNION {root.nodes[p].runs : p \in kept})]
       IN  root' = Summarised(rt, b)
    /\ seq' = seq + 1
    /\ UNCHANGED <<next, work>>

\* Every step below is one of the private work.
Works(w) == work' = w /\ UNCHANGED <<root, seq, next>>

\* Any of them may fail, or the validator turn the result down: all of it is dropped.
Fail == work # Idle /\ Works(Idle)

Publish ==
    /\ work.phase = "next" /\ work.todo = <<>>
    /\ root' = work.root /\ seq' = work.seq /\ next' = work.next
    /\ work' = Idle

-----------------------------------------------------------------------------
(* udb_storage_point: a run of one record, and the tree put back into shape.  *)

Rec == [work.todo[1] EXCEPT !.seq = work.seq + 1]

Change(phase) ==
    [phase |-> phase, todo |-> Tail(work.todo), root |-> work.root, seq |-> Rec.seq, next |-> work.next, rec |-> Rec]

\* Fault: what the key weighed before is not taken off.
WeightAdded(node, old, rec) == node.sum.weight + Weight[rec.val]

WeightAfter(node, old, rec) == node.sum.weight - WeightOf(old) + Weight[rec.val]

PointCreate ==
    /\ work.phase = "next" /\ work.todo # <<>> /\ Rec.op = "PUT"
    /\ LET p == Locate(work.root, Rec.key)
           node == NodeAt(work.root, p)
       IN  Works(Change(IF Crowded(node) THEN "compact" ELSE "append") @@
                 [pos |-> p, runs |-> node.runs, weight |-> WeightAfter(node, Lookup(work.root, Rec.key), Rec)])

\* The rows of a leaf, or of two, become canonical again below the change's place.
Rebuild(phase) ==
    LET R == View(work.root, work.runs)
        built == Rebuilt(work.root, work.pos, R, work.next)
    IN  /\ Splits(work.pos, R)
        /\ Works([work EXCEPT !.phase = phase, !.root = built.root, !.next = built.next,
                              !.runs = NodeAt(built.root, work.pos).runs])

\* As many runs as a leaf may name: they become one first.
Compact == work.phase = "compact" /\ Rebuild("append")

\* Fault: the nodes above keep the digests they had.
NotUpwards == "summary"

Upwards == "ancestor"

\* The leaf is hashed again, unless it got too heavy and has to be split.
AppendRun ==
    LET ids == work.runs \cup {work.next}
        rt == WithRun(work.root, work.next, {work.rec})
        R == View(rt, ids)
        heavy == Heavy(work.weight)
        sum == IF heavy THEN NodeAt(rt, work.pos).sum ELSE LeafSum(work.pos, R)
    IN  /\ work.phase = "append"
        /\ Works([work EXCEPT
                    !.phase = IF heavy THEN "rebuild" ELSE IF sum.weight # work.weight THEN "corrupt" ELSE Upwards,
                    !.root = WithNode(rt, work.pos, [kind |-> "LEAF", runs |-> ids, sum |-> sum]),
                    !.runs = ids, !.next = @ + 1])

Reshape == work.phase = "rebuild" /\ Rebuild(Upwards)

\* One level up: two halves light enough for a leaf become one, others a branch.
Ancestor ==
    LET up == Parent(work.pos)
        l == NodeAt(work.root, Child(up, 0))
        r == NodeAt(work.root, Child(up, 1))
        light == ~Heavy(l.sum.weight + r.sum.weight)
    IN  /\ work.phase = "ancestor" /\ work.pos[2] # <<>>
        /\ Works(IF light
                 THEN [work EXCEPT !.phase = IF {l.kind, r.kind} = {"LEAF"} THEN "rebuild" ELSE "corrupt",
                                   !.pos = up, !.runs = l.runs \cup r.runs]
                 ELSE [work EXCEPT !.pos = up,
                                   !.root = WithNode(@, up, [kind |-> "BRANCH", runs |-> {},
                                                             sum |-> Joined(l.sum, r.sum)])])

PointFinish ==
    /\ \/ work.phase = "summary"
       \/ work.phase = "ancestor" /\ work.pos[2] = <<>>
    /\ Works([work EXCEPT !.phase = "next", !.root = Summarised(@, work.rec.key[1])])

-----------------------------------------------------------------------------
(* udb_storage_prefix: a tombstone hides the rows until they are gone.        *)

\* Fault: a prefix of K above its entities is taken for one of them.
CoveredFirst(prefix) == {CHOOSE part \in Partitions : \E k \in Keys : IsPrefix(prefix, k) /\ Partition[Entity(k)] = part}

CoveredPartitions(prefix) ==
    IF Len(prefix) > EntityDepth[prefix[1]] THEN {Partition[Entity(prefix)]} ELSE PartitionsOf(prefix[1])

Tombstone ==
    /\ work.phase = "next" /\ work.todo # <<>> /\ Rec.op = "PREFIX_DELETE"
    /\ LET w == Change("partitions")
       IN  Works([w EXCEPT !.root = [WithRun(@, work.next, {Rec}) EXCEPT !.prefixes = Append(@, work.next)],
                           !.next = @ + 1] @@ [parts |-> CoveredPartitions(Rec.key), tomb |-> work.next])

\* What is visible of a partition is sorted out of it and rebuilt.
RebuildPartition ==
    /\ work.phase = "partitions"
    /\ \E part \in work.parts :
          LET top == Top(part)
              R == Scan(work.root, Below(top))
              built == Rebuilt(work.root, top, R, work.next)
          IN  IF top \notin DOMAIN work.root.nodes
              THEN Works([work EXCEPT !.parts = @ \ {part}])
              ELSE /\ Splits(top, R)
                   /\ Works([work EXCEPT !.parts = @ \ {part}, !.root = built.root, !.next = built.next])

Retire ==
    /\ work.phase = "partitions" /\ work.parts = {}
    /\ Works([work EXCEPT
                !.phase = IF Last(work.root.prefixes) = work.tomb THEN "next" ELSE "corrupt",
                !.root = Summarised([@ EXCEPT !.prefixes = Front(@),
                                              !.runs = Restricted(@, DOMAIN @ \ {work.tomb})], work.rec.key[1])])

-----------------------------------------------------------------------------
Init == root = EmptyRoot /\ seq = 0 /\ next = 1 /\ work = Idle

Next ==
    \/ Point \/ Prefix \/ \E b \in Blocks : DropBlock(b)
    \/ Publish \/ Fail
    \/ PointCreate \/ Compact \/ AppendRun \/ Reshape \/ Ancestor \/ PointFinish
    \/ Tombstone \/ RebuildPartition \/ Retire

Spec == Init /\ [][Next]_vars

-----------------------------------------------------------------------------
(* Properties.                                                                *)

RootOK(rt) ==
    /\ DOMAIN rt.nodes \subseteq Positions
    /\ \A p \in DOMAIN rt.nodes :
          /\ rt.nodes[p].kind \in {"LEAF", "BRANCH"} /\ Cardinality(rt.nodes[p].runs) <= RunsMax
          /\ rt.nodes[p].runs \subseteq DOMAIN rt.runs

\* Types; every run a node names is in the catalog, as many as a node has room for; and none
\* of the checks by which a change refuses its own results (UDB_STORAGE_CORRUPT) ever fires.
BlockTypeOK ==
    /\ RootOK(root) /\ root.prefixes = <<>>
    /\ work # Idle => RootOK(work.root) /\ work.phase # "corrupt"

\* The shape of the tree and its digest follow from the rows alone, whatever made them: two
\* servers agree on a block if and only if their digests do.  And nothing else is left in
\* the catalog, neither runs nor tombstones (udb_storage_hash.c.inc, "Shape is
\* content-determined").
Canonical == work = Idle =>
    LET R == Scan(root, Positions)
        canon(part) == Rebuilt(EmptyRoot, Top(part), At(Top(part), R), 1).root.nodes
    IN  /\ \A part \in Partitions :
              /\ DOMAIN root.nodes \cap Below(Top(part)) = DOMAIN canon(part)
              /\ \A p \in DOMAIN canon(part) : root.nodes[p].kind = canon(part)[p].kind
                                               /\ root.nodes[p].sum = canon(part)[p].sum
        /\ \A b \in Blocks : root.digest[b] =
              UNION {{<<e, RowsOf(At(e, R))>> : e \in Ends(Top(part), R)} : part \in PartitionsOf(b)}
        /\ DOMAIN root.runs = UNION {root.nodes[p].runs : p \in DOMAIN root.nodes}
        /\ RowsOf(R) = RowsOf(UNION {Lookup(root, k) : k \in Keys})

\* What lookups find is a table of rows changed by one mutation at a time: merging runs,
\* compaction, splits, tombstones and rebuilds never lose or bring back a row, and a
\* mutation that fails on the way has changed nothing.
Rows == INSTANCE UdbRows WITH rows <- RowsOf(Scan(root, Positions))

ImplementsRows == Rows!Spec
=============================================================================
