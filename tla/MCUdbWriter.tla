----------------------------- MODULE MCUdbWriter -----------------------------
(* UdbWriter on small instances.                                              *)
EXTENDS UdbWriter

CONSTANTS b1, A, r1

Request(kind, owner, block, src, seq, count, digest) ==
    [kind |-> kind, owner |-> owner, block |-> block, src |-> src, seq |-> seq,
     count |-> count, digest |-> digest]

Mutation(kind, src, seq) == Request(kind, 0, b1, src, seq, 0, 0)

\* Two sources and one lineage; the second mutation may be asked for first.
MutationRequests ==
    {Mutation("BIND", A, 0), Mutation("POINT", A, 1), Mutation("PREFIX", A, 2),
     Mutation("EXPIRE", A, 0)}
=============================================================================
