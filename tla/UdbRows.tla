------------------------------- MODULE UdbRows -------------------------------
(* What the blocks promise: a table of rows, changed by one mutation at a time, and  *)
(* each mutation at once.                                                           *)
EXTENDS Sequences, SequencesExt

CONSTANTS Keys,      \* a block and a path of components
          Forbids,   \* those whose row leaves nothing else of their entity
          Values

VARIABLE rows        \* pairs of a key and a value

Under(prefix) == {row \in rows : IsPrefix(prefix, row[1])}
Of(key) == {row \in rows : row[1] = key}

Put(key, val) ==
    /\ key \in Keys \ Forbids
    /\ rows' = (rows \ Of(key)) \cup {<<key, val>>}

\* A row that forbids an entity clears all below it, but for the entity's own row.
Forbid(key, val) ==
    /\ key \in Keys \cap Forbids
    /\ LET parent == Front(key)
       IN  rows' = (rows \ Under(parent)) \cup Of(parent) \cup {<<key, val>>}

Clear(prefix) == rows' = rows \ Under(prefix)

\* Part of an entity, an entity, some, or (1) a whole block.
KeyPrefixes == UNION {{SubSeq(k, 1, n) : n \in 1 .. Len(k)} : k \in Keys}

Init == rows = {}

Next == \/ \E key \in Keys, val \in Values : Put(key, val) \/ Forbid(key, val)
        \/ \E prefix \in KeyPrefixes : Clear(prefix)

Spec == Init /\ [][Next]_rows
=============================================================================
