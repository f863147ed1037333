----------------------------- MODULE MCUdbOcl -----------------------------
(* Three servers in a row, two classes of which a configuration gives one or both. *)
EXTENDS UdbOcl

CONSTANTS A, B, C, netadmin, helpop

Row == {{A, B}, {B, C}}
Along == [n \in {A, B, C} |-> [o \in {A, B, C} |-> IF {n, o} \in Row THEN o ELSE B]]
Both == {netadmin, helpop}
OneOrBoth == {{netadmin}, Both}

Events == [rehash |-> 1, reload |-> 1, break |-> 1, expire |-> 1]
=============================================================================
