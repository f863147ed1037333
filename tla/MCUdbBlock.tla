------------------------------ MODULE MCUdbBlock ------------------------------
(* Two blocks of a few rows for TLC. *)
EXTENDS UdbBlock

Letters == {"K", "N"}
Depths == [K |-> 2, N |-> 1]

\* Three lines of one type in two partitions, so that a prefix of the type covers both, and
\* a nick, its password and the row that forbids it.  The first two rows of a partition are
\* told apart by the second bit only.
SomeKeys == {<<"K", "G", "x">>, <<"K", "G", "y">>, <<"K", "G", "z">>,
             <<"N", "a">>, <<"N", "a", "pass">>, <<"N", "a", "forbid">>}
SomeForbids == {<<"N", "a", "forbid">>}
Places == [entity \in {<<"K", "G", "x">>, <<"K", "G", "y">>, <<"K", "G", "z">>, <<"N", "a">>} |->
             IF entity[1] = "N" THEN 3 ELSE IF entity[3] = "z" THEN 2 ELSE 1]
Hashes == [k \in SomeKeys |-> IF k[Len(k)] \in {"y", "pass"} THEN <<0, 1>>
                              ELSE IF k[Len(k)] = "forbid" THEN <<1, 0>> ELSE <<0, 0>>]

Sizes == {"small", "big"}
Weights == [small |-> 1, big |-> 2]
=============================================================================
