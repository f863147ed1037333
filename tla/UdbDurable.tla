----------------------------- MODULE UdbDurable -----------------------------
(* What the native store promises to everything above it, whatever the disk  *)
(* and the process do: the set of transactions it has served only grows, one *)
(* transaction at a time, a restart brings back everything served before it  *)
(* plus at most the one transaction whose outcome was still in doubt, and a  *)
(* store that cannot be opened stays closed instead of serving less.         *)
VARIABLES
    served,   \* transactions an acknowledgement or a read has ever shown
    phase     \* "up": the store serves; "down": no process; "closed": refused

vars == <<served, phase>>

OneMore == \E t \in served' : t \notin served /\ served' = served \cup {t}

Init ==
    /\ served = {}
    /\ phase = "down"

\* A group of jobs becomes durable and is published.
Publish ==
    /\ phase = "up"
    /\ OneMore
    /\ UNCHANGED phase

\* The process ends, is killed, loses power or meets an I/O error.
Stop ==
    /\ phase = "up"
    /\ phase' = "down"
    /\ UNCHANGED served

\* A restart opens the store: the transaction in doubt is in or out, as a whole.
Open ==
    /\ phase = "down"
    /\ phase' = "up"
    /\ \/ UNCHANGED served
       \/ OneMore

\* A restart finds the store ambiguous and refuses to open it.
Refuse ==
    /\ phase = "down"
    /\ phase' = "closed"
    /\ UNCHANGED served

Next == Publish \/ Stop \/ Open \/ Refuse

Spec == Init /\ [][Next]_vars
=============================================================================
