---------------------------- MODULE MCUdbReceive ----------------------------
(* UdbReceive on two rounds.  A block is empty or has one row at the authority.  The *)
(* rounds announce the same contents under two watermarks, or exchange which block   *)
(* is empty: then no block of one is a block of the other.                           *)
EXTENDS UdbReceive

CONSTANTS b1, b2, B

OneOwner == {1}
TwoOwners == {1, 2}

Round(seq, digests) ==
    [src |-> B, seq |-> seq,
     blocks |-> [b \in Blocks |-> [count |-> IF digests[b] = 0 THEN 0 ELSE 1, digest |-> digests[b]]]]

SameTwice == <<Round(5, b1 :> 71 @@ b2 :> 0), Round(6, b1 :> 71 @@ b2 :> 0)>>
Exchanged == <<Round(5, b1 :> 71 @@ b2 :> 0), Round(6, b1 :> 0 @@ b2 :> 72)>>

\* Deadlines and changes of policy only while a PROMOTE is under way, which is where they
\* may split what it makes durable, or READY is served; before that a round is ended by the
\* next one.
Promoting == \E o \in Owners : Active(o) /\ rounds[o].promote # NoJob

ExchangeNext ==
    \/ (Works \/ Breaks) /\ UNCHANGED receive
    \/ Tick \/ Frames
    \/ (Promoting \/ ready) /\ (Timeout \/ Withdraw)

ExchangeSpec == ReceiveInit /\ [][ExchangeNext]_allVars
=============================================================================
