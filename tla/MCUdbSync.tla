----------------------------- MODULE MCUdbSync -----------------------------
(* Two blocks, two or three mutations of which the first is in every snapshot, and *)
(* at most one fault of each kind a run allows.                                    *)
EXTENDS UdbSync

TwoBlocks == {1, 2}
TouchTwo == <<1, 2>>
TouchThree == <<1, 2, 1>>

NoFaults == [fail |-> 0, timeout |-> 0, authority |-> 0, verify |-> 0, break |-> 0]

TailFaults == [NoFaults EXCEPT !.fail = 1, !.authority = 1, !.break = 1]
RecoverFaults == [NoFaults EXCEPT !.fail = 1, !.timeout = 1, !.verify = 1]
OneFailure == [NoFaults EXCEPT !.fail = 1]
=============================================================================
