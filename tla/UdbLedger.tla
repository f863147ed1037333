------------------------------ MODULE UdbLedger ------------------------------
(* What the writer of the native store promises to the code that submits jobs *)
(* to it: one ledger of durable jobs, extended by whole groups; a job whose    *)
(* authority was withdrawn before its group passed the durability barrier      *)
(* never enters it; and the successes reported back are exactly the ledger,    *)
(* in its order, with none skipped.                                            *)
EXTENDS Naturals, Sequences

VARIABLES
    log,       \* jobs that are durable, in the order they took effect
    revoked,   \* jobs cancelled, or whose authority was superseded
    told,      \* jobs reported to their submitter as durable, in order
    refused    \* jobs reported as anything else

vars == <<log, revoked, told, refused>>

Among(s) == {s[i] : i \in 1 .. Len(s)}

Init == log = <<>> /\ revoked = {} /\ told = <<>> /\ refused = {}

\* A group becomes durable.
Commit ==
    /\ Len(log') > Len(log)
    /\ SubSeq(log', 1, Len(log)) = log
    /\ \A i \in Len(log) + 1 .. Len(log') :
          /\ log'[i] \notin revoked \cup refused
          /\ \A j \in 1 .. i - 1 : log'[j] # log'[i]
    /\ UNCHANGED <<revoked, told, refused>>

\* The submitter changes its mind, or loses its authority.
Revoke ==
    /\ revoked \subseteq revoked' /\ (revoked' \ revoked) \cap Among(log) = {}
    /\ UNCHANGED <<log, told, refused>>

Tell ==
    /\ Len(told) < Len(log)
    /\ told' = Append(told, log[Len(told) + 1])
    /\ UNCHANGED <<log, revoked, refused>>

Refuse ==
    /\ \E j \in refused' : j \notin Among(log) /\ refused' = refused \cup {j}
    /\ UNCHANGED <<log, revoked, told>>

Next == Commit \/ Revoke \/ Tell \/ Refuse

Spec == Init /\ [][Next]_vars
=============================================================================
