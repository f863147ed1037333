---------------------------- MODULE MCUdbJournal ----------------------------
(* UdbJournal on small instances.                                            *)
EXTENDS UdbJournal, TLC

CONSTANTS e1, e2, e3, e4

MCExtents == {e1, e2, e3, e4}

\* Extents are interchangeable: nothing orders them.
Interchange == Permutations(MCExtents)

\* Either processes end early or the power fails, never both in one history: with both, a
\* store may become ambiguous (JournalMixed).
Unmixed == faults'.power = 0 \/ faults'.kill + faults'.fail = 0

UnmixedNext ==
    Prepare \/ Abandon \/ Pin \/ Release \/ (Work /\ Unmixed) \/ (Environment /\ Unmixed)

UnmixedFairSpec == Init /\ [][UnmixedNext]_vars /\ WF_vars(Work)
=============================================================================
