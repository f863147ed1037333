------------------------------ MODULE MCUdbCache ------------------------------
(* Instances of the page cache for TLC. *)
EXTENDS UdbCache, TLC

OneOrTwo == {1, 2}
FirstTwo == {0, 1}

\* Readers and slots are interchangeable, and so are the files.
Symmetry == Permutations(Readers) \cup Permutations(Slots) \cup Permutations(Files)
=============================================================================
