----------------------------- MODULE MCThreadIds -----------------------------
(* ThreadIds for TLC: the places of threads are interchangeable.            *)
EXTENDS ThreadIds, TLC

Symmetry == Permutations(Threads)
=============================================================================
