----------------------------- MODULE MCEntries ------------------------------
(* Model checking of Entries: teams and requests are interchangeable, and   *)
(* the properties single out none of them.                                  *)
EXTENDS Entries, TLC

CONSTANTS t1, t2, t3, s1, s2

Symmetry == Permutations(Teams) \cup Permutations(Staff)
=============================================================================
