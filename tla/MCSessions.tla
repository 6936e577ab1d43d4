----------------------------- MODULE MCSessions -----------------------------
(* Model checking of Sessions: tokens and clients are interchangeable, reset *)
(* links are not (their row ids are ordered).                                *)
EXTENDS Sessions, TLC

CONSTANTS c1, c2, c3, t1, t2, t3

Symmetry == Permutations(Tokens) \cup Permutations(Clients)
=============================================================================
