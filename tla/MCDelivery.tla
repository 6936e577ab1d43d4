----------------------------- MODULE MCDelivery -----------------------------
(* Model checking of Delivery: rows and workers are interchangeable model   *)
(* values; no formula chooses one of them, so symmetry is sound for safety. *)
EXTENDS Delivery, TLC

Symmetry == Permutations(Rows) \cup Permutations(Workers)
=============================================================================
