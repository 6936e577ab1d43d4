--------------------------- MODULE MCScoringQueue ---------------------------
(* Model checking of ScoringQueue: the constants come from the cfg files.   *)
EXTENDS ScoringQueue
=============================================================================
